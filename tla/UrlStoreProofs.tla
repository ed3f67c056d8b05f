--------------------------- MODULE UrlStoreProofs ---------------------------
(***************************************************************************)
(* Proofs about module UrlStore, for all processes, threads, documents,    *)
(* contents, limits and numbers of faults:                                 *)
(*   UrlStoreType        the state has its shape, and a thread that is     *)
(*                       inside DocUpdate or a flush holds UDM_LOCK_CONF   *)
(*   UrlStoreWordsFresh  the inverted index has no words of a document but *)
(*                       those of the content its row names                *)
(*   UrlStoreInfoMatchesWords  and it is shown with the sections of them   *)
(***************************************************************************)
(* Two inductions carry the last two: FreshInv is what is known of the     *)
(* words, the row and the caches between every two statements of an        *)
(* update, InfoInv what is known of the sections beside it.                *)
(***************************************************************************)
EXTENDS UrlStore, TLAPS

\* The parts of TypeOK: the tables and the word caches,
DataOK ==
    /\ status \in [Urls -> Statuses \cup {"none"}]
    /\ crc \in [Urls -> Contents \cup {0}]
    /\ bad \in [Urls -> {"recent", "old"}]
    /\ referrer \in [Urls -> Urls \cup {0}]
    /\ info \in [Urls -> SUBSET Contents]
    /\ dict \in [Urls -> SUBSET Contents]
    /\ urls \in [Processes -> SUBSET Urls]
    /\ words \in [Processes -> SUBSET (Urls \X Contents)]
    /\ hrefs \in [Threads -> SUBSET Urls]
    /\ DBMode \in DBModes /\ stale \in SUBSET Urls /\ reset \in SUBSET Urls
    /\ updates \in 0..UpdatesMax /\ faults \in 0..FaultsMax

\* the threads,
Docs == [url : Urls \cup {0}, prev : Statuses \cup {"none"},
         crc32old : Contents \cup {0},
         status : Statuses \cup {"none"}, crc32 : Contents \cup {0}]

PlaceOK ==
    /\ lock \in [Processes -> Threads \cup {Nobody}]
    /\ pc \in [Threads -> PCs]
    /\ method \in [Threads -> Methods]
    /\ doc \in [Threads -> Docs]

\* and what relates them.
ThreadOK(t) ==
    /\ (doc[t].url # 0) <=> (pc[t] = "taken" \/ method[t] \notin {"none", "FLUSH"})
    /\ pc[t] \in StepsOf(method[t])
    /\ method[t] # "none" => lock[P(t)] = t
    /\ lock[P(t)] = t => method[t] # "none" \/ pc[t] = "left"
    /\ method[t] = "LUPDATE" => doc[t].crc32 # 0

OneEach == \A t, o \in Threads : t # o /\ doc[t].url # 0 => doc[t].url # doc[o].url

LEMMA TypeParts ==
    TypeOK <=> DataOK /\ PlaceOK /\ (\A t \in Threads : ThreadOK(t)) /\ OneEach
BY DEF TypeOK, DataOK, PlaceOK, ThreadOK, OneEach, Docs

\* A document that is written is one of the table, and its words are those
\* of a content.
LEMMA Written ==
    ASSUME PlaceOK, NEW t \in Threads, ThreadOK(t),
           pc[t] \in PCs \ {"idle", "failed", "left", "WriteDelete", "WriteInsert", "done"}
    PROVE  /\ doc[t].url \in Urls
           /\ pc[t] \in {"InsertWords", "CacheWords"} => doc[t].crc32 \in Contents
BY DEF PlaceOK, ThreadOK, StepsOf, Docs, Methods, PCs, SQLSteps

\* A word cache is about documents of the table.
LEMMA CachedUrlsType ==
    ASSUME DataOK, NEW p \in Processes PROVE CachedUrls(p) \subseteq Urls
<1>1. urls[p] \subseteq Urls
  BY DEF DataOK
<1> QED BY <1>1 DEF CachedUrls

\* No statement, no answer and no fault leaves the types of the tables.
LEMMA DataStep ==
    DataOK /\ PlaceOK /\ (\A t \in Threads : ThreadOK(t)) /\ [Next]_vars => DataOK'
<1> SUFFICES ASSUME DataOK, PlaceOK, \A t \in Threads : ThreadOK(t), [Next]_vars
             PROVE  DataOK'
  OBVIOUS
<1> USE ProcessAssumption, UrlAssumption, OptionAssumption
    DEF DataOK, PlaceOK, Docs, P, place, counts, Statuses
<1>1. CASE UNCHANGED vars
  BY <1>1 DEF vars, tables, cache
<1>2. ASSUME NEW t \in Threads, NEW u \in Urls, Take(t, u) PROVE DataOK'
  BY <1>2 DEF Take, tables, cache
<1>3. ASSUME NEW t \in Threads, DocUpdate(t) PROVE DataOK'
  BY <1>3 DEF DocUpdate, Downloaded, NotModified, Gone, Down, NoStatus,
              VisitLater, Disallow, Update, tables, cache
<1>4. ASSUME NEW t \in Threads, Statement(t) PROVE DataOK'
  <2> USE DEF At, GoTo
  <2>1. CASE DeleteWords(t) BY <2>1 DEF DeleteWords, cache
  <2>2. CASE InsertWords(t)
    <3>1. doc[t].crc32 \in Contents
      BY <2>2, Written DEF InsertWords, PCs
    <3>2. stale' \in SUBSET Urls
      BY <2>2 DEF InsertWords
    <3>3. dict' \in [Urls -> SUBSET Contents]
      BY <2>2, <3>1 DEF InsertWords
    <3>4. UNCHANGED <<status, crc, bad, referrer, info, urls, words, hrefs, reset, counts>>
      BY <2>2 DEF InsertWords, cache
    <3> QED BY <3>2, <3>3, <3>4
  <2>3. CASE CacheWords(t)
    <3>1. doc[t].crc32 \in Contents /\ doc[t].url \in Urls
      BY <2>3, Written DEF CacheWords, PCs
    <3>2. stale' \in SUBSET Urls
      BY <2>3 DEF CacheWords
    <3>3. urls' \in [Processes -> SUBSET Urls]
      BY <2>3, <3>1 DEF CacheWords
    <3>4. words' \in [Processes -> SUBSET (Urls \X Contents)]
      BY <2>3, <3>1 DEF CacheWords
    <3> QED BY <2>3, <3>2, <3>3, <3>4 DEF CacheWords, tables
  <2>4. CASE UpdateUrl(t)
    <3>1. doc[t].url \in Urls
      BY <2>4, Written DEF UpdateUrl, PCs, SQLSteps
    <3>2. stale' \in SUBSET Urls /\ reset' \in SUBSET Urls
      <4>1. stale' \in {stale, stale \cup {doc[t].url}} /\ reset' \in {reset, reset \cup {doc[t].url}}
        BY <2>4 DEF UpdateUrl
      <4> QED BY <3>1, <4>1
    <3>3. status' \in [Urls -> Statuses \cup {"none"}]
      BY <2>4, <3>1 DEF UpdateUrl
    <3>4. bad' \in [Urls -> {"recent", "old"}]
      BY <2>4, <3>1 DEF UpdateUrl
    <3>5. UNCHANGED <<crc, referrer, info, dict, urls, words, hrefs, counts>>
      BY <2>4 DEF UpdateUrl, cache
    <3> QED BY <3>2, <3>3, <3>4, <3>5
  <2>5. CASE UpdateUrlWithLang(t)
    <3>1. doc[t].status \in Statuses \cup {"none"} /\ doc[t].crc32 \in Contents \cup {0}
      BY DEF Docs
    <3>2. CASE HasRow(doc[t].url)
      <4>1. /\ status' = [status EXCEPT ![doc[t].url] = doc[t].status]
            /\ crc' = [crc EXCEPT ![doc[t].url] = doc[t].crc32]
            /\ UNCHANGED <<bad, referrer, info, dict, urls, words, hrefs, stale, reset, counts>>
        BY <2>5, <3>2 DEF UpdateUrlWithLang, cache
      <4>2. status' \in [Urls -> Statuses \cup {"none"}] /\ crc' \in [Urls -> Contents \cup {0}]
        BY <3>1, <4>1
      <4> QED BY <4>1, <4>2
    <3>3. CASE ~HasRow(doc[t].url)
      BY <2>5, <3>3 DEF UpdateUrlWithLang, cache
    <3> QED BY <3>2, <3>3
  <2>6. CASE DeleteBadHrefs(t)
    <3>1. hrefs' \in [Threads -> SUBSET Urls]
      BY <2>6 DEF DeleteBadHrefs, BadHrefs
    <3> QED BY <2>6, <3>1 DEF DeleteBadHrefs, tables, cache
  <2>14. ASSUME NEW r \in Urls, DeleteHref(t, r) PROVE DataOK'
    <3>1. /\ status' = [status EXCEPT ![r] = "none"] /\ info' = [info EXCEPT ![r] = {}]
          /\ referrer' = [u \in Urls |-> IF referrer[u] = r THEN 0 ELSE referrer[u]]
          /\ stale' = stale \cup {r} /\ hrefs' = [hrefs EXCEPT ![t] = @ \ {r}]
          /\ UNCHANGED <<crc, bad, dict, urls, words, reset, counts>>
      BY <2>14 DEF DeleteHref, cache
    <3> QED BY <3>1
  <2>15. CASE ClearReferrer(t) BY <2>15 DEF ClearReferrer, cache
  <2>7. CASE DeleteInfo(t) BY <2>7 DEF DeleteInfo, cache
  <2>8. CASE InsertInfo(t)
    <3>1. method[t] = "LUPDATE"
      <4>1. pc[t] = "InsertInfo" /\ pc[t] \in StepsOf(method[t]) /\ method[t] \in Methods
        BY <2>8 DEF InsertInfo, ThreadOK
      <4> HIDE DEF DataOK, PlaceOK
      <4> QED BY <4>1 DEF StepsOf, Methods
    <3>2. doc[t].crc32 \in Contents
      BY <3>1 DEF ThreadOK
    <3>3. /\ info' = [info EXCEPT ![doc[t].url] = @ \cup {doc[t].crc32}]
          /\ UNCHANGED <<status, crc, bad, referrer, dict, urls, words, hrefs, stale, reset, counts>>
      BY <2>8 DEF InsertInfo, cache
    <3>4. info' \in [Urls -> SUBSET Contents]
      <4>1. info \in [Urls -> SUBSET Contents]
        OBVIOUS
      <4> HIDE DEF DataOK, PlaceOK
      <4> QED BY <3>2, <3>3, <4>1
    <3> QED BY <3>3, <3>4
  <2>9. CASE DeleteRow(t) BY <2>9 DEF DeleteRow, cache
  <2>10. CASE WriteDelete(t) BY <2>10 DEF WriteDelete, cache
  <2>11. CASE WriteInsert(t) BY <2>11 DEF WriteInsert, EmptyCache
  <2>12. CASE Done(t) BY <2>12 DEF Done, tables, cache
  <2>13. CASE Fail(t)
    <3>1. stale' \in SUBSET Urls
      <4>1. doc[t].url \in Urls \cup {0}
        OBVIOUS
      <4>2. CachedUrls(P(t)) \subseteq Urls
        BY CachedUrlsType
      <4>3. stale' \subseteq stale \cup ({doc[t].url} \ {0}) \cup CachedUrls(P(t))
        BY <2>13 DEF Fail
      <4>4. stale \subseteq Urls
        OBVIOUS
      <4> HIDE DEF DataOK, PlaceOK, CachedUrls
      <4> QED BY <4>1, <4>2, <4>3, <4>4
    <3>2. UNCHANGED cache \/ EmptyCache(P(t))
      BY <2>13 DEF Fail
    <3>3. urls' \in [Processes -> SUBSET Urls]
      <4>1. CASE UNCHANGED cache
        BY <4>1 DEF cache
      <4>2. CASE EmptyCache(P(t))
        BY <4>2 DEF EmptyCache
      <4> QED BY <3>2, <4>1, <4>2
    <3>4. words' \in [Processes -> SUBSET (Urls \X Contents)]
      <4>1. CASE UNCHANGED cache
        BY <4>1 DEF cache
      <4>2. CASE EmptyCache(P(t))
        BY <4>2 DEF EmptyCache
      <4> QED BY <3>2, <4>1, <4>2
    <3>5. /\ UNCHANGED <<tables, reset, DBMode, updates>> /\ faults' \in 0..FaultsMax
          /\ hrefs' \in [Threads -> SUBSET Urls]
      BY <2>13 DEF Fail
    <3> QED BY <3>1, <3>3, <3>4, <3>5 DEF tables
  <2> QED
    BY <1>4, <2>1, <2>2, <2>3, <2>4, <2>5, <2>6, <2>7, <2>8, <2>9, <2>10, <2>11, <2>12, <2>13,
       <2>14, <2>15 DEF Statement
<1>5. ASSUME NEW t \in Threads, Flush(t) PROVE DataOK'
  BY <1>5 DEF Flush, tables, cache
<1>6. ASSUME NEW t \in Threads, LeaveWithoutFlush(t) PROVE DataOK'
  <2>1. UNCHANGED <<status, crc, bad, referrer, info, dict, urls, words, hrefs, stale, reset,
                    DBMode, updates, faults>>
    BY <1>6 DEF LeaveWithoutFlush, tables, cache
  <2> QED BY <2>1
<1>7. ASSUME NEW p \in Processes, Kill(p) PROVE DataOK'
  <2>1. stale' \in SUBSET Urls
    <3>1. {doc[t].url : t \in ThreadsOf(p)} \ {0} \subseteq Urls
      BY DEF ThreadsOf
    <3>2. CachedUrls(p) \subseteq Urls /\ stale \subseteq Urls
      BY CachedUrlsType
    <3>3. stale' = stale \cup CachedUrls(p) \cup ({doc[t].url : t \in ThreadsOf(p)} \ {0})
      BY <1>7 DEF Kill
    <3> HIDE DEF DataOK, PlaceOK
    <3> QED BY <3>1, <3>2, <3>3
  <2> QED BY <1>7, <2>1 DEF Kill, EmptyCache, tables
<1>8. ASSUME NEW p \in Processes, Restart(p) PROVE DataOK'
  <2>1. stale' \in SUBSET Urls
    BY <1>8 DEF Restart, CachedUrls
  <2> QED BY <1>8, <2>1 DEF Restart, EmptyCache, tables
<1>9. ASSUME NEW u \in Urls, AddUrl(u) PROVE DataOK'
  BY <1>9 DEF AddUrl, cache
<1>10. ASSUME NEW u \in Urls, HoldElapses(u) PROVE DataOK'
  <2>1. /\ bad' = [bad EXCEPT ![u] = "old"]
        /\ UNCHANGED <<status, crc, referrer, info, dict, urls, words, hrefs, stale, reset, DBMode, updates, faults>>
    BY <1>10 DEF HoldElapses, cache
  <2> QED BY <2>1
<1> HIDE DEF DataOK, PlaceOK, Docs, P, place, counts, Statuses
<1> QED BY <1>1, <1>2, <1>3, <1>4, <1>5, <1>6, <1>7, <1>8, <1>9, <1>10 DEF Next, Run

-----------------------------------------------------------------------------
PlaceInv == PlaceOK /\ (\A t \in Threads : ThreadOK(t)) /\ OneEach

\* A statement that is not the last one of its URL action leads to another
\* one of it, under the same lock.
LEMMA GoesOn ==
    ASSUME PlaceInv, NEW t \in Threads, NEW s \in PCs, pc[t] \notin {"idle", "taken", "failed", "left"},
           s \in StepsOf(method[t]), GoTo(t, s), UNCHANGED <<lock, method, doc>>
    PROVE  PlaceInv'
<1> USE DEF PlaceInv, PlaceOK, P
<1>1. method[t] # "none" /\ s \notin {"taken", "idle", "failed", "left"} /\ pc'[t] = s
  BY DEF ThreadOK, StepsOf, Methods, GoTo
<1>2. PlaceOK' /\ OneEach'
  BY DEF GoTo, OneEach
<1>3. ASSUME NEW o \in Threads PROVE ThreadOK(o)'
  <2>1. CASE o = t
    BY <2>1, <1>1 DEF ThreadOK
  <2>2. CASE o # t
    <3>1. pc'[o] = pc[o] BY <2>2 DEF GoTo
    <3> QED BY <3>1 DEF ThreadOK
  <2> QED BY <2>1, <2>2
<1> QED BY <1>2, <1>3

\* The statement a thread is at is one of its method.
LEMMA AtMethod ==
    ASSUME PlaceInv, NEW t \in Threads, pc[t] \notin {"idle", "taken", "failed", "left"}
    PROVE  /\ method[t] # "none" /\ pc[t] \in StepsOf(method[t])
           /\ lock[P(t)] = t
BY DEF PlaceInv, PlaceOK, ThreadOK, StepsOf, Methods

\* The end of a URL action or of a flush, with or without the lock.
LEMMA Ends ==
    ASSUME PlaceInv, NEW t \in Threads, NEW s \in {"idle", "failed", "left"},
           pc[t] \notin {"idle", "taken", "failed", "left"}, GoTo(t, s),
           \/ lock' = [lock EXCEPT ![P(t)] = Nobody]
           \/ lock' = lock /\ s = "left",
           doc' = [doc EXCEPT ![t] = NoDoc], method' = [method EXCEPT ![t] = "none"]
    PROVE  PlaceInv'
<1> USE ProcessAssumption DEF PlaceInv, PlaceOK
<1>1. lock[P(t)] = t
  BY AtMethod
<1>2. NoDoc \in Docs /\ NoDoc.url = 0
  BY DEF NoDoc, Docs
<1>3. PlaceOK'
  BY <1>2 DEF GoTo, PCs, Methods, P
<1>4. OneEach'
  BY <1>2 DEF OneEach
<1>5. ASSUME NEW o \in Threads PROVE ThreadOK(o)'
  <2>1. CASE o = t
    <3>1. doc'[t].url = 0 /\ method'[t] = "none" /\ pc'[t] = s /\ (lock'[P(t)] = t => s = "left")
      BY <1>2 DEF GoTo, P
    <3> QED BY <2>1, <3>1 DEF ThreadOK, StepsOf, P
  <2>2. CASE o # t
    <3>1. doc'[o] = doc[o] /\ method'[o] = method[o] /\ pc'[o] = pc[o]
      BY <2>2 DEF GoTo
    <3>2. lock'[P(o)] = lock[P(o)] \/ (lock'[P(o)] = Nobody /\ P(o) = P(t))
      BY DEF P
    <3>3. P(o) = P(t) => method[o] = "none"
      BY <1>1, <2>2 DEF ThreadOK
    <3> QED BY <3>1, <3>2, <3>3 DEF ThreadOK
  <2> QED BY <2>1, <2>2
<1> QED BY <1>3, <1>4, <1>5

\* DocUpdate takes one way; words are only stored of a document that was found.
LEMMA Answered ==
    ASSUME PlaceInv, NEW t \in Threads, DocUpdate(t)
    PROVE  \E s \in Statuses \cup {"none"}, c \in Contents \cup {0},
              m \in Methods \ {"none", "FLUSH"} :
             /\ Update(t, s, c, m)
             /\ m = "LUPDATE" => c # 0
             /\ m \in {"LUPDATE", "UPDCLONE"} => s = "ok"
             /\ s \in Statuses \cup {doc[t].status}
<1> USE UrlAssumption DEF PlaceInv, PlaceOK
  <1>1. doc[t].crc32 \in Contents \cup {0} /\ doc[t].status \in Statuses \cup {"none"}
    BY DEF Docs
  <1>2. CASE Downloaded(t)
    <2>1. PICK c \in Contents : Update(t, "ok", c, ContentMethod(t, c))
      BY <1>2 DEF Downloaded
    <2>2. ContentMethod(t, c) \in Methods \ {"none", "FLUSH"}
      BY DEF ContentMethod, Methods
    <2>3. "ok" \in Statuses /\ c # 0
      BY DEF Statuses
    <2> QED BY <2>1, <2>2, <2>3
  <1>9. {"SUPDATE", "DUPDATE", "DELETE"} \subseteq Methods \ {"none", "FLUSH", "LUPDATE"}
    BY DEF Methods
  <1>10. {"notModified", "gone", "down", "new"} \subseteq Statuses
    BY DEF Statuses
  <1> HIDE DEF PlaceInv, PlaceOK
  <1>3. CASE NotModified(t)
    <2>1. Update(t, "notModified", doc[t].crc32, "SUPDATE") BY <1>3 DEF NotModified
    <2> QED BY <2>1, <1>1, <1>9, <1>10
  <1>4. CASE Gone(t)
    <2>1. Update(t, "gone", doc[t].crc32, "DUPDATE") BY <1>4 DEF Gone
    <2> QED BY <2>1, <1>1, <1>9, <1>10
  <1>5. CASE Down(t)
    <2>1. Update(t, "down", doc[t].crc32, "SUPDATE") BY <1>5 DEF Down
    <2> QED BY <2>1, <1>1, <1>9, <1>10
  <1>6. CASE NoStatus(t)
    <2>1. Update(t, "new", doc[t].crc32, "SUPDATE") BY <1>6 DEF NoStatus
    <2> QED BY <2>1, <1>1, <1>9, <1>10
  <1>7. CASE VisitLater(t)
    <2>1. Update(t, doc[t].status, doc[t].crc32, "SUPDATE") BY <1>7 DEF VisitLater
    <2> QED BY <2>1, <1>1, <1>9
  <1>8. CASE Disallow(t)
    <2>1. Update(t, doc[t].status, doc[t].crc32, "DELETE") BY <1>8 DEF Disallow
    <2> QED BY <2>1, <1>1, <1>9
  <1> QED BY <1>2, <1>3, <1>4, <1>5, <1>6, <1>7, <1>8 DEF DocUpdate

\* DocUpdate takes the lock for a document that has its answer.
LEMMA Begins ==
    ASSUME PlaceInv, DataOK, NEW t \in Threads, DocUpdate(t) PROVE PlaceInv'
<1> USE ProcessAssumption, UrlAssumption DEF PlaceInv, PlaceOK
<1>1. PICK s \in Statuses \cup {"none"}, c \in Contents \cup {0},
           m \in Methods \ {"none", "FLUSH"} :
        Update(t, s, c, m) /\ (m = "LUPDATE" => c # 0)
  BY Answered
<1>2. /\ pc[t] = "taken" /\ lock[P(t)] = Nobody
      /\ lock' = [lock EXCEPT ![P(t)] = t]
      /\ doc' = [doc EXCEPT ![t].status = s, ![t].crc32 = c]
      /\ method' = [method EXCEPT ![t] = m]
      /\ pc' = [pc EXCEPT ![t] = FirstStep(t, m)]
  BY <1>1 DEF Update
<1>3. FirstStep(t, m) \in StepsOf(m) /\ FirstStep(t, m) \in PCs \ {"idle", "taken", "failed", "left"}
  BY DEF FirstStep, StepsOf, Methods, PCs, SQLSteps
<1>4. doc[t].url # 0
  BY <1>2 DEF ThreadOK
<1>5. doc' \in [Threads -> Docs] /\ doc'[t].url = doc[t].url /\ doc'[t].crc32 = c
      /\ \A o \in Threads : o # t => doc'[o] = doc[o]
  <2>1. s \in Statuses \cup {"none"} /\ c \in Contents \cup {0} /\ doc \in [Threads -> Docs]
    OBVIOUS
  <2>2. doc' = [doc EXCEPT ![t].status = s, ![t].crc32 = c]
    BY <1>2
  <2> HIDE DEF PlaceInv, PlaceOK
  <2>3. doc' \in [Threads -> Docs]
    <3> DEFINE e == [doc[t] EXCEPT !.status = s, !.crc32 = c]
    <3>1. doc[t] \in Docs
      BY <2>1
    <3>2. e \in Docs
      BY <2>1, <3>1 DEF Docs
    <3>3. doc' = [doc EXCEPT ![t] = e]
      BY <2>1, <2>2, Zenon
    <3> HIDE DEF e
    <3> QED BY <2>1, <3>2, <3>3
  <2>4. doc'[t].url = doc[t].url /\ doc'[t].crc32 = c
    BY <2>1, <2>2 DEF Docs
  <2>5. \A o \in Threads : o # t => doc'[o] = doc[o]
    BY <2>1, <2>2
  <2> QED BY <2>3, <2>4, <2>5
<1>6. PlaceOK'
  BY <1>2, <1>3, <1>5 DEF P
<1>7. OneEach'
  BY <1>5 DEF OneEach
<1>8. ASSUME NEW o \in Threads PROVE ThreadOK(o)'
  <2>1. CASE o = t
    <3>1. pc'[t] = FirstStep(t, m) /\ method'[t] = m /\ lock'[P(t)] = t
      BY <1>2 DEF P
    <3> QED BY <1>1, <1>3, <1>4, <1>5, <2>1, <3>1 DEF ThreadOK, P
  <2>2. CASE o # t
    <3>1. pc'[o] = pc[o] /\ method'[o] = method[o] /\ doc'[o] = doc[o]
      BY <1>2, <1>5, <2>2
    <3>2. lock'[P(o)] = lock[P(o)] \/ (lock'[P(o)] = t /\ lock[P(o)] = Nobody)
      BY <1>2 DEF P
    <3> QED BY <2>2, <3>1, <3>2 DEF ThreadOK, P
  <2> QED BY <2>1, <2>2
<1> QED BY <1>6, <1>7, <1>8

\* A thread takes a document no other thread works on.
LEMMA Takes ==
    ASSUME PlaceInv, DataOK, NEW t \in Threads, NEW u \in Urls, Take(t, u) PROVE PlaceInv'
<1> USE ProcessAssumption, UrlAssumption DEF PlaceInv, PlaceOK
<1> DEFINE d == [url |-> u, prev |-> status[u], crc32old |-> crc[u],
                 status |-> status[u], crc32 |-> crc[u]]
<1>1. pc[t] = "idle" /\ pc' = [pc EXCEPT ![t] = "taken"] /\ UNCHANGED <<lock, method>>
      /\ doc' = [doc EXCEPT ![t] = d] /\ ~Working(u)
  BY DEF Take
<1>2. d \in Docs /\ d.url = u /\ u # 0
  BY DEF DataOK, Docs
<1> HIDE DEF d
<1>3. PlaceOK'
  BY <1>1, <1>2 DEF PCs
<1>4. OneEach'
  BY <1>1, <1>2 DEF OneEach, Working
<1>5. ASSUME NEW o \in Threads PROVE ThreadOK(o)'
  <2>1. CASE o = t
    BY <1>1, <1>2, <2>1 DEF ThreadOK, StepsOf, P, Methods
  <2>2. CASE o # t
    <3>1. pc'[o] = pc[o] /\ doc'[o] = doc[o]
      BY <1>1, <2>2
    <3> QED BY <1>1, <3>1 DEF ThreadOK, P
  <2> QED BY <2>1, <2>2
<1> QED BY <1>3, <1>4, <1>5

\* The statements that are not the last of their URL action.
Middle(t) ==
    \/ DeleteWords(t) \/ InsertWords(t) \/ CacheWords(t)
    \/ UpdateUrl(t) \/ UpdateUrlWithLang(t)
    \/ DeleteBadHrefs(t) \/ (\E r \in Urls : DeleteHref(t, r)) \/ ClearReferrer(t)
    \/ DeleteInfo(t) \/ InsertInfo(t) \/ DeleteRow(t)
    \/ WriteDelete(t) \/ WriteInsert(t)

LEMMA MiddleStep ==
    ASSUME PlaceInv, NEW t \in Threads, Middle(t) PROVE PlaceInv'
<1>1. /\ pc[t] \notin {"idle", "taken", "failed", "left"}
      /\ UNCHANGED <<lock, method, doc>>
  BY DEF Middle, At, cache, tables, DeleteWords, InsertWords, CacheWords, UpdateUrl,
         UpdateUrlWithLang, DeleteBadHrefs, DeleteHref, ClearReferrer, DeleteInfo,
         InsertInfo, DeleteRow, WriteDelete, WriteInsert
<1>2. method[t] \in Methods \ {"none"} /\ pc[t] \in StepsOf(method[t])
  BY <1>1, AtMethod DEF PlaceInv, PlaceOK
<1>3. PICK s \in PCs : s \in StepsOf(method[t]) /\ GoTo(t, s)
  <2> USE DEF StepsOf, Methods, PCs, SQLSteps, At
  <2>1. CASE DeleteWords(t)
    <3>1. method[t] \in {"LUPDATE", "DUPDATE", "UPDCLONE", "DELETE"}
      BY <1>2, <2>1 DEF DeleteWords
    <3> QED BY <3>1, <2>1 DEF DeleteWords
  <2>2. CASE InsertWords(t) BY <1>2, <2>2 DEF InsertWords
  <2>3. CASE CacheWords(t) BY <1>2, <2>3 DEF CacheWords
  <2>4. CASE UpdateUrl(t) BY <1>2, <2>4 DEF UpdateUrl
  <2>5. CASE UpdateUrlWithLang(t) BY <1>2, <2>5 DEF UpdateUrlWithLang
  <2>6. CASE DeleteBadHrefs(t)
    <3>1. method[t] \in {"SUPDATE", "LUPDATE", "DUPDATE", "DELETE"}
      BY <1>2, <2>6 DEF DeleteBadHrefs
    <3> QED BY <3>1, <2>6 DEF DeleteBadHrefs, AfterHrefs
  <2>12. CASE \E r \in Urls : DeleteHref(t, r)
    <3>1. method[t] \in {"SUPDATE", "LUPDATE", "DUPDATE", "DELETE"}
      BY <1>2, <2>12 DEF DeleteHref
    <3> QED BY <3>1, <2>12 DEF DeleteHref, AfterHrefs
  <2>13. CASE ClearReferrer(t) BY <1>2, <2>13 DEF ClearReferrer
  <2>7. CASE DeleteInfo(t) BY <1>2, <2>7 DEF DeleteInfo
  <2>8. CASE InsertInfo(t) BY <1>2, <2>8 DEF InsertInfo, AfterInfo
  <2>9. CASE DeleteRow(t) BY <1>2, <2>9 DEF DeleteRow
  <2>10. CASE WriteDelete(t) BY <1>2, <2>10 DEF WriteDelete
  <2>11. CASE WriteInsert(t) BY <1>2, <2>11 DEF WriteInsert
  <2> QED
    BY <2>1, <2>2, <2>3, <2>4, <2>5, <2>6, <2>7, <2>8, <2>9, <2>10, <2>11, <2>12, <2>13
       DEF Middle
<1> QED BY <1>1, <1>3, GoesOn

LEMMA PlaceStep == PlaceInv /\ DataOK /\ [Next]_vars => PlaceInv'
<1> SUFFICES ASSUME PlaceInv, DataOK, [Next]_vars PROVE PlaceInv'
  OBVIOUS
<1>1. CASE UNCHANGED vars
  BY <1>1 DEF vars, place, PlaceInv, PlaceOK, ThreadOK, OneEach, P
<1>2. ASSUME NEW t \in Threads, NEW u \in Urls, Take(t, u) PROVE PlaceInv'
  BY <1>2, Takes
<1>3. ASSUME NEW t \in Threads, DocUpdate(t) PROVE PlaceInv'
  BY <1>3, Begins
<1>4. ASSUME NEW t \in Threads, Done(t) PROVE PlaceInv'
  <2>1. PICK s \in {"idle", "failed", "left"} : GoTo(t, s)
    BY <1>4 DEF Done
  <2> QED BY <1>4, <2>1, Ends DEF Done, At
<1>5. ASSUME NEW t \in Threads, Fail(t) PROVE PlaceInv'
  <2>1. CASE method[t] = "FLUSH"
    <3>1. GoTo(t, "left") /\ lock' = lock /\ pc[t] \in SQLSteps
      BY <1>5, <2>1 DEF Fail
    <3> QED BY <1>5, <3>1, Ends DEF Fail, SQLSteps
  <2>2. CASE method[t] # "FLUSH"
    <3>1. GoTo(t, "failed") /\ lock' = [lock EXCEPT ![P(t)] = Nobody] /\ pc[t] \in SQLSteps
      BY <1>5, <2>2 DEF Fail
    <3> QED BY <1>5, <3>1, Ends DEF Fail, SQLSteps
  <2> QED BY <2>1, <2>2
<1>6. ASSUME NEW t \in Threads, Flush(t) PROVE PlaceInv'
  <2> USE ProcessAssumption DEF PlaceInv, PlaceOK
  <2>1. PlaceOK' /\ OneEach'
    BY <1>6 DEF Flush, GoTo, PCs, SQLSteps, Methods, OneEach, P
  <2>2. ASSUME NEW o \in Threads PROVE ThreadOK(o)'
    <3>1. CASE o = t
      BY <1>6, <3>1 DEF Flush, GoTo, ThreadOK, StepsOf, P, Methods
    <3>2. CASE o # t
      <4>1. pc'[o] = pc[o] /\ method'[o] = method[o] /\ doc' = doc
            /\ (lock'[P(o)] = lock[P(o)] \/ (lock[P(o)] = Nobody /\ lock'[P(o)] = t))
        BY <1>6, <3>2 DEF Flush, GoTo, P
      <4> QED BY <3>2, <4>1 DEF ThreadOK, P
    <3> QED BY <3>1, <3>2
  <2> QED BY <2>1, <2>2
<1>7. ASSUME NEW t \in Threads, LeaveWithoutFlush(t) PROVE PlaceInv'
  <2> USE DEF PlaceInv, PlaceOK
  <2>1. UNCHANGED <<lock, method, doc>> /\ pc' = [pc EXCEPT ![t] = "left"]
        /\ pc[t] \in {"idle", "failed"}
    BY <1>7 DEF LeaveWithoutFlush, GoTo
  <2>2. PlaceOK' /\ OneEach'
    BY <2>1 DEF PCs, OneEach
  <2>3. ASSUME NEW o \in Threads PROVE ThreadOK(o)'
    BY <2>1 DEF ThreadOK, StepsOf, P, Methods
  <2> QED BY <2>2, <2>3
<1>8. ASSUME NEW p \in Processes, Kill(p) PROVE PlaceInv'
  <2> USE ProcessAssumption DEF PlaceInv, PlaceOK
  <2>1. NoDoc \in Docs /\ NoDoc.url = 0
    BY DEF NoDoc, Docs
  <2>2. \A o \in Threads :
          IF P(o) = p
          THEN doc'[o] = NoDoc /\ method'[o] = "none" /\ pc'[o] = "left"
          ELSE /\ doc'[o] = doc[o] /\ method'[o] = method[o] /\ pc'[o] = pc[o]
               /\ lock'[P(o)] = lock[P(o)]
    BY <1>8 DEF Kill, P
  <2>3. PlaceOK'
    BY <1>8, <2>1 DEF Kill, PCs, Methods
  <2>4. OneEach'
    BY <2>1, <2>2 DEF OneEach
  <2>5. ASSUME NEW o \in Threads PROVE ThreadOK(o)'
    <3>1. CASE P(o) = p
      BY <2>1, <2>2, <3>1, <1>8 DEF ThreadOK, StepsOf, P, Kill
    <3>2. CASE P(o) # p
      BY <2>2, <3>2 DEF ThreadOK, P
    <3> QED BY <3>1, <3>2
  <2> QED BY <2>3, <2>4, <2>5
<1>9. ASSUME NEW p \in Processes, Restart(p) PROVE PlaceInv'
  <2> USE ProcessAssumption DEF PlaceInv, PlaceOK
  <2>1. UNCHANGED <<method, doc>> /\ lock' = [lock EXCEPT ![p] = Nobody]
    BY <1>9 DEF Restart
  <2>2. \A o \in Threads : IF P(o) = p THEN pc[o] = "left" /\ pc'[o] = "idle" ELSE pc'[o] = pc[o]
    BY <1>9 DEF Restart, ThreadsOf, P
  <2>3. PlaceOK'
    BY <1>9 DEF Restart, PCs
  <2>4. OneEach'
    BY <2>1 DEF OneEach
  <2>5. ASSUME NEW o \in Threads PROVE ThreadOK(o)'
    <3>1. CASE P(o) = p
      BY <2>1, <2>2, <3>1 DEF ThreadOK, StepsOf, P, Methods
    <3>2. CASE P(o) # p
      BY <2>1, <2>2, <3>2 DEF ThreadOK, P
    <3> QED BY <3>1, <3>2
  <2> QED BY <2>3, <2>4, <2>5
<1>10. ASSUME NEW u \in Urls, AddUrl(u) \/ HoldElapses(u) PROVE PlaceInv'
  <2>1. UNCHANGED place
    BY <1>10 DEF AddUrl, HoldElapses
  <2> QED BY <2>1 DEF place, PlaceInv, PlaceOK, ThreadOK, OneEach, P
<1> QED
  BY <1>1, <1>2, <1>3, <1>4, <1>5, <1>6, <1>7, <1>8, <1>9, <1>10, MiddleStep
     DEF Next, Run, Statement, Middle

\* The shape of the state, for all instances (db.c:446-534, wordcache.c:38-63):
\* in particular two threads of one process are never both inside DocUpdate's
\* statements or a flush, and no two threads write one document.
THEOREM UrlStoreType == Spec => []TypeOK
<1>1. Init => TypeOK
  <2> SUFFICES ASSUME Init PROVE TypeOK
    OBVIOUS
  <2> USE ProcessAssumption, UrlAssumption, OptionAssumption DEF Init
  <2>1. DataOK
    BY DEF DataOK, Statuses
  <2>2. NoDoc \in Docs /\ NoDoc.url = 0
    BY DEF NoDoc, Docs
  <2>3. PlaceOK
    BY <2>2 DEF PlaceOK, PCs, Methods
  <2>4. OneEach
    BY <2>2 DEF OneEach
  <2>5. ASSUME NEW t \in Threads PROVE ThreadOK(t)
    BY <2>2 DEF ThreadOK, StepsOf, P
  <2> QED BY <2>1, <2>3, <2>4, <2>5, TypeParts
<1>2. TypeOK /\ [Next]_vars => TypeOK'
  <2>1. TypeOK <=> DataOK /\ PlaceInv
    BY TypeParts DEF PlaceInv
  <2>2. DataOK /\ PlaceInv /\ [Next]_vars => DataOK' /\ PlaceInv'
    BY DataStep, PlaceStep DEF PlaceInv
  <2>3. (DataOK' /\ PlaceInv') => TypeOK'
    BY TypeParts, PTL DEF PlaceInv
  <2> QED BY <2>1, <2>2, <2>3
<1> QED BY <1>1, <1>2, PTL DEF Spec

-----------------------------------------------------------------------------
\* Why WordsFresh and InfoMatchesWords hold.  A document nobody works on is
\* settled: its words, with the caches written, are those of its row, and a
\* row with Status 0 has none; and it is shown with the sections of its words.
Settled(u) ==
    /\ WordsToBe(u) \subseteq (IF HasRow(u) THEN {crc[u]} ELSE {})
    /\ status[u] = "new" => WordsToBe(u) = {}
Shown(u) == \A c \in WordsToBe(u) : c \in info[u] /\ (u \in reset \/ info[u] = {c})

\* The statements before which nothing of the document has changed, those
\* that follow its DELETE of words, those of an LUPDATE that has the new words
\* and not yet the new sections, and the last ones.
Early(t) ==
    \/ pc[t] = "taken"
    \/ method[t] = "SUPDATE" /\ pc[t] = "UpdateUrl"
    \/ pc[t] \in {"DeleteWords", "CacheWords"}
Cleared(t) ==
    \/ pc[t] \in {"InsertWords", "DeleteRow"}
    \/ method[t] = "DUPDATE" /\ pc[t] = "UpdateUrl"
    \/ method[t] = "UPDCLONE" /\ pc[t] = "UpdateUrlWithLang"
Half(t) ==
    /\ method[t] = "LUPDATE"
    /\ pc[t] \in {"UpdateUrlWithLang", "DeleteBadHrefs", "DeleteHrefs", "DeleteInfo", "InsertInfo"}
Late(t) ==
    pc[t] \in {"DeleteBadHrefs", "DeleteHrefs", "ClearReferrer", "DeleteInfo", "InsertInfo",
               "WriteDelete", "WriteInsert", "done"}

\* What is known of the document of a thread, when no fault has hit it.
DocFresh(t, u) ==
    /\ Early(t) => Settled(u) /\ Shown(u) /\ HasRow(u) /\ status[u] = doc[t].prev /\ ~Cached(u)
    /\ Cleared(t) => HasRow(u) /\ ~Cached(u) /\ dict[u] = {}
    /\ Half(t) => WordsToBe(u) \subseteq {doc[t].crc32} /\ (pc[t] = "UpdateUrlWithLang" => HasRow(u))
    /\ Late(t) => Settled(u) /\ (Shown(u) \/ Half(t))
DocOK(t) == doc[t].url \in Urls \ stale => DocFresh(t, doc[t].url)

StepOK(t) ==
    /\ doc[t].url # 0 => doc[t].status # "none"
    /\ method[t] = "LUPDATE" => doc[t].status = "ok"
    /\ pc[t] \in {"CacheWords", "WriteDelete", "WriteInsert"} => DBMode = "multi"
    /\ method[t] = "LUPDATE" /\ pc[t] = "DeleteWords" => DBMode = "single"
    /\ pc[t] = "InsertWords" => DBMode = "single" /\ dict[doc[t].url] = {}
    /\ pc[t] = "WriteInsert" => \A v \in urls[P(t)] \ stale : dict[v] = {}

\* A document no fault has hit is in the cache of one process at most.
CachedBy(p, u) == u \in urls[p] \/ \E v \in Contents : <<u, v>> \in words[p]
CacheOK ==
    /\ DBMode = "single" => \A u \in Urls : ~Cached(u)
    /\ \A u \in Urls \ stale : \A p, q \in Processes : CachedBy(p, u) /\ CachedBy(q, u) => p = q

RestOK == \A u \in Urls \ stale : Working(u) \/ (Settled(u) /\ Shown(u))

FreshInv == (\A t \in Threads : DocOK(t) /\ StepOK(t)) /\ CacheOK /\ RestOK

TypeInv == DataOK /\ PlaceInv

\* urlinfo has no sections of a document whose row says 0, unless it was
\* indexed before; nor has it any before an update that takes the document
\* for a new one, or has deleted the old ones, inserts those of the content.
Empty(u) == u \in reset \/ info[u] = {}
Unfilled(t) ==
    \/ pc[t] = "InsertInfo"
    \/ ~WasIndexed(t) /\ ~(method[t] = "LUPDATE" /\ pc[t] \in {"WriteDelete", "WriteInsert", "done"})
InfoOK(t) ==
    doc[t].url \in Urls =>
        /\ Unfilled(t) => Empty(doc[t].url)
        /\ method[t] \in {"LUPDATE", "UPDCLONE"} => doc[t].status = "ok"
        /\ method[t] = "LUPDATE" /\ pc[t] \in {"DeleteBadHrefs", "DeleteHrefs", "DeleteInfo", "InsertInfo"}
             => status[doc[t].url] # "new"
InfoInv == /\ \A u \in Urls : status[u] = "new" => Empty(u)
           /\ \A t \in Threads : InfoOK(t)

\* A step that another document than u is written in.
Same(u) ==
    /\ WordsToBe(u)' = WordsToBe(u)
    /\ status'[u] = status[u] /\ crc'[u] = crc[u] /\ info'[u] = info[u]
    /\ u \in reset => u \in reset'
    /\ Cached(u)' => Cached(u)
    /\ dict[u] = {} /\ ~Cached(u) => dict'[u] = {}

LEMMA CachedIs == \A u : Cached(u) <=> \E p \in Processes : CachedBy(p, u)
BY DEF Cached, CachedBy

\* The words of a document that is in no cache are those in dict.
LEMMA NotCached ==
    ASSUME NEW u, ~Cached(u) PROVE WordsToBe(u) = dict[u]
BY DEF Cached, WordsToBe, CachedWords

\* Nothing about u changes.
LEMMA Untouched ==
    ASSUME NEW u, status'[u] = status[u], crc'[u] = crc[u], info'[u] = info[u],
           dict'[u] = dict[u], u \in reset => u \in reset',
           \A p \in Processes : (u \in urls'[p] <=> u \in urls[p])
              /\ \A v \in Contents : <<u, v>> \in words'[p] <=> <<u, v>> \in words[p]
    PROVE  Same(u)
<1>1. WordsToBe(u)' = WordsToBe(u)
  BY DEF WordsToBe, CachedWords
<1>2. Cached(u)' => Cached(u)
  BY DEF Cached
<1> QED BY <1>1, <1>2 DEF Same

LEMMA SameSettled ==
    ASSUME NEW u, Same(u)
    PROVE  (Settled(u) => Settled(u)') /\ (Shown(u) => Shown(u)') /\ (HasRow(u) => HasRow(u)')
BY DEF Same, Settled, Shown, HasRow

\* What a step of t leaves for the threads that do nothing.
LEMMA Others ==
    ASSUME FreshInv, NEW o \in Threads,
           doc'[o] = doc[o], pc'[o] = pc[o], method'[o] = method[o],
           doc[o].url \in Urls \ stale' => doc[o].url \notin stale /\ Same(doc[o].url)
    PROVE  DocOK(o)'
<1> SUFFICES ASSUME doc[o].url \in Urls, doc[o].url \notin stale'
             PROVE  DocFresh(o, doc[o].url)'
  BY DEF DocOK
<1>1. PICK u \in Urls : u = doc[o].url
  OBVIOUS
<1>2. DocFresh(o, u) /\ Same(u)
  BY <1>1 DEF FreshInv, DocOK
<1>3. /\ Early(o)' <=> Early(o)
      /\ Cleared(o)' <=> Cleared(o)
      /\ Half(o)' <=> Half(o)
      /\ Late(o)' <=> Late(o)
  BY DEF Early, Cleared, Half, Late
<1>4. DocFresh(o, u)'
  BY <1>2, <1>3, SameSettled DEF DocFresh, Same
<1> QED BY <1>1, <1>4

\* What it leaves of the documents nobody works on.
LEMMA Rest ==
    ASSUME FreshInv, NEW u \in Urls, u \notin stale', u \notin stale, Same(u),
           Working(u) => Working(u)' \/ (Settled(u) /\ Shown(u))
    PROVE  Working(u)' \/ (Settled(u)' /\ Shown(u)')
BY SameSettled DEF FreshInv, RestOK

LEMMA Frame ==
    ASSUME TypeInv, FreshInv, NEW t \in Threads,
           \A o \in Threads \ {t} : doc'[o] = doc[o] /\ pc'[o] = pc[o] /\ method'[o] = method[o],
           \A u \in Urls : u # doc[t].url /\ u \notin stale' => u \notin stale /\ Same(u)
    PROVE  /\ \A o \in Threads \ {t} : DocOK(o)'
           /\ \A u \in Urls \ stale' : u # doc[t].url => Working(u)' \/ (Settled(u)' /\ Shown(u)')
<1>1. ASSUME NEW o \in Threads \ {t} PROVE DocOK(o)'
  <2>1. doc[o].url \in Urls => doc[o].url # doc[t].url
    BY UrlAssumption DEF TypeInv, PlaceInv, OneEach
  <2> QED BY <2>1, Others
<1>2. ASSUME NEW u \in Urls \ stale', u # doc[t].url PROVE Working(u)' \/ (Settled(u)' /\ Shown(u)')
  <2>1. Working(u) => Working(u)'
    BY <1>2 DEF Working
  <2> QED BY <1>2, <2>1, Rest
<1> QED BY <1>1, <1>2

\* The parts that have to be shown for a statement that goes on.
LEMMA FrameGoesOn ==
    ASSUME TypeInv, FreshInv, NEW t \in Threads, UNCHANGED <<doc, method, lock, DBMode>>,
           \A o \in Threads \ {t} : pc'[o] = pc[o],
           \A u \in Urls : u # doc[t].url /\ u \notin stale' => u \notin stale /\ Same(u),
           DocOK(t)', \A o \in Threads : StepOK(o)', CacheOK'
    PROVE  FreshInv'
<1>1. \A o \in Threads \ {t} : DocOK(o)'
  BY Frame
<1>2. \A u \in Urls \ stale' : u # doc[t].url => Working(u)' \/ (Settled(u)' /\ Shown(u)')
  BY Frame
<1>3. Working(doc[t].url)'
  BY DEF Working
<1> QED BY <1>1, <1>2, <1>3 DEF FreshInv, RestOK

\* A statement that leaves the caches leaves what is known of them, unless it
\* frees a document from stale that is in one.
LEMMA CachesLeft ==
    ASSUME FreshInv, UNCHANGED <<urls, words, DBMode>>,
           \A u \in Urls : u \notin stale' => u \notin stale \/ ~Cached(u)
    PROVE  CacheOK'
<1>1. \A u : Cached(u)' <=> Cached(u)
  BY DEF Cached
<1>2. \A u, p : CachedBy(p, u)' <=> CachedBy(p, u)
  BY DEF CachedBy
<1> QED BY <1>1, <1>2, CachedIs DEF FreshInv, CacheOK

\* What is known of the statement of a thread that waits.
LEMMA StepLeft ==
    ASSUME TypeInv, FreshInv, NEW o \in Threads, DBMode' = DBMode,
           doc'[o] = doc[o], pc'[o] = pc[o], method'[o] = method[o],
           pc[o] = "InsertWords" =>
             \A v \in Urls : v = doc[o].url /\ dict[v] = {} => dict'[v] = {},
           pc[o] = "WriteInsert" =>
             /\ urls'[P(o)] \subseteq urls[P(o)]
             /\ \A v \in Urls : v \in urls'[P(o)] /\ v \notin stale'
                                => v \notin stale /\ (dict[v] = {} => dict'[v] = {})
    PROVE  StepOK(o)'
<1>1. pc[o] = "InsertWords" => doc[o].url \in Urls
  BY Written DEF TypeInv, PlaceInv, PCs, SQLSteps
<1>2. StepOK(o)
  BY DEF FreshInv
<1>3. pc[o] = "InsertWords" => DBMode' = "single" /\ dict'[doc'[o].url] = {}
  BY <1>1, <1>2 DEF StepOK
<1>4. pc[o] = "WriteInsert" => \A v \in urls'[P(o)] \ stale' : dict'[v] = {}
  <2>1. urls[P(o)] \subseteq Urls
    BY ProcessAssumption DEF TypeInv, DataOK, P
  <2> QED BY <1>2, <2>1 DEF StepOK
<1>5. pc[o] \in {"CacheWords", "WriteDelete", "WriteInsert"} => DBMode' = "multi"
  BY <1>2 DEF StepOK
<1> QED BY <1>2, <1>3, <1>4, <1>5 DEF StepOK, P

LEMMA DeleteWordsFresh ==
    ASSUME TypeInv, FreshInv, NEW t \in Threads, DeleteWords(t) PROVE FreshInv'
<1>1. /\ pc[t] = "DeleteWords" /\ UNCHANGED <<status, crc, info, urls, words, lock, method, doc, stale, reset, DBMode>>
      /\ dict' = [dict EXCEPT ![doc[t].url] = {}]
  BY DEF DeleteWords, At, cache, counts
<1>2. \A o \in Threads \ {t} : pc'[o] = pc[o]
  BY DEF DeleteWords, GoTo, TypeInv, PlaceInv, PlaceOK
<1>3. PICK u \in Urls : u = doc[t].url
  BY <1>1, Written DEF PCs, SQLSteps, TypeInv, PlaceInv
<1>4. dict'[u] = {} /\ \A v \in Urls : v # u => dict'[v] = dict[v]
  BY <1>1, <1>3 DEF TypeInv, DataOK
<1>5. \A v \in Urls : v # u => Same(v)
  BY <1>1, <1>4, Untouched
<1>6. CacheOK'
  BY <1>1, CachesLeft
<1>7. /\ pc'[t] \in {"InsertWords", "UpdateUrl", "UpdateUrlWithLang", "DeleteRow"}
      /\ pc'[t] = "InsertWords" => method[t] = "LUPDATE"
      /\ pc'[t] = "UpdateUrl" => method[t] = "DUPDATE"
      /\ pc'[t] = "UpdateUrlWithLang" => method[t] = "UPDCLONE"
  <2>1. method[t] \in {"LUPDATE", "DUPDATE", "UPDCLONE", "DELETE"}
    BY <1>1 DEF ThreadOK, StepsOf, Methods, TypeInv, PlaceInv, PlaceOK
  <2> QED BY <2>1 DEF DeleteWords, GoTo, TypeInv, PlaceInv, PlaceOK
<1>8. ASSUME NEW o \in Threads PROVE StepOK(o)'
  <2>1. CASE o # t
    BY <1>1, <1>2, <1>4, <2>1, StepLeft DEF TypeInv, DataOK
  <2>2. CASE o = t
    <3>1. StepOK(t)
      BY DEF FreshInv
    <3> QED BY <1>1, <1>3, <1>4, <1>7, <2>2, <3>1 DEF StepOK
  <2> QED BY <2>1, <2>2
<1>9. DocOK(t)'
  <2> SUFFICES ASSUME u \notin stale' PROVE DocFresh(t, u)'
    BY <1>1, <1>3 DEF DocOK
  <2>1. HasRow(u) /\ ~Cached(u)
    BY <1>1, <1>3 DEF FreshInv, DocOK, DocFresh, Early
  <2>2. HasRow(u)' /\ ~Cached(u)'
    BY <1>1, <2>1 DEF HasRow, Cached
  <2>3. ~Early(t)' /\ ~Half(t)' /\ ~Late(t)'
    BY <1>1, <1>7 DEF Early, Half, Late
  <2> QED BY <1>4, <2>2, <2>3 DEF DocFresh
<1> QED BY <1>1, <1>2, <1>3, <1>5, <1>6, <1>8, <1>9, FrameGoesOn

LEMMA InsertWordsFresh ==
    ASSUME TypeInv, FreshInv, NEW t \in Threads, InsertWords(t) PROVE FreshInv'
<1>1. /\ pc[t] = "InsertWords" /\ UNCHANGED <<status, crc, info, urls, words, lock, method, doc, reset, DBMode>>
      /\ dict' = [dict EXCEPT ![doc[t].url] = @ \cup {doc[t].crc32}]
      /\ stale' = IF HasRow(doc[t].url) THEN stale \ {doc[t].url} ELSE stale
  BY DEF InsertWords, At, cache, counts
<1>2. \A o \in Threads \ {t} : pc'[o] = pc[o]
  BY DEF InsertWords, GoTo, TypeInv, PlaceInv, PlaceOK
<1>3. PICK u \in Urls : u = doc[t].url
  BY <1>1, Written DEF PCs, SQLSteps, TypeInv, PlaceInv
<1>4. DBMode = "single" /\ ~Cached(u) /\ dict[u] = {}
  BY <1>1, <1>3 DEF FreshInv, StepOK, CacheOK
<1>5. dict'[u] = {doc[t].crc32} /\ \A v \in Urls : v # u => dict'[v] = dict[v]
  BY <1>1, <1>3, <1>4 DEF TypeInv, DataOK
<1>6. \A v \in Urls : v # u => Same(v)
  BY <1>1, <1>5, Untouched
<1>7. CacheOK'
  BY <1>1, <1>3, <1>4, CachesLeft
<1>8. pc'[t] = "UpdateUrlWithLang" /\ method[t] = "LUPDATE"
  BY <1>1 DEF InsertWords, GoTo, ThreadOK, StepsOf, Methods, TypeInv, PlaceInv, PlaceOK
<1>9. ASSUME NEW o \in Threads PROVE StepOK(o)'
  <2>1. CASE o # t
    <3>1. pc[o] # "WriteInsert"
      BY <1>4 DEF FreshInv, StepOK
    <3>2. pc[o] = "InsertWords" => doc[o].url # u
      BY <1>3, <2>1, UrlAssumption DEF TypeInv, PlaceInv, OneEach
    <3>3. \A v \in Urls : v = doc[o].url /\ pc[o] = "InsertWords" => dict'[v] = dict[v]
      BY <1>5, <3>2
    <3> QED BY <1>1, <1>2, <2>1, <3>1, <3>3, StepLeft
  <2>2. CASE o = t
    <3>1. StepOK(t)
      BY DEF FreshInv
    <3> QED BY <1>1, <1>8, <2>2, <3>1 DEF StepOK
  <2> QED BY <2>1, <2>2
<1>10. DocOK(t)'
  <2> SUFFICES ASSUME u \notin stale' PROVE DocFresh(t, u)'
    BY <1>1, <1>3 DEF DocOK
  <2>1. HasRow(u)
    BY <1>1, <1>3, <1>8 DEF FreshInv, DocOK, DocFresh, Cleared
  <2>2. HasRow(u)' /\ ~Cached(u)'
    BY <1>1, <1>4, <2>1 DEF HasRow, Cached
  <2>3. WordsToBe(u)' = {doc[t].crc32}
    <3>1. WordsToBe(u)' = dict'[u]
      BY <2>2 DEF WordsToBe, CachedWords, Cached
    <3> QED BY <1>5, <3>1
  <2>4. ~Early(t)' /\ ~Cleared(t)' /\ ~Late(t)'
    BY <1>1, <1>8 DEF Early, Cleared, Late
  <2> QED BY <1>1, <2>2, <2>3, <2>4 DEF DocFresh
<1> QED BY <1>1, <1>2, <1>3, <1>6, <1>7, <1>9, <1>10, FrameGoesOn

LEMMA CacheWordsFresh ==
    ASSUME TypeInv, FreshInv, NEW t \in Threads, CacheWords(t) PROVE FreshInv'
<1>1. /\ pc[t] = "CacheWords" /\ UNCHANGED <<status, crc, info, dict, lock, method, doc, reset, DBMode>>
      /\ urls' = IF WasIndexed(t) THEN [urls EXCEPT ![P(t)] = @ \cup {doc[t].url}] ELSE urls
      /\ words' = [words EXCEPT ![P(t)] = @ \cup {<<doc[t].url, doc[t].crc32>>}]
      /\ stale' = IF WasIndexed(t) /\ HasRow(doc[t].url) /\ ~Cached(doc[t].url)
                  THEN stale \ {doc[t].url} ELSE stale
  BY DEF CacheWords, At, tables, counts
<1>2. \A o \in Threads \ {t} : pc'[o] = pc[o]
  BY DEF CacheWords, GoTo, TypeInv, PlaceInv, PlaceOK
<1>3. PICK u \in Urls : u = doc[t].url
  BY <1>1, Written DEF PCs, SQLSteps, TypeInv, PlaceInv
<1>4. PICK c \in Contents : c = doc[t].crc32
  BY <1>1, Written DEF PCs, SQLSteps, TypeInv, PlaceInv
<1>5. P(t) \in Processes
  BY ProcessAssumption DEF P
<1>6. /\ \A p \in Processes : p # P(t) => urls'[p] = urls[p] /\ words'[p] = words[p]
      /\ words'[P(t)] = words[P(t)] \cup {<<u, c>>}
      /\ urls'[P(t)] = IF WasIndexed(t) THEN urls[P(t)] \cup {u} ELSE urls[P(t)]
  BY <1>1, <1>3, <1>4, <1>5 DEF TypeInv, DataOK
<1>7. \A v \in Urls : v # u => Same(v)
  <2> SUFFICES ASSUME NEW v \in Urls, v # u PROVE Same(v)
    OBVIOUS
  <2>1. \A p \in Processes : (v \in urls'[p] <=> v \in urls[p])
          /\ \A w \in Contents : <<v, w>> \in words'[p] <=> <<v, w>> \in words[p]
    BY <1>6
  <2> QED BY <1>1, <2>1, Untouched
<1>8. u \notin stale' => HasRow(u) /\ ~Cached(u) /\ (WasIndexed(t) \/ dict[u] = {})
  <2>1. CASE u \in stale
    BY <1>1, <1>3, <2>1
  <2>2. CASE u \notin stale
    <3>1. Settled(u) /\ HasRow(u) /\ ~Cached(u) /\ status[u] = doc[t].prev
      BY <1>1, <1>3, <2>2 DEF FreshInv, DocOK, DocFresh, Early
    <3> QED BY <3>1, NotCached DEF Settled, WasIndexed
  <2> QED BY <2>1, <2>2
<1>9. pc'[t] = "UpdateUrlWithLang" /\ method[t] = "LUPDATE" /\ DBMode = "multi"
  BY <1>1 DEF CacheWords, GoTo, ThreadOK, StepsOf, Methods, TypeInv, PlaceInv, PlaceOK, FreshInv, StepOK
<1>10. CacheOK'
  <2>1. \A v \in Urls, p \in Processes : v # u => (CachedBy(p, v)' <=> CachedBy(p, v))
    BY <1>6 DEF CachedBy
  <2>2. u \notin stale' => \A p \in Processes : CachedBy(p, u)' => p = P(t)
    <3>1. \A p \in Processes : u \notin stale' => ~CachedBy(p, u)
      BY <1>8, CachedIs
    <3> QED BY <1>6, <3>1 DEF CachedBy
  <2>3. \A v \in Urls : v # u /\ v \notin stale' => v \notin stale
    BY <1>1, <1>3
  <2> QED BY <1>1, <1>9, <2>1, <2>2, <2>3 DEF CacheOK, FreshInv
<1>11. ASSUME NEW o \in Threads PROVE StepOK(o)'
  <2>1. CASE o # t
    <3>1. CASE pc[o] = "WriteInsert"
      <4>1. P(o) # P(t) /\ P(o) \in Processes
        BY <1>1, <2>1, <3>1, AtMethod, ProcessAssumption DEF TypeInv, P
      <4>2. urls'[P(o)] = urls[P(o)] /\ urls[P(o)] \subseteq Urls
        BY <1>6, <4>1 DEF TypeInv, DataOK
      <4>3. \A v \in urls[P(o)] : v \notin stale' => v \notin stale
        BY <1>1, <1>3, <1>8, <4>1 DEF Cached
      <4> QED BY <1>1, <1>2, <2>1, <3>1, <4>2, <4>3, StepLeft
    <3>2. CASE pc[o] # "WriteInsert"
      BY <1>1, <1>2, <2>1, <3>2, StepLeft
    <3> QED BY <3>1, <3>2
  <2>2. CASE o = t
    <3>1. StepOK(t)
      BY DEF FreshInv
    <3> QED BY <1>1, <1>9, <2>2, <3>1 DEF StepOK
  <2> QED BY <2>1, <2>2
<1>12. DocOK(t)'
  <2> SUFFICES ASSUME u \notin stale' PROVE DocFresh(t, u)'
    BY <1>1, <1>3 DEF DocOK
  <2>1. HasRow(u)'
    BY <1>1, <1>8 DEF HasRow
  <2>2. CachedWords(u)' = {c}
    BY <1>5, <1>6, <1>8 DEF CachedWords, Cached
  <2>3. WordsToBe(u)' = {c}
    <3>1. CASE WasIndexed(t)
      <4>1. u \in urls'[P(t)]
        BY <1>6, <3>1
      <4> QED BY <1>5, <2>2, <4>1 DEF WordsToBe
    <3>2. CASE ~WasIndexed(t)
      <4>1. dict'[u] = {}
        BY <1>1, <1>8, <3>2
      <4> QED BY <2>2, <4>1 DEF WordsToBe
    <3> QED BY <3>1, <3>2
  <2>4. ~Early(t)' /\ ~Cleared(t)' /\ ~Late(t)'
    BY <1>1, <1>9 DEF Early, Cleared, Late
  <2> QED BY <1>1, <1>4, <2>1, <2>3, <2>4 DEF DocFresh
<1> QED BY <1>1, <1>2, <1>3, <1>7, <1>10, <1>11, <1>12, FrameGoesOn

\* A statement that leaves the words and the caches: the types of the next
\* step, what is known of the document and of the other documents are left.
LEMMA WordsLeft ==
    ASSUME TypeInv, FreshInv, NEW t \in Threads, NEW u \in Urls, u = doc[t].url,
           UNCHANGED <<dict, urls, words, lock, method, doc, DBMode>>, stale \subseteq stale',
           pc'[t] \in PCs \ {"InsertWords"}, pc[t] \in PCs \ {"WriteDelete"},
           pc'[t] \in {"CacheWords", "WriteDelete", "WriteInsert"} => DBMode = "multi" /\ pc'[t] # "WriteInsert",
           pc'[t] # "DeleteWords",
           \A o \in Threads \ {t} : pc'[o] = pc[o],
           \A v \in Urls : v # u /\ v \notin stale' =>
             /\ status'[v] = status[v] /\ crc'[v] = crc[v] /\ info'[v] = info[v]
             /\ v \in reset => v \in reset',
           u \notin stale' => DocFresh(t, u)'
    PROVE  FreshInv'
<1>1. \A v \in Urls : v # u /\ v \notin stale' => Same(v)
  BY Untouched
<1>2. CacheOK'
  BY CachesLeft
<1>3. ASSUME NEW o \in Threads PROVE StepOK(o)'
  <2>1. CASE o # t
    BY <2>1, StepLeft
  <2>2. CASE o = t
    <3>1. StepOK(t)
      BY DEF FreshInv
    <3> QED BY <2>2, <3>1 DEF StepOK
  <2> QED BY <2>1, <2>2
<1>4. DocOK(t)'
  BY DEF DocOK
<1> QED BY <1>1, <1>2, <1>3, <1>4, FrameGoesOn

\* The words and whether they are cached, when neither changes.
LEMMA WordsSame ==
    ASSUME UNCHANGED <<dict, urls, words>>, NEW u
    PROVE  WordsToBe(u)' = WordsToBe(u) /\ (Cached(u)' <=> Cached(u))
BY DEF WordsToBe, CachedWords, Cached

LEMMA UpdateUrlFresh ==
    ASSUME TypeInv, FreshInv, NEW t \in Threads, UpdateUrl(t) PROVE FreshInv'
<1>1. /\ pc[t] = "UpdateUrl" /\ UNCHANGED <<crc, info, dict, urls, words, lock, method, doc, DBMode>>
      /\ HasRow(doc[t].url) => status' = [status EXCEPT ![doc[t].url] = doc[t].status]
      /\ ~HasRow(doc[t].url) => status' = status
      /\ stale' = IF WasIndexed(t) /\ doc[t].status = "new" THEN stale \cup {doc[t].url} ELSE stale
      /\ reset \subseteq reset'
  BY DEF UpdateUrl, At, cache, counts
<1>2. /\ \A o \in Threads \ {t} : pc'[o] = pc[o]
      /\ pc'[t] = "DeleteBadHrefs"
      /\ method[t] \in {"SUPDATE", "DUPDATE"}
  BY <1>1 DEF UpdateUrl, GoTo, TypeInv, PlaceInv, PlaceOK, ThreadOK, StepsOf, Methods
<1>3. PICK u \in Urls : u = doc[t].url
  BY <1>1, Written DEF PCs, SQLSteps, TypeInv, PlaceInv
<1>4. \A v \in Urls : v # u => status'[v] = status[v]
  BY <1>1, <1>3 DEF TypeInv, DataOK
<1>5. ASSUME u \notin stale' PROVE DocFresh(t, u)'
  <2>1. DocFresh(t, u) /\ u \notin stale
    BY <1>1, <1>3, <1>5 DEF FreshInv, DocOK
  <2>2. HasRow(u)
    BY <1>1, <1>2, <2>1 DEF DocFresh, Early, Cleared
  <2>3. status'[u] = doc[t].status /\ doc[t].status # "none"
    <3>1. doc[t].url # 0 /\ StepOK(t)
      BY <1>3, UrlAssumption DEF FreshInv
    <3> QED BY <1>1, <1>3, <2>2, <3>1 DEF TypeInv, DataOK, StepOK
  <2>4. Settled(u)' /\ Shown(u)'
    <3>1. CASE method[t] = "SUPDATE"
      <4>1. Settled(u) /\ Shown(u) /\ status[u] = doc[t].prev
        BY <1>1, <2>1, <3>1 DEF DocFresh, Early
      <4>2. doc[t].status = "new" => WordsToBe(u) = {}
        BY <1>1, <1>3, <1>5, <4>1 DEF WasIndexed, Settled
      <4> QED BY <1>1, <2>2, <2>3, <4>1, <4>2, WordsSame DEF Settled, Shown, HasRow
    <3>2. CASE method[t] = "DUPDATE"
      <4>1. WordsToBe(u) = {}
        BY <1>1, <2>1, <3>2, NotCached DEF DocFresh, Cleared
      <4> QED BY <1>1, <4>1, WordsSame DEF Settled, Shown
    <3> QED BY <1>2, <3>1, <3>2
  <2>5. ~Early(t)' /\ ~Cleared(t)' /\ ~Half(t)'
    BY <1>1, <1>2 DEF Early, Cleared, Half
  <2> QED BY <2>4, <2>5 DEF DocFresh
<1> QED BY <1>1, <1>2, <1>3, <1>4, <1>5, WordsLeft DEF PCs, SQLSteps

LEMMA UpdateUrlWithLangFresh ==
    ASSUME TypeInv, FreshInv, NEW t \in Threads, UpdateUrlWithLang(t) PROVE FreshInv'
<1>1. /\ pc[t] = "UpdateUrlWithLang"
      /\ UNCHANGED <<info, dict, urls, words, lock, method, doc, stale, reset, DBMode>>
      /\ HasRow(doc[t].url) => /\ status' = [status EXCEPT ![doc[t].url] = doc[t].status]
                              /\ crc' = [crc EXCEPT ![doc[t].url] = doc[t].crc32]
      /\ ~HasRow(doc[t].url) => status' = status /\ crc' = crc
  BY DEF UpdateUrlWithLang, At, cache, counts
<1>2. /\ \A o \in Threads \ {t} : pc'[o] = pc[o]
      /\ pc'[t] = IF method[t] = "UPDCLONE" THEN "done" ELSE "DeleteBadHrefs"
      /\ method[t] \in {"LUPDATE", "UPDCLONE"}
  BY <1>1 DEF UpdateUrlWithLang, GoTo, TypeInv, PlaceInv, PlaceOK, ThreadOK, StepsOf, Methods
<1>3. PICK u \in Urls : u = doc[t].url
  BY <1>1, Written DEF PCs, SQLSteps, TypeInv, PlaceInv
<1>4. \A v \in Urls : v # u => status'[v] = status[v] /\ crc'[v] = crc[v]
  BY <1>1, <1>3 DEF TypeInv, DataOK
<1>5. ASSUME u \notin stale' PROVE DocFresh(t, u)'
  <2>1. DocFresh(t, u)
    BY <1>1, <1>3, <1>5 DEF FreshInv, DocOK
  <2>2. ~Early(t)' /\ ~Cleared(t)'
    BY <1>1, <1>2 DEF Early, Cleared
  <2>3. CASE method[t] = "UPDCLONE"
    <3>1. WordsToBe(u) = {}
      BY <1>1, <2>1, <2>3, NotCached DEF DocFresh, Cleared
    <3>2. Settled(u)' /\ Shown(u)' /\ ~Half(t)'
      BY <1>1, <2>3, <3>1, WordsSame DEF Settled, Shown, Half
    <3> QED BY <2>2, <3>2 DEF DocFresh
  <2>4. CASE method[t] = "LUPDATE"
    <3>1. HasRow(u) /\ WordsToBe(u) \subseteq {doc[t].crc32} /\ doc[t].status = "ok"
      BY <1>1, <2>1, <2>4 DEF DocFresh, Half, FreshInv, StepOK
    <3>2. status'[u] = "ok" /\ crc'[u] = doc[t].crc32
      BY <1>1, <1>3, <3>1 DEF TypeInv, DataOK
    <3>3. WordsToBe(u)' \subseteq {doc[t].crc32}
      BY <1>1, <3>1, WordsSame
    <3>4. Settled(u)'
      BY <3>2, <3>3 DEF Settled, HasRow
    <3>5. Half(t)' /\ pc'[t] # "UpdateUrlWithLang" /\ doc'[t] = doc[t]
      BY <1>1, <1>2, <2>4 DEF Half
    <3> QED BY <2>2, <3>3, <3>4, <3>5 DEF DocFresh
  <2> QED BY <1>2, <2>3, <2>4
<1> QED BY <1>1, <1>2, <1>3, <1>4, <1>5, WordsLeft DEF PCs, SQLSteps

\* The rows a referrer takes with it, one after the other.
LEMMA HrefsFresh ==
    ASSUME TypeInv, FreshInv, NEW t \in Threads, pc[t] \in {"DeleteBadHrefs", "DeleteHrefs"},
           UNCHANGED <<crc, dict, urls, words, lock, method, doc, reset, DBMode>>,
           stale \subseteq stale', pc' = [pc EXCEPT ![t] = pc'[t]],
           pc'[t] \in {"DeleteHrefs", AfterHrefs(t)},
           \A v \in Urls \ stale' : status'[v] = status[v] /\ info'[v] = info[v]
    PROVE  FreshInv'
<1>1. \A o \in Threads \ {t} : pc'[o] = pc[o]
  BY DEF TypeInv, PlaceInv, PlaceOK
<1>2. /\ method[t] \in {"SUPDATE", "LUPDATE", "DUPDATE", "DELETE"}
      /\ method[t] # "LUPDATE" => pc'[t] \in {"done", "DeleteHrefs", "ClearReferrer"}
      /\ method[t] = "LUPDATE" => pc'[t] \in {"DeleteHrefs", "DeleteInfo", "InsertInfo"}
  BY DEF AfterHrefs, ThreadOK, StepsOf, Methods, TypeInv, PlaceInv, PlaceOK
<1>3. PICK u \in Urls : u = doc[t].url
  BY Written DEF PCs, SQLSteps, TypeInv, PlaceInv
<1>5. ASSUME u \notin stale' PROVE DocFresh(t, u)'
  <2>1. DocFresh(t, u)
    BY <1>3, <1>5 DEF FreshInv, DocOK
  <2>2. ~Early(t)' /\ ~Cleared(t)'
    BY <1>2 DEF Early, Cleared
  <2>3. Settled(u)' /\ (Shown(u) => Shown(u)')
    <3>1. Settled(u)
      BY <2>1 DEF DocFresh, Late
    <3> QED BY <1>5, <3>1, WordsSame DEF Settled, Shown, HasRow
  <2>4. CASE method[t] = "LUPDATE"
    <3>1. WordsToBe(u)' \subseteq {doc[t].crc32}
      BY <2>1, <2>4, WordsSame DEF DocFresh, Half
    <3>2. Half(t)' /\ pc'[t] # "UpdateUrlWithLang" /\ doc'[t] = doc[t]
      BY <1>2, <2>4 DEF Half
    <3> QED BY <2>2, <2>3, <3>1, <3>2 DEF DocFresh
  <2>5. CASE method[t] # "LUPDATE"
    <3>1. Shown(u)
      BY <2>1, <2>5 DEF DocFresh, Late, Half
    <3>2. ~Half(t)'
      BY <2>5 DEF Half
    <3> QED BY <2>2, <2>3, <3>1, <3>2 DEF DocFresh
  <2> QED BY <2>4, <2>5
<1>6. pc'[t] \in {"done", "DeleteHrefs", "ClearReferrer", "DeleteInfo", "InsertInfo"}
  BY <1>2
<1>7. \A v \in Urls : v # u /\ v \notin stale' =>
        /\ status'[v] = status[v] /\ crc'[v] = crc[v] /\ info'[v] = info[v]
        /\ v \in reset => v \in reset'
  OBVIOUS
<1> QED BY <1>1, <1>3, <1>5, <1>6, <1>7, WordsLeft DEF PCs, SQLSteps

LEMMA DeleteBadHrefsFresh ==
    ASSUME TypeInv, FreshInv, NEW t \in Threads, DeleteBadHrefs(t) PROVE FreshInv'
<1>1. /\ pc[t] = "DeleteBadHrefs"
      /\ UNCHANGED <<status, crc, info, dict, urls, words, lock, method, doc, stale, reset, DBMode>>
      /\ \E s \in {"DeleteHrefs", AfterHrefs(t)} : GoTo(t, s)
  BY DEF DeleteBadHrefs, At, tables, cache, counts
<1>2. pc' = [pc EXCEPT ![t] = pc'[t]] /\ pc'[t] \in {"DeleteHrefs", AfterHrefs(t)}
  BY <1>1 DEF GoTo, TypeInv, PlaceInv, PlaceOK
<1> QED BY <1>1, <1>2, HrefsFresh

LEMMA DeleteHrefFresh ==
    ASSUME TypeInv, FreshInv, NEW t \in Threads, NEW r \in Urls, DeleteHref(t, r) PROVE FreshInv'
<1>1. /\ pc[t] = "DeleteHrefs"
      /\ UNCHANGED <<crc, dict, urls, words, lock, method, doc, reset, DBMode>>
      /\ status' = [status EXCEPT ![r] = "none"] /\ info' = [info EXCEPT ![r] = {}]
      /\ stale' = stale \cup {r}
      /\ \E s \in {"DeleteHrefs", AfterHrefs(t)} : GoTo(t, s)
  BY DEF DeleteHref, At, cache, counts
<1>2. pc' = [pc EXCEPT ![t] = pc'[t]] /\ pc'[t] \in {"DeleteHrefs", AfterHrefs(t)}
  BY <1>1 DEF GoTo, TypeInv, PlaceInv, PlaceOK
<1>3. \A v \in Urls \ stale' : status'[v] = status[v] /\ info'[v] = info[v]
  BY <1>1 DEF TypeInv, DataOK
<1> QED BY <1>1, <1>2, <1>3, HrefsFresh

LEMMA ClearReferrerFresh ==
    ASSUME TypeInv, FreshInv, NEW t \in Threads, ClearReferrer(t) PROVE FreshInv'
<1>1. /\ pc[t] = "ClearReferrer"
      /\ UNCHANGED <<status, crc, info, dict, urls, words, lock, method, doc, stale, reset, DBMode>>
  BY DEF ClearReferrer, At, cache, counts
<1>2. (\A o \in Threads \ {t} : pc'[o] = pc[o]) /\ pc'[t] = "done" /\ method[t] = "DELETE"
  BY <1>1 DEF ClearReferrer, GoTo, TypeInv, PlaceInv, PlaceOK, ThreadOK, StepsOf, Methods
<1>3. PICK u \in Urls : u = doc[t].url
  BY <1>1, Written DEF PCs, SQLSteps, TypeInv, PlaceInv
<1>4. ASSUME u \notin stale' PROVE DocFresh(t, u)'
  <2>1. DocFresh(t, u)
    BY <1>1, <1>3, <1>4 DEF FreshInv, DocOK
  <2>2. Settled(u) /\ Shown(u)
    BY <1>1, <2>1 DEF DocFresh, Late, Half
  <2>3. Settled(u)' /\ Shown(u)'
    BY <1>1, <2>2, WordsSame DEF Settled, Shown, HasRow
  <2>4. ~Early(t)' /\ ~Cleared(t)' /\ ~Half(t)'
    BY <1>1, <1>2 DEF Early, Cleared, Half
  <2> QED BY <2>3, <2>4 DEF DocFresh
<1> QED BY <1>1, <1>2, <1>3, <1>4, WordsLeft DEF PCs, SQLSteps

LEMMA DeleteInfoFresh ==
    ASSUME TypeInv, FreshInv, NEW t \in Threads, DeleteInfo(t) PROVE FreshInv'
<1>1. /\ pc[t] = "DeleteInfo" /\ UNCHANGED <<status, crc, dict, urls, words, lock, method, doc, stale, DBMode>>
      /\ info' = [info EXCEPT ![doc[t].url] = {}] /\ reset' = reset \ {doc[t].url}
  BY DEF DeleteInfo, At, cache, counts
<1>2. (\A o \in Threads \ {t} : pc'[o] = pc[o]) /\ pc'[t] = "InsertInfo" /\ method[t] = "LUPDATE"
  BY <1>1 DEF DeleteInfo, GoTo, TypeInv, PlaceInv, PlaceOK, ThreadOK, StepsOf, Methods
<1>3. PICK u \in Urls : u = doc[t].url
  BY <1>1, Written DEF PCs, SQLSteps, TypeInv, PlaceInv
<1>4. \A v \in Urls : v # u => info'[v] = info[v] /\ (v \in reset => v \in reset')
  BY <1>1, <1>3 DEF TypeInv, DataOK
<1>5. ASSUME u \notin stale' PROVE DocFresh(t, u)'
  <2>1. DocFresh(t, u)
    BY <1>1, <1>3, <1>5 DEF FreshInv, DocOK
  <2>2. ~Early(t)' /\ ~Cleared(t)' /\ Half(t)' /\ pc'[t] # "UpdateUrlWithLang"
    BY <1>1, <1>2 DEF Early, Cleared, Half
  <2>3. Settled(u)'
    BY <1>1, <2>1, WordsSame DEF DocFresh, Late, Settled, HasRow
  <2>4. WordsToBe(u)' \subseteq {doc'[t].crc32}
    BY <1>1, <1>2, <2>1, WordsSame DEF DocFresh, Half
  <2> QED BY <2>2, <2>3, <2>4 DEF DocFresh
<1> QED BY <1>1, <1>2, <1>3, <1>4, <1>5, WordsLeft DEF PCs, SQLSteps

LEMMA InsertInfoFresh ==
    ASSUME TypeInv, FreshInv, InfoInv, NEW t \in Threads, InsertInfo(t) PROVE FreshInv'
<1>1. /\ pc[t] = "InsertInfo" /\ UNCHANGED <<status, crc, dict, urls, words, lock, method, doc, stale, reset, DBMode>>
      /\ info' = [info EXCEPT ![doc[t].url] = @ \cup {doc[t].crc32}]
  BY DEF InsertInfo, At, cache, counts
<1>2. /\ (\A o \in Threads \ {t} : pc'[o] = pc[o]) /\ method[t] = "LUPDATE"
      /\ pc'[t] = "done" \/ (pc'[t] = "WriteDelete" /\ DBMode = "multi")
  BY <1>1 DEF InsertInfo, AfterInfo, GoTo, TypeInv, PlaceInv, PlaceOK, ThreadOK, StepsOf, Methods
<1>3. PICK u \in Urls : u = doc[t].url
  BY <1>1, Written DEF PCs, SQLSteps, TypeInv, PlaceInv
<1>4. info'[u] = info[u] \cup {doc[t].crc32} /\ \A v \in Urls : v # u => info'[v] = info[v]
  BY <1>1, <1>3 DEF TypeInv, DataOK
<1>5. ASSUME u \notin stale' PROVE DocFresh(t, u)'
  <2>1. DocFresh(t, u)
    BY <1>1, <1>3, <1>5 DEF FreshInv, DocOK
  <2>2. ~Early(t)' /\ ~Cleared(t)' /\ ~Half(t)'
    BY <1>1, <1>2 DEF Early, Cleared, Half
  <2>3. Settled(u)'
    BY <1>1, <2>1, WordsSame DEF DocFresh, Late, Settled, HasRow
  <2>4. Shown(u)'
    <3>1. u \in reset \/ info[u] = {}
      BY <1>1, <1>2, <1>3 DEF InfoInv, InfoOK, Unfilled, Empty
    <3> QED BY <1>1, <1>2, <1>4, <2>1, <3>1, WordsSame DEF DocFresh, Half, Shown
  <2> QED BY <2>2, <2>3, <2>4 DEF DocFresh
<1> QED BY <1>1, <1>2, <1>3, <1>4, <1>5, WordsLeft DEF PCs, SQLSteps

LEMMA DeleteRowFresh ==
    ASSUME TypeInv, FreshInv, NEW t \in Threads, DeleteRow(t) PROVE FreshInv'
<1>1. /\ pc[t] = "DeleteRow" /\ UNCHANGED <<crc, dict, urls, words, lock, method, doc, stale, reset, DBMode>>
      /\ status' = [status EXCEPT ![doc[t].url] = "none"]
      /\ info' = [info EXCEPT ![doc[t].url] = {}]
  BY DEF DeleteRow, At, cache, counts
<1>2. (\A o \in Threads \ {t} : pc'[o] = pc[o]) /\ pc'[t] = "DeleteBadHrefs" /\ method[t] = "DELETE"
  BY <1>1 DEF DeleteRow, GoTo, TypeInv, PlaceInv, PlaceOK, ThreadOK, StepsOf, Methods
<1>3. PICK u \in Urls : u = doc[t].url
  BY <1>1, Written DEF PCs, SQLSteps, TypeInv, PlaceInv
<1>4. \A v \in Urls : v # u => status'[v] = status[v] /\ info'[v] = info[v]
  BY <1>1, <1>3 DEF TypeInv, DataOK
<1>5. ASSUME u \notin stale' PROVE DocFresh(t, u)'
  <2>1. dict[u] = {} /\ ~Cached(u)
    BY <1>1, <1>3, <1>5 DEF FreshInv, DocOK, DocFresh, Cleared
  <2>2. ~Early(t)' /\ ~Cleared(t)' /\ ~Half(t)'
    BY <1>1, <1>2 DEF Early, Cleared, Half
  <2>3. Settled(u)' /\ Shown(u)'
    BY <1>1, <2>1, NotCached, WordsSame DEF Settled, Shown
  <2> QED BY <2>2, <2>3 DEF DocFresh
<1> QED BY <1>1, <1>2, <1>3, <1>4, <1>5, WordsLeft DEF PCs, SQLSteps

LEMMA WriteDeleteFresh ==
    ASSUME TypeInv, FreshInv, NEW t \in Threads, WriteDelete(t) PROVE FreshInv'
<1>1. /\ pc[t] = "WriteDelete" /\ UNCHANGED <<status, crc, info, urls, words, lock, method, doc, stale, reset, DBMode>>
      /\ dict' = [v \in Urls |-> IF v \in urls[P(t)] THEN {} ELSE dict[v]]
  BY DEF WriteDelete, At, cache, counts
<1>2. (\A o \in Threads \ {t} : pc'[o] = pc[o]) /\ pc'[t] = "WriteInsert"
  BY DEF WriteDelete, GoTo, TypeInv, PlaceInv, PlaceOK
<1>3. P(t) \in Processes
  BY ProcessAssumption DEF P
<1>4. \A v \in Urls : Same(v)
  <2> SUFFICES ASSUME NEW v \in Urls PROVE Same(v)
    OBVIOUS
  <2>1. WordsToBe(v)' = WordsToBe(v)
    BY <1>1, <1>3 DEF WordsToBe, CachedWords
  <2>2. (Cached(v)' => Cached(v)) /\ (dict[v] = {} => dict'[v] = {})
    BY <1>1 DEF Cached
  <2> QED BY <1>1, <2>1, <2>2 DEF Same
<1>5. CacheOK'
  BY <1>1, CachesLeft
<1>6. ASSUME NEW o \in Threads PROVE StepOK(o)'
  <2>1. \A v \in Urls : dict[v] = {} => dict'[v] = {}
    BY <1>1
  <2>2. CASE o # t
    <3>1. urls[P(o)] \subseteq Urls
      BY ProcessAssumption DEF TypeInv, DataOK, P
    <3> QED BY <1>1, <1>2, <2>1, <2>2, <3>1, StepLeft
  <2>3. CASE o = t
    <3>1. StepOK(t) /\ urls[P(t)] \subseteq Urls
      BY <1>3 DEF FreshInv, TypeInv, DataOK
    <3>2. \A v \in urls[P(t)] : dict'[v] = {}
      BY <1>1, <3>1
    <3> QED BY <1>1, <1>2, <2>3, <3>1, <3>2 DEF StepOK, P
  <2> QED BY <2>2, <2>3
<1>7. DocOK(t)'
  <2> SUFFICES ASSUME NEW u \in Urls, u = doc[t].url, u \notin stale PROVE DocFresh(t, u)'
    BY <1>1 DEF DocOK
  <2>1. Settled(u) /\ Shown(u)
    BY <1>1 DEF FreshInv, DocOK, DocFresh, Late, Half
  <2>2. Settled(u)' /\ Shown(u)'
    BY <1>4, <2>1, SameSettled
  <2>3. ~Early(t)' /\ ~Cleared(t)' /\ ~Half(t)'
    BY <1>1, <1>2 DEF Early, Cleared, Half
  <2> QED BY <2>2, <2>3 DEF DocFresh
<1> QED BY <1>1, <1>2, <1>4, <1>5, <1>6, <1>7, FrameGoesOn

LEMMA WriteInsertFresh ==
    ASSUME TypeInv, FreshInv, NEW t \in Threads, WriteInsert(t) PROVE FreshInv'
<1>1. /\ pc[t] = "WriteInsert" /\ UNCHANGED <<status, crc, info, lock, method, doc, stale, reset, DBMode>>
      /\ dict' = [v \in Urls |-> dict[v] \cup {w \in Contents : <<v, w>> \in words[P(t)]}]
      /\ urls' = [urls EXCEPT ![P(t)] = {}] /\ words' = [words EXCEPT ![P(t)] = {}]
  BY DEF WriteInsert, At, EmptyCache, counts
<1>2. (\A o \in Threads \ {t} : pc'[o] = pc[o]) /\ pc'[t] = "done"
  BY DEF WriteInsert, GoTo, TypeInv, PlaceInv, PlaceOK
<1>3. P(t) \in Processes
  BY ProcessAssumption DEF P
<1>4. /\ urls'[P(t)] = {} /\ words'[P(t)] = {}
      /\ \A p \in Processes : p # P(t) => urls'[p] = urls[p] /\ words'[p] = words[p]
  BY <1>1, <1>3 DEF TypeInv, DataOK
<1>5. DBMode = "multi"
  BY <1>1 DEF FreshInv, StepOK
<1>6. ASSUME NEW v \in Urls, ~CachedBy(P(t), v) PROVE Same(v) /\ dict'[v] = dict[v]
  <2>1. dict'[v] = dict[v]
    BY <1>1, <1>6 DEF CachedBy, TypeInv, DataOK
  <2>2. \A p \in Processes : (v \in urls'[p] <=> v \in urls[p])
          /\ \A w \in Contents : <<v, w>> \in words'[p] <=> <<v, w>> \in words[p]
    BY <1>4, <1>6 DEF CachedBy
  <2> QED BY <1>1, <2>1, <2>2, Untouched
<1>7. ASSUME NEW v \in Urls \ stale, CachedBy(P(t), v) PROVE Same(v)
  <2>1. \A p \in Processes : CachedBy(p, v) => p = P(t)
    BY <1>3, <1>7 DEF FreshInv, CacheOK
  <2>2. v \in urls[P(t)] => dict[v] = {}
    BY <1>1, <1>7 DEF FreshInv, StepOK
  <2>3. WordsToBe(v) = dict[v] \cup {w \in Contents : <<v, w>> \in words[P(t)]}
    BY <1>3, <2>1, <2>2 DEF WordsToBe, CachedWords, CachedBy
  <2>4. ~Cached(v)'
    BY <1>4, <2>1 DEF Cached, CachedBy
  <2>5. WordsToBe(v)' = dict'[v]
    BY <2>4 DEF WordsToBe, CachedWords, Cached
  <2>6. Cached(v)
    BY <1>3, <1>7, CachedIs
  <2> QED BY <1>1, <2>3, <2>4, <2>5, <2>6 DEF Same
<1>8. \A v \in Urls \ stale : Same(v)
  BY <1>6, <1>7
<1>9. CacheOK'
  <2>1. \A v \in Urls, p \in Processes : CachedBy(p, v)' => CachedBy(p, v)
    BY <1>4 DEF CachedBy
  <2> QED BY <1>1, <1>5, <2>1 DEF FreshInv, CacheOK
<1>10. ASSUME NEW o \in Threads PROVE StepOK(o)'
  <2>1. CASE o # t
    <3>1. pc[o] # "InsertWords"
      BY <1>5 DEF FreshInv, StepOK
    <3>2. P(o) \in Processes /\ urls'[P(o)] \subseteq urls[P(o)]
      BY <1>4, ProcessAssumption DEF P
    <3>3. ASSUME NEW v \in Urls, v \in urls'[P(o)], v \notin stale' PROVE dict'[v] = dict[v]
      <4>1. CachedBy(P(o), v) /\ P(o) # P(t)
        BY <1>4, <3>2, <3>3 DEF CachedBy
      <4>2. ~CachedBy(P(t), v)
        BY <1>1, <1>3, <3>2, <3>3, <4>1 DEF FreshInv, CacheOK
      <4> QED BY <1>6, <4>2
    <3> QED BY <1>1, <1>2, <2>1, <3>1, <3>2, <3>3, StepLeft
  <2>2. CASE o = t
    <3>1. StepOK(t)
      BY DEF FreshInv
    <3> QED BY <1>1, <1>2, <2>2, <3>1 DEF StepOK
  <2> QED BY <2>1, <2>2
<1>11. DocOK(t)'
  <2> SUFFICES ASSUME NEW u \in Urls, u = doc[t].url, u \notin stale PROVE DocFresh(t, u)'
    BY <1>1 DEF DocOK
  <2>1. Settled(u) /\ Shown(u)
    BY <1>1 DEF FreshInv, DocOK, DocFresh, Late, Half
  <2>2. Settled(u)' /\ Shown(u)'
    BY <1>8, <2>1, SameSettled
  <2>3. ~Early(t)' /\ ~Cleared(t)' /\ ~Half(t)'
    BY <1>1, <1>2 DEF Early, Cleared, Half
  <2> QED BY <2>2, <2>3 DEF DocFresh
<1> QED BY <1>1, <1>2, <1>8, <1>9, <1>10, <1>11, FrameGoesOn

\* A step in which some threads, none or several, stop working on their
\* documents; words may be lost from the caches, of documents in stale.
LEMMA FrameEnds ==
    ASSUME TypeInv, FreshInv, NEW T \in SUBSET Threads,
           UNCHANGED <<status, crc, info, dict, reset, DBMode>>, stale \subseteq stale',
           \A o \in Threads \ T : doc'[o] = doc[o] /\ pc'[o] = pc[o] /\ method'[o] = method[o],
           \A o \in T : /\ doc'[o].url = 0 /\ method'[o] # "LUPDATE"
                        /\ pc'[o] \in {"idle", "left", "failed", "WriteDelete"}
                        /\ pc'[o] = "WriteDelete" => DBMode = "multi",
           \A p \in Processes : urls'[p] \subseteq urls[p] /\ words'[p] \subseteq words[p],
           \A v \in Urls \ stale', p \in Processes :
               /\ v \in urls[p] => v \in urls'[p]
               /\ \A w \in Contents : <<v, w>> \in words[p] => <<v, w>> \in words'[p],
           \A o \in T : doc[o].url \in Urls \ stale' => Settled(doc[o].url) /\ Shown(doc[o].url)
    PROVE  FreshInv'
<1>1. ASSUME NEW v \in Urls \ stale' PROVE Same(v)
  <2>1. \A p \in Processes : (v \in urls'[p] <=> v \in urls[p])
          /\ \A w \in Contents : <<v, w>> \in words'[p] <=> <<v, w>> \in words[p]
    OBVIOUS
  <2> QED BY <2>1, Untouched
<1>2. ASSUME NEW o \in Threads PROVE DocOK(o)'
  <2>1. CASE o \in T
    BY <2>1, UrlAssumption DEF DocOK
  <2>2. CASE o \notin T
    BY <1>1, <2>2, Others
  <2> QED BY <2>1, <2>2
<1>3. ASSUME NEW v \in Urls, v \notin stale' PROVE Working(v)' \/ (Settled(v)' /\ Shown(v)')
  <2>1. Working(v) => Working(v)' \/ (Settled(v) /\ Shown(v))
    BY <1>3 DEF Working
  <2>2. Same(v) /\ v \notin stale
    BY <1>1, <1>3
  <2> QED BY <1>3, <2>1, <2>2, Rest
<1>4. CacheOK'
  <2>1. \A v, p : p \in Processes /\ CachedBy(p, v)' => CachedBy(p, v)
    BY DEF CachedBy
  <2>2. \A v : Cached(v)' => Cached(v)
    BY DEF Cached
  <2> QED BY <2>1, <2>2 DEF FreshInv, CacheOK
<1>5. ASSUME NEW o \in Threads PROVE StepOK(o)'
  <2>1. CASE o \in T
    BY <2>1 DEF StepOK
  <2>2. CASE o \notin T
    <3>1. P(o) \in Processes /\ urls'[P(o)] \subseteq urls[P(o)]
      BY ProcessAssumption DEF P
    <3> QED BY <2>2, <3>1, StepLeft
  <2> QED BY <2>1, <2>2
<1> QED BY <1>2, <1>3, <1>4, <1>5 DEF FreshInv, RestOK

LEMMA DoneFresh ==
    ASSUME TypeInv, FreshInv, NEW t \in Threads, Done(t) PROVE FreshInv'
<1>1. /\ pc[t] = "done" /\ UNCHANGED <<status, crc, info, dict, urls, words, stale, reset, DBMode>>
      /\ doc' = [doc EXCEPT ![t] = NoDoc] /\ method' = [method EXCEPT ![t] = "none"]
  BY DEF Done, At, tables, cache, counts
<1>2. (\A o \in Threads \ {t} : pc'[o] = pc[o]) /\ pc'[t] \in {"idle", "left"}
  BY DEF Done, GoTo, TypeInv, PlaceInv, PlaceOK
<1>3. doc'[t].url = 0 /\ method'[t] = "none"
      /\ \A o \in Threads \ {t} : doc'[o] = doc[o] /\ method'[o] = method[o]
  BY <1>1 DEF TypeInv, PlaceInv, PlaceOK, NoDoc
<1>4. ASSUME doc[t].url \in Urls \ stale PROVE Settled(doc[t].url) /\ Shown(doc[t].url)
  BY <1>1, <1>4 DEF FreshInv, DocOK, DocFresh, Late, Half
<1>5. {t} \in SUBSET Threads
  OBVIOUS
<1> QED BY <1>1, <1>2, <1>3, <1>4, <1>5, FrameEnds

LEMMA FailFresh ==
    ASSUME TypeInv, FreshInv, NEW t \in Threads, Fail(t) PROVE FreshInv'
<1> DEFINE writes == pc[t] \in {"WriteDelete", "WriteInsert"}
<1>1. /\ pc[t] \in SQLSteps /\ UNCHANGED <<status, crc, info, dict, reset, DBMode>>
      /\ doc' = [doc EXCEPT ![t] = NoDoc] /\ method' = [method EXCEPT ![t] = "none"]
      /\ writes => EmptyCache(P(t)) /\ CachedUrls(P(t)) \subseteq stale'
      /\ ~writes => UNCHANGED <<urls, words>>
      /\ method[t] # "SUPDATE" => {doc[t].url} \ {0} \subseteq stale'
      /\ stale \subseteq stale'
  BY DEF Fail, tables, cache
<1>2. (\A o \in Threads \ {t} : pc'[o] = pc[o]) /\ pc'[t] \in {"failed", "left"}
  BY DEF Fail, GoTo, TypeInv, PlaceInv, PlaceOK
<1>3. doc'[t].url = 0 /\ method'[t] = "none"
      /\ \A o \in Threads \ {t} : doc'[o] = doc[o] /\ method'[o] = method[o]
  BY <1>1 DEF TypeInv, PlaceInv, PlaceOK, NoDoc
<1>4. ASSUME doc[t].url \in Urls \ stale' PROVE Settled(doc[t].url) /\ Shown(doc[t].url)
  <2>1. method[t] = "SUPDATE" /\ DocFresh(t, doc[t].url)
    BY <1>1, <1>4, UrlAssumption DEF FreshInv, DocOK
  <2>2. pc[t] \in {"UpdateUrl", "DeleteBadHrefs", "DeleteHrefs"}
    BY <1>1, <2>1, AtMethod DEF StepsOf, SQLSteps, TypeInv
  <2> QED BY <2>1, <2>2 DEF DocFresh, Early, Late, Half
<1>5. P(t) \in Processes
  BY ProcessAssumption DEF P
<1>6. \A p \in Processes : urls'[p] \subseteq urls[p] /\ words'[p] \subseteq words[p]
  BY <1>1, <1>5 DEF EmptyCache, TypeInv, DataOK
<1>7. ASSUME NEW v \in Urls \ stale', NEW p \in Processes
      PROVE  /\ v \in urls[p] => v \in urls'[p]
             /\ \A w \in Contents : <<v, w>> \in words[p] => <<v, w>> \in words'[p]
  <2>1. CASE writes
    <3>1. v \notin CachedUrls(P(t))
      BY <1>1, <2>1
    <3>2. p # P(t) => urls'[p] = urls[p] /\ words'[p] = words[p]
      BY <1>1, <1>5, <2>1 DEF EmptyCache, TypeInv, DataOK
    <3> QED BY <3>1, <3>2 DEF CachedUrls
  <2>2. CASE ~writes
    BY <1>1, <2>2
  <2> QED BY <2>1, <2>2
<1>8. {t} \in SUBSET Threads
  OBVIOUS
<1>9. UNCHANGED <<status, crc, info, dict, reset, DBMode>> /\ stale \subseteq stale'
  BY <1>1
<1>10. \A o \in {t} : /\ doc'[o].url = 0 /\ method'[o] # "LUPDATE"
                      /\ pc'[o] \in {"idle", "left", "failed", "WriteDelete"}
                      /\ pc'[o] = "WriteDelete" => DBMode = "multi"
  BY <1>2, <1>3
<1>11. \A o \in {t} : doc[o].url \in Urls \ stale' => Settled(doc[o].url) /\ Shown(doc[o].url)
  BY <1>4
<1>12. \A o \in Threads \ {t} : doc'[o] = doc[o] /\ pc'[o] = pc[o] /\ method'[o] = method[o]
  BY <1>2, <1>3
<1> HIDE DEF writes
<1> QED BY <1>6, <1>7, <1>8, <1>9, <1>10, <1>11, <1>12, FrameEnds

LEMMA FlushFresh ==
    ASSUME TypeInv, FreshInv, NEW t \in Threads, Flush(t) \/ LeaveWithoutFlush(t) PROVE FreshInv'
<1>1. /\ pc[t] \in {"idle", "failed"} /\ UNCHANGED <<status, crc, info, dict, urls, words, stale, reset, doc, DBMode>>
      /\ method' = [method EXCEPT ![t] = "FLUSH"] \/ method' = method
      /\ (pc' = [pc EXCEPT ![t] = "WriteDelete"] /\ DBMode = "multi") \/ pc' = [pc EXCEPT ![t] = "left"]
  BY DEF Flush, LeaveWithoutFlush, GoTo, tables, cache, counts
<1>2. method[t] = "none" /\ doc[t].url = 0
  BY <1>1 DEF TypeInv, PlaceInv, PlaceOK, ThreadOK, StepsOf, Methods
<1>3. /\ \A o \in Threads \ {t} : pc'[o] = pc[o] /\ method'[o] = method[o]
      /\ method'[t] # "LUPDATE" /\ pc'[t] \in {"WriteDelete", "left"}
      /\ pc'[t] = "WriteDelete" => DBMode = "multi"
  BY <1>1, <1>2 DEF TypeInv, PlaceInv, PlaceOK
<1>4. {t} \in SUBSET Threads /\ doc[t].url \notin Urls
  BY <1>2, UrlAssumption
<1>5. /\ \A p \in Processes : urls'[p] \subseteq urls[p] /\ words'[p] \subseteq words[p]
      /\ \A v \in Urls \ stale' : \A p \in Processes :
            /\ v \in urls[p] => v \in urls'[p]
            /\ \A w \in Contents : <<v, w>> \in words[p] => <<v, w>> \in words'[p]
  BY <1>1
<1>6. \A o \in {t} : /\ doc'[o].url = 0 /\ method'[o] # "LUPDATE"
                     /\ pc'[o] \in {"idle", "left", "failed", "WriteDelete"}
                     /\ pc'[o] = "WriteDelete" => DBMode = "multi"
  BY <1>1, <1>2, <1>3
<1>7. /\ \A o \in Threads \ {t} : doc'[o] = doc[o] /\ pc'[o] = pc[o] /\ method'[o] = method[o]
      /\ \A o \in {t} : doc[o].url \in Urls \ stale' => Settled(doc[o].url) /\ Shown(doc[o].url)
  BY <1>1, <1>3, <1>4
<1>8. UNCHANGED <<status, crc, info, dict, reset, DBMode>> /\ stale \subseteq stale'
  BY <1>1
<1> QED BY <1>4, <1>5, <1>6, <1>7, <1>8, FrameEnds

LEMMA KillFresh ==
    ASSUME TypeInv, FreshInv, NEW p \in Processes, Kill(p) \/ Restart(p) PROVE FreshInv'
<1> DEFINE T == ThreadsOf(p)
<1>1. /\ UNCHANGED <<status, crc, info, dict, reset, DBMode>> /\ EmptyCache(p)
      /\ stale \subseteq stale' /\ CachedUrls(p) \subseteq stale'
  BY DEF Kill, Restart, tables, counts
<1>2. /\ \A o \in Threads \ T : doc'[o] = doc[o] /\ pc'[o] = pc[o] /\ method'[o] = method[o]
      /\ \A o \in T : doc'[o].url = 0 /\ method'[o] # "LUPDATE" /\ pc'[o] \in {"left", "idle"}
      /\ \A o \in T : doc[o].url \in Urls => doc[o].url \in stale'
  <2>1. CASE Kill(p)
    BY <2>1, UrlAssumption DEF Kill, ThreadsOf, P, NoDoc
  <2>2. CASE Restart(p)
    <3>1. \A o \in T : pc[o] = "left" /\ o \in Threads
      BY <2>2 DEF Restart, ThreadsOf
    <3>2. \A o \in T : method[o] = "none" /\ doc[o].url = 0
      BY <3>1 DEF TypeInv, PlaceInv, PlaceOK, ThreadOK, StepsOf, Methods
    <3> QED BY <2>2, <3>2, UrlAssumption DEF Restart, ThreadsOf, P
  <2> QED BY <2>1, <2>2
<1>3. T \in SUBSET Threads
  BY DEF ThreadsOf
<1>4. /\ urls'[p] = {} /\ words'[p] = {}
      /\ \A q \in Processes \ {p} : urls'[q] = urls[q] /\ words'[q] = words[q]
  BY <1>1 DEF EmptyCache, TypeInv, DataOK
<1>5. ASSUME NEW v \in Urls \ stale', NEW q \in Processes
      PROVE  /\ v \in urls[q] => v \in urls'[q]
             /\ \A w \in Contents : <<v, w>> \in words[q] => <<v, w>> \in words'[q]
  <2>1. v \notin CachedUrls(p)
    BY <1>1
  <2> QED BY <1>4, <2>1 DEF CachedUrls
<1>6. \A q \in Processes : urls'[q] \subseteq urls[q] /\ words'[q] \subseteq words[q]
  BY <1>4
<1> HIDE DEF T
<1> QED BY <1>1, <1>2, <1>3, <1>5, <1>6, FrameEnds

LEMMA TakeFresh ==
    ASSUME TypeInv, FreshInv, NEW t \in Threads, NEW u \in Urls, Take(t, u) PROVE FreshInv'
<1>1. /\ pc[t] = "idle" /\ HasRow(u) /\ ~Working(u)
      /\ UNCHANGED <<status, crc, info, dict, urls, words, method, reset, DBMode>>
      /\ pc' = [pc EXCEPT ![t] = "taken"]
      /\ stale' = IF Cached(u) THEN stale \cup {u} ELSE stale
  BY DEF Take, tables, cache
<1>2. /\ doc'[t].url = u /\ doc'[t].prev = status[u] /\ doc'[t].status = status[u]
      /\ \A o \in Threads \ {t} : doc'[o] = doc[o] /\ pc'[o] = pc[o]
  BY <1>1 DEF Take, TypeInv, PlaceInv, PlaceOK
<1>3. method[t] = "none" /\ doc[t].url = 0 /\ pc'[t] = "taken"
  BY <1>1 DEF TypeInv, PlaceInv, PlaceOK, ThreadOK, StepsOf, Methods
<1>4. \A v \in Urls : Same(v)
  BY <1>1, Untouched
<1>5. CacheOK'
  BY <1>1, CachesLeft
<1>6. ASSUME NEW o \in Threads PROVE StepOK(o)'
  <2>1. CASE o # t
    BY <1>1, <1>2, <2>1, StepLeft
  <2>2. CASE o = t
    BY <1>1, <1>2, <1>3, <2>2 DEF StepOK, HasRow
  <2> QED BY <2>1, <2>2
<1>7. ASSUME NEW o \in Threads PROVE DocOK(o)'
  <2>1. CASE o # t
    BY <1>1, <1>2, <1>4, <2>1, Others
  <2>2. CASE o = t
    <3> SUFFICES ASSUME u \notin stale' PROVE DocFresh(t, u)'
      BY <1>2, <2>2 DEF DocOK
    <3>1. ~Cached(u) /\ Settled(u) /\ Shown(u)
      BY <1>1 DEF FreshInv, RestOK
    <3>2. ~Cached(u)' /\ Settled(u)' /\ Shown(u)' /\ HasRow(u)' /\ status'[u] = doc'[t].prev
      BY <1>1, <1>2, <1>4, <3>1, SameSettled DEF Same
    <3>3. ~Cleared(t)' /\ ~Half(t)' /\ ~Late(t)'
      BY <1>1, <1>3 DEF Cleared, Half, Late
    <3> QED BY <3>2, <3>3 DEF DocFresh
  <2> QED BY <2>1, <2>2
<1>8. ASSUME NEW v \in Urls, v \notin stale' PROVE Working(v)' \/ (Settled(v)' /\ Shown(v)')
  <2>1. Working(v) => Working(v)'
    <3>1. ASSUME NEW o \in Threads, doc[o].url = v PROVE doc'[o].url = v
      BY <1>2, <1>3, <3>1, UrlAssumption
    <3> QED BY <3>1 DEF Working
  <2>2. Same(v) /\ v \notin stale
    BY <1>1, <1>4, <1>8
  <2> QED BY <1>8, <2>1, <2>2, Rest
<1> QED BY <1>5, <1>6, <1>7, <1>8 DEF FreshInv, RestOK

LEMMA DocUpdateFresh ==
    ASSUME TypeInv, FreshInv, NEW t \in Threads, DocUpdate(t) PROVE FreshInv'
<1>1. PICK s \in Statuses \cup {"none"}, c \in Contents \cup {0}, m \in Methods \ {"none", "FLUSH"} :
        Update(t, s, c, m) /\ (m = "LUPDATE" => s = "ok") /\ s \in Statuses \cup {doc[t].status}
  BY Answered DEF TypeInv
<1>2. /\ pc[t] = "taken" /\ UNCHANGED <<status, crc, info, dict, urls, words, stale, reset, DBMode>>
      /\ doc' = [doc EXCEPT ![t].status = s, ![t].crc32 = c]
      /\ method' = [method EXCEPT ![t] = m]
      /\ pc' = [pc EXCEPT ![t] = FirstStep(t, m)]
  BY <1>1 DEF Update, tables, cache, counts
<1>3. \A o \in Threads \ {t} : doc'[o] = doc[o] /\ pc'[o] = pc[o] /\ method'[o] = method[o]
  BY <1>2 DEF TypeInv, PlaceInv, PlaceOK
<1>4. /\ doc'[t].url = doc[t].url /\ doc'[t].prev = doc[t].prev /\ doc'[t].status = s
      /\ doc'[t].crc32 = c /\ method'[t] = m /\ pc'[t] = FirstStep(t, m)
  BY <1>2 DEF TypeInv, PlaceInv, PlaceOK, Docs
<1>5. doc[t].url # 0 /\ doc[t].status # "none" /\ s # "none"
  <2>1. doc[t].url # 0 /\ StepOK(t)
    BY <1>2 DEF TypeInv, PlaceInv, ThreadOK, FreshInv
  <2> QED BY <1>1, <2>1 DEF StepOK, Statuses
<1>6. PICK u \in Urls : u = doc[t].url
  BY <1>5 DEF TypeInv, PlaceInv, PlaceOK, Docs
<1>7. \A v \in Urls : Same(v)
  BY <1>2, Untouched
<1>8. CacheOK'
  BY <1>2, CachesLeft
<1>9. /\ m = "SUPDATE" => pc'[t] = "UpdateUrl"
      /\ m = "LUPDATE" => pc'[t] = IF DBMode = "multi" THEN "CacheWords" ELSE "DeleteWords"
      /\ m = "DUPDATE" => pc'[t] = IF WasIndexed(t) THEN "DeleteWords" ELSE "UpdateUrl"
      /\ m = "UPDCLONE" => pc'[t] = IF WasIndexed(t) THEN "DeleteWords" ELSE "UpdateUrlWithLang"
      /\ m = "DELETE" => pc'[t] = IF WasIndexed(t) THEN "DeleteWords" ELSE "DeleteRow"
      /\ m \in {"SUPDATE", "LUPDATE", "DUPDATE", "UPDCLONE", "DELETE"}
  BY <1>4 DEF FirstStep, Methods
<1>10. ASSUME NEW o \in Threads PROVE StepOK(o)'
  <2>1. CASE o # t
    BY <1>2, <1>3, <2>1, StepLeft
  <2>2. CASE o = t
    <3>1. pc'[t] \notin {"WriteDelete", "WriteInsert", "InsertWords"}
      BY <1>9
    <3>2. pc'[t] = "CacheWords" => DBMode' = "multi"
      BY <1>2, <1>9
    <3>3. m = "LUPDATE" /\ pc'[t] = "DeleteWords" => DBMode' = "single"
      <4>1. DBMode \in {"multi", "single"}
        BY OptionAssumption DEF TypeInv, DataOK
      <4> QED BY <1>2, <1>9, <4>1
    <3> QED BY <1>1, <1>4, <1>5, <2>2, <3>1, <3>2, <3>3 DEF StepOK
  <2> QED BY <2>1, <2>2
<1>11. DocOK(t)'
  <2> SUFFICES ASSUME u \notin stale PROVE DocFresh(t, u)'
    BY <1>2, <1>4, <1>6 DEF DocOK
  <2>1. Settled(u) /\ Shown(u) /\ HasRow(u) /\ status[u] = doc[t].prev /\ ~Cached(u)
    BY <1>2, <1>6 DEF FreshInv, DocOK, DocFresh, Early
  <2>2. Settled(u)' /\ Shown(u)' /\ HasRow(u)' /\ status'[u] = doc'[t].prev /\ ~Cached(u)'
    BY <1>2, <1>4, <1>7, <2>1, SameSettled DEF Same
  <2>3. ~WasIndexed(t) => dict'[u] = {}
    BY <1>2, <2>1, NotCached DEF WasIndexed, Settled
  <2>4. Cleared(t)' => ~WasIndexed(t)
    BY <1>4, <1>9 DEF Cleared
  <2>5. ~Half(t)' /\ ~Late(t)'
    BY <1>4, <1>9 DEF Half, Late
  <2> QED BY <2>2, <2>3, <2>4, <2>5 DEF DocFresh
<1>12. ASSUME NEW o \in Threads \ {t} PROVE DocOK(o)'
  BY <1>2, <1>3, <1>7, Others
<1>13. ASSUME NEW v \in Urls, v \notin stale' PROVE Working(v)' \/ (Settled(v)' /\ Shown(v)')
  <2>1. Working(v) => Working(v)'
    <3>1. ASSUME NEW o \in Threads, doc[o].url = v PROVE doc'[o].url = v
      BY <1>3, <1>4, <3>1
    <3> QED BY <3>1 DEF Working
  <2> QED BY <1>2, <1>7, <1>13, <2>1, Rest
<1> QED BY <1>8, <1>10, <1>11, <1>12, <1>13 DEF FreshInv, RestOK

LEMMA AddUrlFresh ==
    ASSUME TypeInv, FreshInv, NEW u \in Urls, AddUrl(u) PROVE FreshInv'
<1>1. /\ ~Working(u) /\ ~Cached(u)
      /\ UNCHANGED <<urls, words, lock, pc, method, doc, DBMode>>
      /\ status' = [status EXCEPT ![u] = "new"] /\ crc' = [crc EXCEPT ![u] = 0]
      /\ info' = [info EXCEPT ![u] = {}] /\ dict' = [dict EXCEPT ![u] = {}]
      /\ stale' = stale \ {u} /\ reset' = reset \ {u}
  BY DEF AddUrl, cache, place, counts
<1>2. /\ status'[u] = "new" /\ info'[u] = {} /\ dict'[u] = {}
      /\ \A v \in Urls : v # u => /\ status'[v] = status[v] /\ crc'[v] = crc[v]
                                 /\ info'[v] = info[v] /\ dict'[v] = dict[v]
  BY <1>1 DEF TypeInv, DataOK
<1>3. \A v \in Urls : v # u => Same(v)
  BY <1>1, <1>2, Untouched
<1>4. ~Cached(u)'
  BY <1>1 DEF Cached
<1>5. Settled(u)' /\ Shown(u)'
  <2>1. WordsToBe(u)' = {}
    BY <1>2, <1>4 DEF WordsToBe, CachedWords, Cached
  <2> QED BY <2>1 DEF Settled, Shown
<1>6. ASSUME NEW o \in Threads PROVE DocOK(o)'
  <2>1. doc[o].url # u
    BY <1>1 DEF Working
  <2> QED BY <1>1, <1>3, <2>1, Others
<1>7. ASSUME NEW o \in Threads PROVE StepOK(o)'
  <2>1. urls[P(o)] \subseteq Urls /\ u \notin urls[P(o)]
    BY <1>1, ProcessAssumption DEF TypeInv, DataOK, P, Cached
  <2> QED BY <1>1, <1>2, <2>1, StepLeft
<1>8. CacheOK'
  BY <1>1, CachesLeft
<1>9. ASSUME NEW v \in Urls, v \notin stale' PROVE Working(v)' \/ (Settled(v)' /\ Shown(v)')
  <2>1. Working(v) => Working(v)'
    BY <1>1 DEF Working
  <2>2. CASE v # u
    BY <1>1, <1>3, <1>9, <2>1, <2>2, Rest
  <2> QED BY <1>5, <2>2
<1> QED BY <1>6, <1>7, <1>8, <1>9 DEF FreshInv, RestOK

\* HoldElapses and a step of the environment: nothing that matters changes.
LEMMA NothingFresh ==
    ASSUME TypeInv, FreshInv,
           UNCHANGED <<status, crc, info, dict, urls, words, pc, method, doc, stale, reset, DBMode>>
    PROVE  FreshInv'
<1>1. {} \in SUBSET Threads
  OBVIOUS
<1> QED BY <1>1, FrameEnds

LEMMA FreshStep == TypeInv /\ FreshInv /\ InfoInv /\ [Next]_vars => FreshInv'
<1> SUFFICES ASSUME TypeInv, FreshInv, InfoInv, [Next]_vars PROVE FreshInv'
  OBVIOUS
<1>1. CASE UNCHANGED vars
  BY <1>1, NothingFresh DEF vars, tables, cache, place, counts
<1>2. ASSUME NEW t \in Threads, NEW u \in Urls, Take(t, u) PROVE FreshInv'
  BY <1>2, TakeFresh
<1>3. ASSUME NEW t \in Threads, Run(t) PROVE FreshInv'
  <2>1. CASE DocUpdate(t)
    BY <2>1, DocUpdateFresh
  <2>2. CASE Flush(t) \/ LeaveWithoutFlush(t)
    BY <2>2, FlushFresh
  <2>3. CASE Statement(t)
    BY <2>3, DeleteWordsFresh, InsertWordsFresh, CacheWordsFresh, UpdateUrlFresh,
       UpdateUrlWithLangFresh, DeleteBadHrefsFresh, DeleteHrefFresh,
       ClearReferrerFresh, DeleteInfoFresh, InsertInfoFresh,
       DeleteRowFresh, WriteDeleteFresh, WriteInsertFresh, DoneFresh, FailFresh
       DEF Statement
  <2> QED BY <1>3, <2>1, <2>2, <2>3 DEF Run
<1>4. ASSUME NEW p \in Processes, Kill(p) \/ Restart(p) PROVE FreshInv'
  BY <1>4, KillFresh
<1>5. ASSUME NEW u \in Urls, AddUrl(u) PROVE FreshInv'
  BY <1>5, AddUrlFresh
<1>6. ASSUME NEW u \in Urls, HoldElapses(u) PROVE FreshInv'
  BY <1>6, NothingFresh DEF HoldElapses, cache, place, counts
<1> QED BY <1>1, <1>2, <1>3, <1>4, <1>5, <1>6 DEF Next

-----------------------------------------------------------------------------
\* A step of t, which touches only the sections and the row of its document,
\* or deletes them.
LEMMA InfoFrame ==
    ASSUME TypeInv, InfoInv, NEW t \in Threads,
           \A o \in Threads \ {t} : doc'[o] = doc[o] /\ pc'[o] = pc[o] /\ method'[o] = method[o],
           \A v \in Urls : v # doc[t].url =>
             /\ status'[v] = "new" => status[v] = "new"
             /\ Empty(v) => Empty(v)',
           \A v \in Urls : v = doc[t].url /\ status'[v] = "new" => Empty(v)',
           InfoOK(t)'
    PROVE  InfoInv'
<1>1. ASSUME NEW o \in Threads, o # t PROVE InfoOK(o)'
  <2> SUFFICES ASSUME doc[o].url \in Urls PROVE InfoOK(o)'
    BY <1>1 DEF InfoOK
  <2>1. PICK v \in Urls : v = doc[o].url
    OBVIOUS
  <2>2. v # doc[t].url
    BY <1>1, <2>1, UrlAssumption DEF TypeInv, PlaceInv, OneEach
  <2>3. doc'[o] = doc[o] /\ (Unfilled(o)' <=> Unfilled(o)) /\ pc'[o] = pc[o] /\ method'[o] = method[o]
    BY <1>1 DEF Unfilled, WasIndexed
  <2>4. InfoOK(o)
    BY DEF InfoInv
  <2>5. InfoOK(o)' <=> /\ Unfilled(o) => Empty(v)'
                       /\ method[o] \in {"LUPDATE", "UPDCLONE"} => doc[o].status = "ok"
                       /\ method[o] = "LUPDATE" /\ pc[o] \in {"DeleteBadHrefs", "DeleteHrefs", "DeleteInfo", "InsertInfo"}
                            => status'[v] # "new"
    BY <2>1, <2>3 DEF InfoOK
  <2> QED BY <2>1, <2>2, <2>4, <2>5 DEF InfoOK
<1>2. ASSUME NEW v \in Urls, status'[v] = "new" PROVE Empty(v)'
  BY <1>2 DEF InfoInv
<1> QED BY <1>1, <1>2 DEF InfoInv

\* A statement of t that writes no row and no sections of another document
\* than by deleting them, and nothing of its own.
LEMMA InfoLeft ==
    ASSUME TypeInv, InfoInv, NEW t \in Threads, UNCHANGED <<doc, method>>,
           \A o \in Threads \ {t} : pc'[o] = pc[o],
           \A v \in Urls : (status'[v] = "new" => status[v] = "new") /\ (Empty(v) => Empty(v)'),
           pc'[t] = "InsertInfo" => pc[t] = "InsertInfo" \/ ~WasIndexed(t),
           pc[t] \in {"WriteDelete", "WriteInsert", "done"} => pc'[t] \in {"WriteInsert", "done"},
           pc'[t] \in {"DeleteBadHrefs", "DeleteHrefs", "DeleteInfo", "InsertInfo"} /\ method[t] = "LUPDATE"
             => pc[t] \in {"DeleteBadHrefs", "DeleteHrefs", "DeleteInfo", "InsertInfo"}
    PROVE  InfoInv'
<1>1. InfoOK(t)
  BY DEF InfoInv
<1>2. Unfilled(t)' => Unfilled(t)
  BY DEF Unfilled, WasIndexed
<1>3. InfoOK(t)'
  BY <1>1, <1>2 DEF InfoOK
<1>4. \A v \in Urls : v = doc[t].url /\ status'[v] = "new" => Empty(v)'
  BY DEF InfoInv
<1> QED BY <1>3, <1>4, InfoFrame

LEMMA StatementInfo ==
    ASSUME TypeInv, FreshInv, InfoInv, NEW t \in Threads, Middle(t) PROVE InfoInv'
<1>1. /\ UNCHANGED <<doc, method>> /\ (\A o \in Threads \ {t} : pc'[o] = pc[o])
      /\ pc[t] \in StepsOf(method[t]) /\ method[t] \in Methods
  BY DEF Middle, At, GoTo, cache, tables, DeleteWords, InsertWords, CacheWords, UpdateUrl,
         UpdateUrlWithLang, DeleteBadHrefs, DeleteHref, ClearReferrer, DeleteInfo,
         InsertInfo, DeleteRow, WriteDelete, WriteInsert, TypeInv, PlaceInv, PlaceOK, ThreadOK
<1>2. CASE DeleteWords(t) \/ InsertWords(t) \/ CacheWords(t) \/ WriteDelete(t) \/ WriteInsert(t)
  <2>1. UNCHANGED <<status, info, reset>>
    BY <1>2 DEF DeleteWords, InsertWords, CacheWords, WriteDelete, WriteInsert, tables
  <2>2. /\ pc[t] \in {"DeleteWords", "InsertWords", "CacheWords", "WriteDelete", "WriteInsert"}
        /\ pc'[t] \notin {"InsertInfo", "DeleteBadHrefs", "DeleteHrefs", "DeleteInfo"}
        /\ pc[t] \in {"WriteDelete", "WriteInsert"} => pc'[t] \in {"WriteInsert", "done"}
    <3>1. CASE DeleteWords(t)
      <4>1. method[t] \in {"LUPDATE", "DUPDATE", "UPDCLONE", "DELETE"}
        BY <1>1, <3>1 DEF DeleteWords, At, StepsOf, Methods
      <4> QED BY <3>1, <4>1 DEF DeleteWords, At, GoTo, TypeInv, PlaceInv, PlaceOK
    <3>2. CASE ~DeleteWords(t)
      BY <1>2, <3>2 DEF InsertWords, CacheWords, WriteDelete, WriteInsert, At, GoTo,
         TypeInv, PlaceInv, PlaceOK
    <3> QED BY <3>1, <3>2
  <2>3. \A v \in Urls : (status'[v] = "new" => status[v] = "new") /\ (Empty(v) => Empty(v)')
    BY <2>1 DEF Empty
  <2> QED BY <1>1, <2>2, <2>3, InfoLeft
<1>3. CASE DeleteBadHrefs(t) \/ ClearReferrer(t) \/ \E r \in Urls : DeleteHref(t, r)
  <2>1. \A v \in Urls : (status'[v] = "new" => status[v] = "new") /\ (Empty(v) => Empty(v)')
    <3>1. CASE DeleteBadHrefs(t) \/ ClearReferrer(t)
      BY <3>1 DEF DeleteBadHrefs, ClearReferrer, tables, Empty
    <3>2. ASSUME NEW r \in Urls, DeleteHref(t, r)
          PROVE  \A v \in Urls : (status'[v] = "new" => status[v] = "new") /\ (Empty(v) => Empty(v)')
      BY <3>2 DEF DeleteHref, Empty, TypeInv, DataOK
    <3> QED BY <1>3, <3>1, <3>2
  <2>2. pc[t] \in {"DeleteBadHrefs", "DeleteHrefs", "ClearReferrer"}
        /\ (pc'[t] = "done" \/ (pc[t] # "ClearReferrer" /\ pc'[t] \in {"DeleteHrefs", AfterHrefs(t)}))
    BY <1>3 DEF DeleteBadHrefs, ClearReferrer, DeleteHref, At, GoTo, TypeInv, PlaceInv, PlaceOK
  <2>3. pc[t] # "ClearReferrer" => method[t] \in {"SUPDATE", "LUPDATE", "DUPDATE", "DELETE"}
    BY <1>1, <2>2 DEF StepsOf, Methods
  <2>4. pc'[t] = "InsertInfo" => ~WasIndexed(t)
    BY <2>2, <2>3 DEF AfterHrefs
  <2>5. pc'[t] \in {"DeleteBadHrefs", "DeleteHrefs", "DeleteInfo", "InsertInfo"} => pc[t] # "ClearReferrer"
    BY <2>2
  <2> QED BY <1>1, <2>1, <2>2, <2>4, <2>5, InfoLeft
<1>4. CASE UpdateUrl(t) \/ UpdateUrlWithLang(t) \/ DeleteInfo(t) \/ InsertInfo(t) \/ DeleteRow(t)
  <2>9. doc[t].url \in Urls /\ InfoOK(t)
    BY <1>4, Written DEF UpdateUrl, UpdateUrlWithLang, DeleteInfo, InsertInfo, DeleteRow, At,
       PCs, SQLSteps, TypeInv, PlaceInv, InfoInv
  <2>10. PICK u \in Urls : u = doc[t].url
    BY <2>9
  <2>1. u \in Urls /\ u = doc[t].url /\ InfoOK(t)
    BY <2>9, <2>10
  <2>2. /\ \A v \in Urls : v # u => status'[v] = status[v] /\ info'[v] = info[v]
        /\ \A v \in Urls : v # u /\ v \in reset => v \in reset'
    BY <1>4, <2>1 DEF UpdateUrl, UpdateUrlWithLang, DeleteInfo, InsertInfo, DeleteRow, TypeInv, DataOK
  <2>3. \A v \in Urls : v # u => (status'[v] = "new" => status[v] = "new") /\ (Empty(v) => Empty(v)')
    BY <2>2 DEF Empty
  <2>4. CASE UpdateUrl(t)
    <3>1. /\ pc[t] = "UpdateUrl" /\ pc'[t] = "DeleteBadHrefs" /\ method[t] \in {"SUPDATE", "DUPDATE"}
          /\ info' = info
      BY <1>1, <2>4 DEF UpdateUrl, At, GoTo, StepsOf, Methods, TypeInv, PlaceInv, PlaceOK
    <3>2. status'[u] = "new" => Empty(u)'
      <4>1. CASE WasIndexed(t) /\ doc[t].status = "new"
        BY <2>1, <2>4, <4>1 DEF UpdateUrl, Empty
      <4>2. CASE ~WasIndexed(t)
        <5>1. Empty(u)
          BY <2>1, <3>1, <4>2 DEF InfoOK, Unfilled
        <5> QED BY <2>4, <3>1, <4>2, <5>1 DEF UpdateUrl, Empty
      <4>3. CASE WasIndexed(t) /\ doc[t].status # "new"
        <5>1. UNCHANGED reset
          BY <2>4, <4>3 DEF UpdateUrl
        <5>2. status'[u] = "new" => status[u] = "new"
          BY <2>1, <2>4, <4>3 DEF UpdateUrl, TypeInv, DataOK
        <5> QED BY <2>1, <3>1, <5>1, <5>2 DEF InfoInv, Empty
      <4> QED BY <4>1, <4>2, <4>3
    <3>3. Empty(u) => Empty(u)'
      BY <2>4, <3>1 DEF UpdateUrl, Empty
    <3>4. InfoOK(t)'
      BY <1>1, <2>1, <3>1, <3>3 DEF InfoOK, Unfilled, WasIndexed
    <3> QED BY <1>1, <2>1, <2>3, <3>2, <3>4, InfoFrame
  <2>5. CASE UpdateUrlWithLang(t)
    <3>1. /\ pc[t] = "UpdateUrlWithLang" /\ method[t] \in {"LUPDATE", "UPDCLONE"}
          /\ pc'[t] = IF method[t] = "UPDCLONE" THEN "done" ELSE "DeleteBadHrefs"
          /\ UNCHANGED <<info, reset>>
      BY <1>1, <2>5 DEF UpdateUrlWithLang, At, GoTo, StepsOf, Methods, TypeInv, PlaceInv, PlaceOK
    <3>2. status'[u] # "new"
      <4>1. doc[t].status = "ok"
        BY <2>1, <3>1 DEF InfoOK
      <4> QED BY <2>1, <2>5, <4>1 DEF UpdateUrlWithLang, HasRow, TypeInv, DataOK
    <3>3. InfoOK(t)'
      BY <1>1, <2>1, <3>1, <3>2 DEF InfoOK, Unfilled, WasIndexed, Empty
    <3> QED BY <1>1, <2>1, <2>3, <3>2, <3>3, InfoFrame
  <2>6. CASE DeleteInfo(t)
    <3>1. /\ pc[t] = "DeleteInfo" /\ method[t] = "LUPDATE" /\ pc'[t] = "InsertInfo"
          /\ info'[u] = {} /\ status' = status
      BY <1>1, <2>1, <2>6 DEF DeleteInfo, At, GoTo, StepsOf, Methods, TypeInv, PlaceInv, PlaceOK, DataOK
    <3>2. Empty(u)'
      BY <1>1, <3>1 DEF Empty
    <3>3. InfoOK(t)'
      BY <1>1, <2>1, <3>1, <3>2 DEF InfoOK
    <3> QED BY <1>1, <2>1, <2>3, <3>2, <3>3, InfoFrame
  <2>7. CASE InsertInfo(t)
    <3>1. /\ pc[t] = "InsertInfo" /\ method[t] = "LUPDATE" /\ pc'[t] \in {"done", "WriteDelete"}
          /\ status' = status
      BY <1>1, <2>7 DEF InsertInfo, AfterInfo, At, GoTo, StepsOf, Methods, TypeInv, PlaceInv, PlaceOK
    <3>2. status'[u] # "new"
      BY <2>1, <3>1 DEF InfoOK
    <3>3. InfoOK(t)'
      BY <1>1, <2>1, <3>1 DEF InfoOK, Unfilled, WasIndexed
    <3> QED BY <1>1, <2>1, <2>3, <3>2, <3>3, InfoFrame
  <2>8. CASE DeleteRow(t)
    <3>1. /\ pc[t] = "DeleteRow" /\ method[t] = "DELETE" /\ pc'[t] = "DeleteBadHrefs"
          /\ info'[u] = {} /\ status'[u] = "none"
      BY <1>1, <2>1, <2>8 DEF DeleteRow, At, GoTo, StepsOf, Methods, TypeInv, PlaceInv, PlaceOK, DataOK
    <3>2. Empty(u)'
      BY <1>1, <3>1 DEF Empty
    <3>3. InfoOK(t)'
      BY <1>1, <2>1, <3>1, <3>2 DEF InfoOK
    <3> QED BY <1>1, <2>1, <2>3, <3>1, <3>3, InfoFrame
  <2> QED BY <1>4, <2>4, <2>5, <2>6, <2>7, <2>8
<1> QED BY <1>2, <1>3, <1>4 DEF Middle

\* Threads that stop working on their documents.
LEMMA InfoEnds ==
    ASSUME InfoInv, UNCHANGED <<status, info, reset>>,
           \A o \in Threads : \/ doc'[o] = doc[o] /\ pc'[o] = pc[o] /\ method'[o] = method[o]
                              \/ doc'[o].url \notin Urls
    PROVE  InfoInv'
<1>1. \A v \in Urls : Empty(v)' <=> Empty(v)
  BY DEF Empty
<1>2. ASSUME NEW o \in Threads PROVE InfoOK(o)'
  <2>1. CASE doc'[o] = doc[o] /\ pc'[o] = pc[o] /\ method'[o] = method[o]
    <3>1. Unfilled(o)' <=> Unfilled(o)
      BY <2>1 DEF Unfilled, WasIndexed
    <3> QED BY <1>1, <2>1, <3>1 DEF InfoInv, InfoOK
  <2>2. CASE doc'[o].url \notin Urls
    BY <2>2 DEF InfoOK
  <2> QED BY <2>1, <2>2
<1> QED BY <1>1, <1>2 DEF InfoInv

LEMMA InfoStep == TypeInv /\ FreshInv /\ InfoInv /\ [Next]_vars => InfoInv'
<1> SUFFICES ASSUME TypeInv, FreshInv, InfoInv, [Next]_vars PROVE InfoInv'
  OBVIOUS
<1>1. CASE UNCHANGED vars
  BY <1>1, InfoEnds DEF vars, tables, place
<1>2. ASSUME NEW t \in Threads, NEW u \in Urls, Take(t, u) PROVE InfoInv'
  <2>1. /\ UNCHANGED <<status, info, reset, method>> /\ pc' = [pc EXCEPT ![t] = "taken"] /\ pc[t] = "idle"
        /\ doc'[t].url = u /\ doc'[t].prev = status[u]
        /\ \A o \in Threads \ {t} : doc'[o] = doc[o] /\ pc'[o] = pc[o] /\ method'[o] = method[o]
    BY <1>2 DEF Take, tables, TypeInv, PlaceInv, PlaceOK
  <2>2. method[t] = "none" /\ doc[t].url = 0 /\ pc'[t] = "taken"
    BY <2>1 DEF TypeInv, PlaceInv, PlaceOK, ThreadOK, StepsOf, Methods
  <2>3. \A v \in Urls : Empty(v)' <=> Empty(v)
    BY <2>1 DEF Empty
  <2>4. InfoOK(t)'
    BY <2>1, <2>2, <2>3 DEF InfoOK, InfoInv, Unfilled, WasIndexed
  <2> QED BY <2>1, <2>2, <2>3, <2>4, InfoFrame, UrlAssumption
<1>3. ASSUME NEW t \in Threads, DocUpdate(t) PROVE InfoInv'
  <2>1. PICK s \in Statuses \cup {"none"}, c \in Contents \cup {0}, m \in Methods \ {"none", "FLUSH"} :
          Update(t, s, c, m) /\ (m \in {"LUPDATE", "UPDCLONE"} => s = "ok")
    BY <1>3, Answered DEF TypeInv
  <2>2. /\ pc[t] = "taken" /\ UNCHANGED <<status, info, reset>>
        /\ doc' = [doc EXCEPT ![t].status = s, ![t].crc32 = c]
        /\ method' = [method EXCEPT ![t] = m]
        /\ pc' = [pc EXCEPT ![t] = FirstStep(t, m)]
    BY <2>1 DEF Update, tables
  <2>3. /\ \A o \in Threads \ {t} : doc'[o] = doc[o] /\ pc'[o] = pc[o] /\ method'[o] = method[o]
        /\ doc'[t].url = doc[t].url /\ doc'[t].prev = doc[t].prev /\ doc'[t].status = s
        /\ method'[t] = m /\ pc'[t] = FirstStep(t, m)
    BY <2>2 DEF TypeInv, PlaceInv, PlaceOK, Docs
  <2>4. \A v \in Urls : Empty(v)' <=> Empty(v)
    BY <2>2 DEF Empty
  <2>5. pc'[t] \notin {"InsertInfo", "DeleteBadHrefs", "DeleteHrefs", "DeleteInfo"}
    BY <2>3 DEF FirstStep, Methods
  <2>6. method[t] = "none"
    BY <2>2 DEF TypeInv, PlaceInv, PlaceOK, ThreadOK, StepsOf, Methods
  <2>7. Unfilled(t)' => Unfilled(t)
    BY <2>3, <2>5, <2>6 DEF Unfilled, WasIndexed
  <2>8. InfoOK(t)'
    BY <2>1, <2>3, <2>4, <2>5, <2>7 DEF InfoOK, InfoInv
  <2> QED BY <2>2, <2>3, <2>4, <2>8, InfoFrame DEF InfoInv
<1>4. ASSUME NEW t \in Threads, Middle(t) PROVE InfoInv'
  BY <1>4, StatementInfo
<1>5. ASSUME NEW t \in Threads, Done(t) \/ Fail(t) PROVE InfoInv'
  <2>1. /\ UNCHANGED <<status, info, reset>> /\ doc'[t].url = 0
        /\ \A o \in Threads \ {t} : doc'[o] = doc[o] /\ pc'[o] = pc[o] /\ method'[o] = method[o]
    BY <1>5 DEF Done, Fail, GoTo, tables, TypeInv, PlaceInv, PlaceOK, NoDoc
  <2> QED BY <2>1, InfoEnds, UrlAssumption
<1>6. ASSUME NEW t \in Threads, Flush(t) \/ LeaveWithoutFlush(t) PROVE InfoInv'
  <2>1. /\ UNCHANGED <<status, info, reset, doc>> /\ pc[t] \in {"idle", "failed"}
        /\ \A o \in Threads \ {t} : pc'[o] = pc[o] /\ method'[o] = method[o]
    BY <1>6 DEF Flush, LeaveWithoutFlush, GoTo, tables, TypeInv, PlaceInv, PlaceOK
  <2>2. doc[t].url = 0
    BY <2>1 DEF TypeInv, PlaceInv, PlaceOK, ThreadOK, StepsOf, Methods
  <2> QED BY <2>1, <2>2, InfoEnds, UrlAssumption
<1>7. ASSUME NEW p \in Processes, Kill(p) \/ Restart(p) PROVE InfoInv'
  <2>1. UNCHANGED <<status, info, reset>>
    BY <1>7 DEF Kill, Restart, tables
  <2>2. ASSUME NEW o \in Threads
        PROVE  \/ doc'[o] = doc[o] /\ pc'[o] = pc[o] /\ method'[o] = method[o]
               \/ doc'[o].url \notin Urls
    <3>1. CASE Kill(p)
      BY <3>1, UrlAssumption DEF Kill, NoDoc
    <3>2. CASE Restart(p)
      <4>1. P(o) = p => pc[o] = "left"
        BY <3>2 DEF Restart, ThreadsOf, P
      <4>2. P(o) = p => doc[o].url = 0
        BY <4>1 DEF TypeInv, PlaceInv, PlaceOK, ThreadOK, StepsOf, Methods
      <4> QED BY <3>2, <4>2, UrlAssumption DEF Restart
    <3> QED BY <1>7, <3>1, <3>2
  <2> QED BY <2>1, <2>2, InfoEnds
<1>8. ASSUME NEW u \in Urls, AddUrl(u) PROVE InfoInv'
  <2>1. /\ ~Working(u) /\ UNCHANGED <<doc, pc, method>> /\ info'[u] = {}
        /\ \A v \in Urls : v # u => status'[v] = status[v] /\ info'[v] = info[v]
        /\ reset' = reset \ {u}
    BY <1>8 DEF AddUrl, place, TypeInv, DataOK
  <2>2. Empty(u)' /\ \A v \in Urls : v # u => (Empty(v)' <=> Empty(v))
    BY <2>1 DEF Empty
  <2>3. ASSUME NEW o \in Threads PROVE InfoOK(o)'
    <3>1. doc[o].url # u
      BY <2>1 DEF Working
    <3>2. Unfilled(o)' <=> Unfilled(o)
      BY <2>1 DEF Unfilled, WasIndexed
    <3> QED BY <2>1, <2>2, <3>1, <3>2 DEF InfoInv, InfoOK
  <2> QED BY <2>1, <2>2, <2>3 DEF InfoInv
<1>9. ASSUME NEW u \in Urls, HoldElapses(u) PROVE InfoInv'
  BY <1>9, InfoEnds DEF HoldElapses, place
<1> QED
  BY <1>1, <1>2, <1>3, <1>4, <1>5, <1>6, <1>7, <1>8, <1>9 DEF Next, Run, Statement, Middle

LEMMA InfoInit == Init => InfoInv
BY UrlAssumption DEF Init, InfoInv, InfoOK, Empty, NoDoc

LEMMA FreshInit == Init => FreshInv
<1> SUFFICES ASSUME Init PROVE FreshInv
  OBVIOUS
<1> USE ProcessAssumption, UrlAssumption DEF Init
<1>1. ASSUME NEW u \in Urls PROVE Settled(u) /\ Shown(u) /\ ~Cached(u)
  <2>1. ~Cached(u) /\ dict[u] = {}
    BY DEF Cached
  <2> QED BY <2>1, NotCached DEF Settled, Shown
<1>2. ASSUME NEW t \in Threads PROVE DocOK(t) /\ StepOK(t)
  BY DEF DocOK, StepOK, NoDoc
<1>3. CacheOK
  BY <1>1 DEF CacheOK, CachedBy
<1> QED BY <1>1, <1>2, <1>3 DEF FreshInv, RestOK

LEMMA FreshAlways == Spec => []FreshInv
<1>1. TypeOK => TypeInv
  BY TypeParts DEF TypeInv, PlaceInv
<1>2. TypeOK /\ FreshInv /\ InfoInv /\ [Next]_vars => FreshInv' /\ InfoInv'
  BY <1>1, FreshStep, InfoStep
<1> QED BY <1>2, FreshInit, InfoInit, UrlStoreType, PTL DEF Spec

\* For every number of processes, threads and documents, every size of the
\* word cache, every answer and every fault: a document that nobody works on
\* and no fault has hit has, once the word caches are written, no words but
\* those of the content its row names (db.c:222-534, dbmode-multi.c:554-803).
THEOREM UrlStoreWordsFresh == Spec => []WordsFresh
<1>1. FreshInv => WordsFresh
  BY DEF FreshInv, RestOK, Settled, WordsFresh
<1> QED BY <1>1, FreshAlways, PTL

\* And it is shown with the sections of the content its words are of, and
\* with no others unless a broken answer had set its Status to 0 (db.c:373-446,
\* sql.c:2671-2752, 3292-3372).
THEOREM UrlStoreInfoMatchesWords == Spec => []InfoMatchesWords
<1>1. FreshInv => InfoMatchesWords
  BY DEF FreshInv, RestOK, Shown, InfoMatchesWords
<1> QED BY <1>1, FreshAlways, PTL
=============================================================================
