------------------------------ MODULE UrlStore ------------------------------
(***************************************************************************)
(* What mnoGoSearch's indexer writes about a document: its row in "url",   *)
(* its sections in "urlinfo" and its words in the inverted index, through  *)
(* DocUpdate (db.c), the SQL handlers it picks (sql.c) and, with           *)
(* DBMode multi, the word cache of the process (wordcache.c,               *)
(* dbmode-multi.c).                                                        *)
(*                                                                         *)
(* A document's content is the crc32 of it; its words and its sections are *)
(* named by the content they were taken from.  DocUpdate runs under the    *)
(* process's UDM_LOCK_CONF and issues one SQL statement after the other.   *)
(* Each is an action, so other processes, a kill or a failing statement    *)
(* come in between; only the DELETEs that UdmDeleteURL issues for one      *)
(* document (url, urlinfo, links) are one.  On MySQL, the database of the  *)
(* TYPO3 extension, BEGIN and COMMIT do nothing (sql-mysql.c:374-385).     *)
(*                                                                         *)
(* Which thread has which URL is Crawler's business: here a thread takes   *)
(* any URL no other thread works on.                                       *)
(***************************************************************************)
EXTENDS Naturals, FiniteSets

CONSTANTS
    Processes, Threads, ProcessOf,
    Urls,          \* rec_ids: positive numbers
    Contents,      \* values of crc32: positive numbers
    Referrer,      \* the document each URL was found on, 0 for none
    DBModes,       \* of "multi" and "single"
    UseClones,     \* DetectClones
    HoldBadHrefs,  \* HoldBadHrefs > 0
    Reindex,       \* indexer -am: UDM_FLAG_REINDEX
    CacheLimit,    \* WordCacheSize, counted in documents
    Answers,       \* what may come of visiting a document, besides contents
    FaultsMax,     \* bound: failing SQL statements and killed processes
    UpdatesMax,    \* bound: how many documents are updated
    Nobody

Outcomes == {"gone", "down", "noStatus", "notModified", "later", "disallow"}

ASSUME ProcessAssumption == /\ ProcessOf \in [Threads -> Processes]
                            /\ Nobody \notin Threads
ASSUME UrlAssumption     == /\ Urls \subseteq Nat \ {0}
                            /\ Contents \subseteq Nat \ {0}
                            /\ Referrer \in [Urls -> Urls \cup {0}]
ASSUME OptionAssumption  == /\ DBModes \subseteq {"multi", "single"}
                            /\ UseClones \in BOOLEAN /\ HoldBadHrefs \in BOOLEAN
                            /\ Reindex \in BOOLEAN
                            /\ Answers \subseteq Outcomes
                            /\ CacheLimit \in Nat /\ UpdatesMax \in Nat
                            /\ FaultsMax \in Nat

VARIABLES
    status,    \* url.status: "none" (no row), 0, or a class of HTTP statuses
    crc,       \* url.crc32; url.last_mod_time is set by the same statement
    bad,       \* url.bad_since_time: "recent" or "old" (longer than the hold)
    referrer,  \* url.referrer
    info,      \* the contents urlinfo has the sections of
    dict,      \* the contents whose words the inverted index has
    urls,      \* WordCache.urls: whose words the next write deletes
    words,     \* WordCache.words: pairs of a URL and a content
    lock,      \* the owner of UDM_LOCK_CONF
    pc,        \* the next statement of each thread
    method,    \* the URL action the statements belong to
    doc,       \* the target a thread works on
    hrefs,     \* the rows UdmDeleteBadHrefs has selected and not deleted yet
    DBMode,    \* the mode of the database; never changes
    stale,     \* history: the documents the words of which a fault has hit
    reset,     \* history: the indexed documents whose row says 0 again, until
               \* their old sections are deleted
    updates, faults

tables == <<status, crc, bad, referrer, info, dict>>
cache  == <<urls, words>>
place  == <<lock, pc, method, doc, hrefs>>
counts == <<DBMode, updates, faults>>
vars   == <<tables, cache, place, stale, reset, counts>>

NoDoc == [url |-> 0, prev |-> "none", crc32old |-> 0, status |-> "none", crc32 |-> 0]

Statuses == {"new", "ok", "gone", "down", "notModified"}
Bad(s) == s \in {"gone", "down"}          \* status > 300 and not 304
Found(s) == s \in {"ok", "notModified"}   \* 200, 206, 304
HasRow(u) == status[u] # "none"
P(t) == ProcessOf[t]

Methods == {"none", "SUPDATE", "LUPDATE", "DUPDATE", "UPDCLONE", "DELETE", "FLUSH"}
SQLSteps == {"DeleteWords", "InsertWords", "UpdateUrl", "UpdateUrlWithLang",
             "DeleteBadHrefs", "DeleteHrefs", "ClearReferrer", "DeleteInfo",
             "InsertInfo", "DeleteRow", "WriteDelete", "WriteInsert"}
PCs == {"idle", "taken", "CacheWords", "done", "failed", "left"} \cup SQLSteps

\* The statements of each URL action.
StepsOf(m) ==
    CASE m = "none"     -> {"idle", "taken", "failed", "left"}
      [] m = "SUPDATE"  -> {"UpdateUrl", "DeleteBadHrefs", "DeleteHrefs", "done"}
      [] m = "LUPDATE"  -> {"DeleteWords", "InsertWords", "CacheWords",
                            "UpdateUrlWithLang", "DeleteBadHrefs", "DeleteHrefs",
                            "DeleteInfo", "InsertInfo", "WriteDelete", "WriteInsert", "done"}
      [] m = "DUPDATE"  -> {"DeleteWords", "UpdateUrl", "DeleteBadHrefs", "DeleteHrefs", "done"}
      [] m = "UPDCLONE" -> {"DeleteWords", "UpdateUrlWithLang", "done"}
      [] m = "DELETE"   -> {"DeleteWords", "DeleteRow", "DeleteBadHrefs", "DeleteHrefs",
                            "ClearReferrer", "done"}
      [] m = "FLUSH"    -> {"WriteDelete", "WriteInsert", "done"}

Init ==
    /\ status = [u \in Urls |-> "new"]
    /\ crc = [u \in Urls |-> 0]
    /\ bad = [u \in Urls |-> "recent"]
    /\ referrer = Referrer
    /\ info = [u \in Urls |-> {}]
    /\ dict = [u \in Urls |-> {}]
    /\ urls = [p \in Processes |-> {}]
    /\ words = [p \in Processes |-> {}]
    /\ lock = [p \in Processes |-> Nobody]
    /\ pc = [t \in Threads |-> "idle"]
    /\ method = [t \in Threads |-> "none"]
    /\ doc = [t \in Threads |-> NoDoc]
    /\ hrefs = [t \in Threads |-> {}]
    /\ DBMode \in DBModes
    /\ stale = {} /\ reset = {}
    /\ updates = 0 /\ faults = 0

Working(u) == \E t \in Threads : doc[t].url = u
Cached(u)  == \E p \in Processes : u \in urls[p] \/ \E v \in Contents : <<u, v>> \in words[p]

\* UdmTargetSQLResToDoc: the row is copied when it is selected, PrevStatus
\* and crc32old with it.  When it is due before its last words have left a
\* word cache, they get mixed up with the new ones.
Take(t, u) ==
    /\ pc[t] = "idle" /\ updates < UpdatesMax
    /\ HasRow(u) /\ ~Working(u)
    /\ doc' = [doc EXCEPT ![t] = [url |-> u, prev |-> status[u], crc32old |-> crc[u],
                                  status |-> status[u], crc32 |-> crc[u]]]
    /\ pc' = [pc EXCEPT ![t] = "taken"]
    /\ updates' = updates + 1
    /\ stale' = IF Cached(u) THEN stale \cup {u} ELSE stale
    /\ UNCHANGED <<tables, cache, lock, method, hrefs, reset, DBMode, faults>>

\* UdmFindOrigin: the candidates for the origin of content c.
FindOrigin(t, c) == {u \in Urls : crc[u] = c /\ Found(status[u])}

IsClone(t, c) ==
    /\ UseClones
    /\ \E u \in FindOrigin(t, c) : u # doc[t].url /\ \A o \in FindOrigin(t, c) : u <= o

WasIndexed(t) == doc[t].prev # "new"   \* PrevStatus != 0

FirstStep(t, m) ==
    CASE m = "SUPDATE" -> "UpdateUrl"
      [] m = "LUPDATE" -> IF DBMode = "multi" THEN "CacheWords" ELSE "DeleteWords"
      [] m = "DUPDATE" -> IF WasIndexed(t) THEN "DeleteWords" ELSE "UpdateUrl"
      [] m = "UPDCLONE" -> IF WasIndexed(t) THEN "DeleteWords" ELSE "UpdateUrlWithLang"
      [] m = "DELETE" -> IF WasIndexed(t) THEN "DeleteWords" ELSE "DeleteRow"

\* DocUpdate takes a way: the document's new Status and crc32 and the URL
\* action, whose first statement is next.
Update(t, s, c, m) ==
    /\ pc[t] = "taken" /\ lock[P(t)] = Nobody
    /\ lock' = [lock EXCEPT ![P(t)] = t]
    /\ doc' = [doc EXCEPT ![t].status = s, ![t].crc32 = c]
    /\ method' = [method EXCEPT ![t] = m]
    /\ pc' = [pc EXCEPT ![t] = FirstStep(t, m)]
    /\ UNCHANGED <<tables, cache, hrefs, stale, reset, counts>>

\* What DocUpdate does with a document that was downloaded: clones first,
\* then documents that have not changed.
ContentMethod(t, c) ==
    IF IsClone(t, c) THEN "UPDCLONE"
    ELSE IF c = doc[t].crc32old /\ ~Reindex THEN "SUPDATE" ELSE "LUPDATE"

Downloaded(t) == \E c \in Contents : Update(t, "ok", c, ContentMethod(t, c))

\* 304: only asked for with the row's Last-Modified, and not with -am.
NotModified(t) ==
    /\ "notModified" \in Answers /\ ~Reindex /\ doc[t].crc32old # 0
    /\ Update(t, "notModified", doc[t].crc32, "SUPDATE")

\* 4xx and 3xx: words and links go, the row and urlinfo stay.
Gone(t) == "gone" \in Answers /\ Update(t, "gone", doc[t].crc32, "DUPDATE")

\* 500, 503, 504, too many errors of the host: the words stay.
Down(t) == "down" \in Answers /\ Update(t, "down", doc[t].crc32, "SUPDATE")

\* An answer without a complete HTTP header: Status is UDM_HTTP_STATUS_UNKNOWN.
NoStatus(t) == "noStatus" \in Answers /\ Update(t, "new", doc[t].crc32, "SUPDATE")

\* UDM_METHOD_VISITLATER: a filter or robots.txt; Status is the row's.
VisitLater(t) == "later" \in Answers /\ Update(t, doc[t].status, doc[t].crc32, "SUPDATE")

\* UDM_METHOD_DISALLOW: the configuration no longer allows the URL.
Disallow(t) == "disallow" \in Answers /\ Update(t, doc[t].status, doc[t].crc32, "DELETE")

DocUpdate(t) ==
    \/ Downloaded(t) \/ NotModified(t) \/ Gone(t) \/ Down(t) \/ NoStatus(t)
    \/ VisitLater(t) \/ Disallow(t)

At(t, step) == pc[t] = step
GoTo(t, step) == pc' = [pc EXCEPT ![t] = step]

\* DELETE of the words of one document from every dict table.
DeleteWords(t) ==
    /\ At(t, "DeleteWords")
    /\ dict' = [dict EXCEPT ![doc[t].url] = {}]
    /\ GoTo(t, CASE method[t] = "LUPDATE" -> "InsertWords"
                 [] method[t] = "DUPDATE" -> "UpdateUrl"
                 [] method[t] = "UPDCLONE" -> "UpdateUrlWithLang"
                 [] method[t] = "DELETE" -> "DeleteRow")
    /\ UNCHANGED <<status, crc, bad, referrer, info, cache, lock, method, doc, hrefs, stale, reset, counts>>

\* StoreWordsSingle's INSERTs, after its DeleteWords.
InsertWords(t) ==
    /\ At(t, "InsertWords")
    /\ dict' = [dict EXCEPT ![doc[t].url] = @ \cup {doc[t].crc32}]
    /\ stale' = IF HasRow(doc[t].url) THEN stale \ {doc[t].url} ELSE stale
    /\ GoTo(t, "UpdateUrlWithLang")
    /\ UNCHANGED <<status, crc, bad, referrer, info, cache, lock, method, doc, hrefs, reset, counts>>

\* UdmStoreWordsMulti: only the word cache is written.
CacheWords(t) ==
    /\ At(t, "CacheWords")
    /\ urls' = IF WasIndexed(t) THEN [urls EXCEPT ![P(t)] = @ \cup {doc[t].url}] ELSE urls
    /\ words' = [words EXCEPT ![P(t)] = @ \cup {<<doc[t].url, doc[t].crc32>>}]
    /\ stale' = IF WasIndexed(t) /\ HasRow(doc[t].url) /\ ~Cached(doc[t].url) THEN stale \ {doc[t].url} ELSE stale
    /\ GoTo(t, "UpdateUrlWithLang")
    /\ UNCHANGED <<tables, lock, method, doc, hrefs, reset, counts>>

\* bad_since_time is set when a document turns bad (or changes its badness).
TurnsBad(t) == Bad(doc[t].status) /\ doc[t].prev # doc[t].status

\* UPDATE url of UdmUpdateUrl: everything but crc32.  Status 0 makes the next
\* visit take an indexed document for a new one: it keeps the old words that
\* only PrevStatus has deleted, and adds its sections to the old ones.
UpdateUrl(t) ==
    LET u == doc[t].url IN
    /\ At(t, "UpdateUrl")
    /\ IF HasRow(u) THEN /\ status' = [status EXCEPT ![u] = doc[t].status]
                         /\ bad' = IF TurnsBad(t) THEN [bad EXCEPT ![u] = "recent"] ELSE bad
                    ELSE UNCHANGED <<status, bad>>
    /\ IF WasIndexed(t) /\ doc[t].status = "new"
       THEN stale' = stale \cup {u} /\ reset' = reset \cup {u}
       ELSE UNCHANGED <<stale, reset>>
    /\ GoTo(t, "DeleteBadHrefs")
    /\ UNCHANGED <<crc, referrer, info, dict, cache, lock, method, doc, hrefs, counts>>

\* UPDATE url of UdmUpdateUrlWithLangAndCharset: status and crc32.
UpdateUrlWithLang(t) ==
    LET u == doc[t].url IN
    /\ At(t, "UpdateUrlWithLang")
    /\ IF HasRow(u) THEN /\ status' = [status EXCEPT ![u] = doc[t].status]
                         /\ crc' = [crc EXCEPT ![u] = doc[t].crc32]
                    ELSE UNCHANGED <<status, crc>>
    /\ GoTo(t, IF method[t] = "UPDCLONE" THEN "done" ELSE "DeleteBadHrefs")
    /\ UNCHANGED <<bad, referrer, info, dict, cache, lock, method, doc, hrefs, stale, reset, counts>>

\* The rows UdmDeleteBadHrefs selects: bad for longer than the hold, and
\* found on the document that is being updated.
BadHrefs(u) == {r \in Urls : referrer[r] = u /\ Bad(status[r]) /\ bad[r] = "old"}

AfterHrefs(t) ==
    CASE method[t] \in {"SUPDATE", "DUPDATE"} -> "done"
      [] method[t] = "LUPDATE" -> IF WasIndexed(t) THEN "DeleteInfo" ELSE "InsertInfo"
      [] method[t] = "DELETE" -> "ClearReferrer"

\* The SELECT of UdmDeleteBadHrefs.
DeleteBadHrefs(t) ==
    LET found == IF HoldBadHrefs THEN BadHrefs(doc[t].url) ELSE {} IN
    /\ At(t, "DeleteBadHrefs")
    /\ hrefs' = [hrefs EXCEPT ![t] = found]
    /\ GoTo(t, IF found = {} THEN AfterHrefs(t) ELSE "DeleteHrefs")
    /\ UNCHANGED <<tables, cache, lock, method, doc, stale, reset, counts>>

\* A selected row is deleted by UdmDeleteURL, even when it has been indexed
\* since.  The document it is given has no PrevStatus and no HoldBadHrefs: the
\* words stay, and no other row is deleted.  Its statements are one step.
DeleteHref(t, r) ==
    /\ At(t, "DeleteHrefs") /\ r \in hrefs[t]
    /\ status' = [status EXCEPT ![r] = "none"]
    /\ info' = [info EXCEPT ![r] = {}]
    /\ referrer' = [u \in Urls |-> IF referrer[u] = r THEN 0 ELSE referrer[u]]
    /\ stale' = stale \cup {r}
    /\ hrefs' = [hrefs EXCEPT ![t] = @ \ {r}]
    /\ GoTo(t, IF hrefs[t] = {r} THEN AfterHrefs(t) ELSE "DeleteHrefs")
    /\ UNCHANGED <<crc, bad, dict, cache, lock, method, doc, reset, counts>>

\* The last statement of UdmDeleteURL.
ClearReferrer(t) ==
    /\ At(t, "ClearReferrer")
    /\ referrer' = [u \in Urls |-> IF referrer[u] = doc[t].url THEN 0 ELSE referrer[u]]
    /\ GoTo(t, "done")
    /\ UNCHANGED <<status, crc, bad, info, dict, cache, lock, method, doc, hrefs, stale, reset, counts>>

\* Mutant: the old sections stay.
DeleteInfoMutant(t) ==
    /\ At(t, "DeleteInfo")
    /\ GoTo(t, "InsertInfo")
    /\ reset' = reset \ {doc[t].url}
    /\ UNCHANGED <<tables, cache, lock, method, doc, hrefs, stale, counts>>

\* DELETE FROM urlinfo: only if PrevStatus != 0.
DeleteInfo(t) ==
    /\ At(t, "DeleteInfo")
    /\ info' = [info EXCEPT ![doc[t].url] = {}]
    /\ reset' = reset \ {doc[t].url}
    /\ GoTo(t, "InsertInfo")
    /\ UNCHANGED <<status, crc, bad, referrer, dict, cache, lock, method, doc, hrefs, stale, counts>>

\* UdmWordCacheWrite writes the cache of DBMode multi when it is above the
\* limit, after every LUPDATE.
AfterInfo(t) ==
    IF DBMode = "multi" /\ Cardinality(words[P(t)]) > CacheLimit
    THEN "WriteDelete" ELSE "done"

\* The sections are INSERTed next to what is there.
InsertInfo(t) ==
    /\ At(t, "InsertInfo")
    /\ info' = [info EXCEPT ![doc[t].url] = @ \cup {doc[t].crc32}]
    /\ GoTo(t, AfterInfo(t))
    /\ UNCHANGED <<status, crc, bad, referrer, dict, cache, lock, method, doc, hrefs, stale, reset, counts>>

\* UdmDeleteURL's DELETEs from url, urlinfo and links, one after the other.
DeleteRow(t) ==
    LET u == doc[t].url IN
    /\ At(t, "DeleteRow")
    /\ status' = [status EXCEPT ![u] = "none"]
    /\ info' = [info EXCEPT ![u] = {}]
    /\ GoTo(t, "DeleteBadHrefs")
    /\ UNCHANGED <<crc, bad, referrer, dict, cache, lock, method, doc, hrefs, stale, reset, counts>>

\* Mutant: the new words are written first.
WriteDeleteMutant(t) ==
    /\ At(t, "WriteDelete")
    /\ dict' = [u \in Urls |-> dict[u] \cup {v \in Contents : <<u, v>> \in words[P(t)]}]
    /\ GoTo(t, "WriteInsert")
    /\ UNCHANGED <<status, crc, bad, referrer, info, cache, lock, method, doc, hrefs, stale, reset, counts>>

\* BEGIN, and "Remove expired words" of every document in the list.
WriteDelete(t) ==
    /\ At(t, "WriteDelete")
    /\ dict' = [u \in Urls |-> IF u \in urls[P(t)] THEN {} ELSE dict[u]]
    /\ GoTo(t, "WriteInsert")
    /\ UNCHANGED <<status, crc, bad, referrer, info, cache, lock, method, doc, hrefs, stale, reset, counts>>

CachedUrls(p) == urls[p] \cup {u \in Urls : \E v \in Contents : <<u, v>> \in words[p]}

EmptyCache(p) ==
    /\ urls' = [urls EXCEPT ![p] = {}]
    /\ words' = [words EXCEPT ![p] = {}]

\* The INSERTs, COMMIT and UdmWordCacheFree.
WriteInsert(t) ==
    /\ At(t, "WriteInsert")
    /\ dict' = [u \in Urls |-> dict[u] \cup {v \in Contents : <<u, v>> \in words[P(t)]}]
    /\ EmptyCache(P(t))
    /\ GoTo(t, "done")
    /\ UNCHANGED <<status, crc, bad, referrer, info, lock, method, doc, hrefs, stale, reset, counts>>

\* Mutant: a document that is not downloaded keeps UDM_LOCK_CONF.
DoneMutant(t) ==
    /\ At(t, "done")
    /\ lock' = IF method[t] = "SUPDATE" THEN lock ELSE [lock EXCEPT ![P(t)] = Nobody]
    /\ doc' = [doc EXCEPT ![t] = NoDoc]
    /\ GoTo(t, IF method[t] = "FLUSH" THEN "left" ELSE "idle")
    /\ method' = [method EXCEPT ![t] = "none"]
    /\ UNCHANGED <<tables, cache, hrefs, stale, reset, counts>>

\* The end of UdmURLActionNoLock or UdmWordCacheFlush: the lock is released.
Done(t) ==
    /\ At(t, "done")
    /\ lock' = [lock EXCEPT ![P(t)] = Nobody]
    /\ doc' = [doc EXCEPT ![t] = NoDoc]
    /\ GoTo(t, IF method[t] = "FLUSH" THEN "left" ELSE "idle")
    /\ method' = [method EXCEPT ![t] = "none"]
    /\ UNCHANGED <<tables, cache, hrefs, stale, reset, counts>>

\* A statement fails.  A failing write frees the word cache.  The error
\* path of UdmWordCacheFlush returns with the lock held.  An update that
\* neither changes words nor crc32 leaves them right.
Fail(t) ==
    /\ faults < FaultsMax /\ pc[t] \in SQLSteps
    /\ faults' = faults + 1
    /\ IF pc[t] \in {"WriteDelete", "WriteInsert"}
       THEN EmptyCache(P(t)) ELSE UNCHANGED cache
    /\ stale' = stale \cup (IF method[t] = "SUPDATE" THEN {} ELSE {doc[t].url} \ {0})
                     \cup (IF pc[t] \in {"WriteDelete", "WriteInsert"}
                           THEN CachedUrls(P(t)) ELSE {})
    /\ lock' = IF method[t] = "FLUSH" THEN lock ELSE [lock EXCEPT ![P(t)] = Nobody]
    /\ doc' = [doc EXCEPT ![t] = NoDoc]
    /\ GoTo(t, IF method[t] = "FLUSH" THEN "left" ELSE "failed")
    /\ method' = [method EXCEPT ![t] = "none"]
    /\ hrefs' = [hrefs EXCEPT ![t] = {}]
    /\ UNCHANGED <<tables, reset, DBMode, updates>>

\* thread_main's end: a thread whose last result was UDM_ERROR does not flush.
Flush(t) ==
    /\ pc[t] = "idle" /\ DBMode = "multi" /\ lock[P(t)] = Nobody
    /\ lock' = [lock EXCEPT ![P(t)] = t]
    /\ method' = [method EXCEPT ![t] = "FLUSH"]
    /\ GoTo(t, "WriteDelete")
    /\ UNCHANGED <<tables, cache, doc, hrefs, stale, reset, counts>>

LeaveWithoutFlush(t) ==
    /\ pc[t] = "failed" \/ (pc[t] = "idle" /\ DBMode = "single")
    /\ GoTo(t, "left")
    /\ UNCHANGED <<tables, cache, lock, method, doc, hrefs, stale, reset, counts>>

ThreadsOf(p) == {t \in Threads : ProcessOf[t] = p}

\* The operating system kills an indexer: the word cache is gone.
Kill(p) ==
    /\ faults < FaultsMax
    /\ faults' = faults + 1
    /\ stale' = stale \cup CachedUrls(p) \cup ({doc[t].url : t \in ThreadsOf(p)} \ {0})
    /\ EmptyCache(p)
    /\ lock' = [lock EXCEPT ![p] = Nobody]
    /\ pc' = [t \in Threads |-> IF P(t) = p THEN "left" ELSE pc[t]]
    /\ doc' = [t \in Threads |-> IF P(t) = p THEN NoDoc ELSE doc[t]]
    /\ method' = [t \in Threads |-> IF P(t) = p THEN "none" ELSE method[t]]
    /\ hrefs' = [t \in Threads |-> IF P(t) = p THEN {} ELSE hrefs[t]]
    /\ UNCHANGED <<tables, reset, DBMode, updates>>

\* The next run of the indexer.  The word cache is freed with its process.
Restart(p) ==
    /\ \A t \in ThreadsOf(p) : pc[t] = "left"
    /\ updates < UpdatesMax
    /\ stale' = stale \cup CachedUrls(p)
    /\ EmptyCache(p)
    /\ lock' = [lock EXCEPT ![p] = Nobody]
    /\ pc' = [t \in Threads |-> IF P(t) = p THEN "idle" ELSE pc[t]]
    /\ UNCHANGED <<tables, method, doc, hrefs, reset, counts>>

\* A link to a URL without a row is found again: UdmAddURL.  The new row has
\* a rec_id of its own (auto_increment), of which the tables have nothing; the
\* model gives it that of the old row, once no thread and no cache has it.
AddUrl(u) ==
    /\ ~HasRow(u) /\ ~Working(u) /\ ~Cached(u) /\ \A t \in Threads : u \notin hrefs[t]
    /\ status' = [status EXCEPT ![u] = "new"]
    /\ crc' = [crc EXCEPT ![u] = 0]
    /\ bad' = [bad EXCEPT ![u] = "recent"]
    /\ referrer' = [referrer EXCEPT ![u] = Referrer[u]]
    /\ info' = [info EXCEPT ![u] = {}]
    /\ dict' = [dict EXCEPT ![u] = {}]
    /\ stale' = stale \ {u} /\ reset' = reset \ {u}
    /\ UNCHANGED <<cache, place, counts>>

\* HoldBadHrefs passes.
HoldElapses(u) ==
    /\ HoldBadHrefs /\ HasRow(u) /\ Bad(status[u]) /\ bad[u] = "recent"
    /\ bad' = [bad EXCEPT ![u] = "old"]
    /\ UNCHANGED <<status, crc, referrer, info, dict, cache, place, stale, reset, counts>>

Statement(t) ==
    \/ DeleteWords(t) \/ InsertWords(t) \/ CacheWords(t)
    \/ UpdateUrl(t) \/ UpdateUrlWithLang(t)
    \/ DeleteBadHrefs(t) \/ (\E r \in Urls : DeleteHref(t, r)) \/ ClearReferrer(t)
    \/ DeleteInfo(t) \/ InsertInfo(t) \/ DeleteRow(t)
    \/ WriteDelete(t) \/ WriteInsert(t) \/ Done(t) \/ Fail(t)

Run(t) == DocUpdate(t) \/ Statement(t) \/ Flush(t) \/ LeaveWithoutFlush(t)

Next ==
    \/ \E t \in Threads : Run(t) \/ \E u \in Urls : Take(t, u)
    \/ \E p \in Processes : Kill(p) \/ Restart(p)
    \/ \E u \in Urls : AddUrl(u) \/ HoldElapses(u)

Spec == Init /\ [][Next]_vars
FairSpec == Spec /\ \A t \in Threads : WF_vars(Statement(t))
-----------------------------------------------------------------------------
(***************************************************************************)
(* Properties                                                              *)
(***************************************************************************)
\* The state keeps its shape; a thread has a document, a method and
\* UDM_LOCK_CONF exactly while DocUpdate or a flush needs them, but for a
\* flush that failed; it runs the statements of its method only; words are
\* those of a content; and no two threads work on one document.
TypeOK ==
    /\ status \in [Urls -> Statuses \cup {"none"}]
    /\ crc \in [Urls -> Contents \cup {0}]
    /\ bad \in [Urls -> {"recent", "old"}]
    /\ referrer \in [Urls -> Urls \cup {0}]
    /\ info \in [Urls -> SUBSET Contents]
    /\ dict \in [Urls -> SUBSET Contents]
    /\ urls \in [Processes -> SUBSET Urls]
    /\ words \in [Processes -> SUBSET (Urls \X Contents)]
    /\ lock \in [Processes -> Threads \cup {Nobody}]
    /\ pc \in [Threads -> PCs]
    /\ method \in [Threads -> Methods]
    /\ doc \in [Threads -> [url : Urls \cup {0}, prev : Statuses \cup {"none"},
                            crc32old : Contents \cup {0},
                            status : Statuses \cup {"none"}, crc32 : Contents \cup {0}]]
    /\ hrefs \in [Threads -> SUBSET Urls]
    /\ DBMode \in DBModes /\ stale \in SUBSET Urls /\ reset \in SUBSET Urls
    /\ updates \in 0..UpdatesMax /\ faults \in 0..FaultsMax
    /\ \A t \in Threads :
        /\ (doc[t].url # 0) <=> (pc[t] = "taken" \/ method[t] \notin {"none", "FLUSH"})
        /\ pc[t] \in StepsOf(method[t])
        /\ method[t] # "none" => lock[P(t)] = t
        /\ lock[P(t)] = t => method[t] # "none" \/ pc[t] = "left"
        /\ method[t] = "LUPDATE" => doc[t].crc32 # 0
    /\ \A t, o \in Threads : t # o /\ doc[t].url # 0 => doc[t].url # doc[o].url

\* The words of u once every word cache is written.
CachedWords(u) == {v \in Contents : \E p \in Processes : <<u, v>> \in words[p]}
WordsToBe(u) ==
    (IF \E p \in Processes : u \in urls[p] THEN {} ELSE dict[u]) \cup CachedWords(u)

\* The inverted index, with the word caches written, has no words of a
\* document but those of the content its row names, and none without a row:
\* what DocUpdate and UdmWordCacheWrite delete is what they replace, for
\* every document but those a fault has hit and no later visit has written.
WordsFresh ==
    \A u \in Urls \ stale :
        Working(u) \/ WordsToBe(u) \subseteq (IF HasRow(u) THEN {crc[u]} ELSE {})

\* A document that is found by its words is shown with the sections of the
\* same content (urlinfo), although the words may wait in a word cache and
\* clones and missing documents keep old sections.  It is shown with no other
\* sections, unless a broken answer has set its Status to 0: then the next
\* content is inserted next to the old one and both stay in urlinfo until a
\* later content.
InfoMatchesWords ==
    \A u \in Urls \ stale : Working(u) \/
        \A c \in WordsToBe(u) : c \in info[u] /\ (u \in reset \/ info[u] = {c})

\* "indexes only one document from the group of similar documents"
\* (doc/cmdref.xml:2214-2216): when the visit of a document that was found
\* ends, one of the documents with its content has words.
OneOfGroupIndexed ==
    \A t \in Threads :
        pc[t] = "done" /\ doc[t].status = "ok" =>
            \E u \in Urls : /\ crc[u] = doc[t].crc32 /\ Found(status[u])
                           /\ doc[t].crc32 \in WordsToBe(u)

\* A thread does not keep UDM_LOCK_CONF, which every other thread of its
\* process needs for its next document, neither at the end of an update nor
\* of a flush: only a flush that fails keeps it, for ever.
LockReleased == \A t \in Threads : []<>(lock[P(t)] # t \/ pc[t] = "left")

=============================================================================
