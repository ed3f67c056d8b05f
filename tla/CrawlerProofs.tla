--------------------------- MODULE CrawlerProofs ---------------------------
(***************************************************************************)
(* Proofs about module Crawler, for every number of processes, threads and *)
(* URLs and every structure of links:                                      *)
(*   CrawlerTypeOK             the type invariant and the lock ownership   *)
(*   CrawlerNoDoubleCrawl      by the inductive invariant LeaseInv         *)
(*   CrawlerImplementsQueue    the crawler implements module LeasedQueue   *)
(*   CrawlerLeasesWithinLimit  inductive with the two above                *)
(*   CrawlerNothingLeftBehind  by the inductive invariant WorkInv          *)
(* Each rests on one lemma "...Next" with one step per action.             *)
(***************************************************************************)
EXTENDS Crawler, FiniteSetTheorems, TLAPS

\* The crawler starts with the expected shape and no lock held.
LEMMA TypeInit == Init => TypeOK /\ LockInv
BY ProcOfAssumption, WebAssumption, NumberAssumption, NobodyAssumption
   DEF Init, TypeOK, LockInv, ThreadsOf, PCs, Results

\* What DocUpdate does to the shape of the state.
LEMMA UpdateTypes ==
    ASSUME TypeOK, NEW t \in Threads, NEW B \in BadHrefs(doc[t]), DocUpdate(t, B), doc[t] # NoUrl,
           UNCHANGED <<targets, marking>>
    PROVE  /\ next_index_time' \in [Urls -> {"none", "due", "later"}]
           /\ bad' \in SUBSET Urls
           /\ gone' \in [Procs -> SUBSET Urls]
           /\ \A p \in Procs : gone'[p] \subseteq targets'[p] \cup marking'[p]
           /\ doc' = [doc EXCEPT ![t] = NoUrl]
           /\ docGone' \in [Threads -> BOOLEAN]
           /\ verdict' = [verdict EXCEPT ![t] = "none"]
<1> DEFINE deleted == B \cup (IF verdict[t] = "delete" THEN OwnRow(t) ELSE {})
<1>1. doc[t] \in Urls /\ OwnRow(t) \in SUBSET Urls
  BY DEF TypeOK, OwnRow
<1>2. B \in SUBSET Urls
  BY DEF BadHrefs, TypeOK
<1>3. deleted \in SUBSET Urls
  BY <1>1, <1>2
<1>4. /\ next_index_time' = [u \in Urls |-> IF u \in deleted THEN "none" ELSE Leased(OwnRow(t))[u]]
      /\ bad' = ((bad \ OwnRow(t)) \cup (IF verdict[t] = "bad" THEN OwnRow(t) ELSE {})) \ deleted
      /\ gone' = [p \in Procs |-> gone[p] \cup (deleted \cap (targets[p] \cup marking[p]))]
      /\ doc' = [doc EXCEPT ![t] = NoUrl]
      /\ docGone' = [s \in Threads |-> s # t /\ (docGone[s] \/ doc[s] \in deleted)]
      /\ verdict' = [verdict EXCEPT ![t] = "none"]
  BY DEF DocUpdate
<1> HIDE DEF deleted
<1>5. next_index_time' \in [Urls -> {"none", "due", "later"}]
  BY <1>4 DEF Leased, TypeOK
<1>6. bad' \in SUBSET Urls
  BY <1>1, <1>4 DEF TypeOK
<1>7. /\ gone' \in [Procs -> SUBSET Urls]
      /\ \A p \in Procs : gone'[p] \subseteq targets'[p] \cup marking'[p]
  BY <1>3, <1>4 DEF TypeOK
<1>8. docGone' \in [Threads -> BOOLEAN]
  BY <1>4, Zenon
<1> QED BY <1>4, <1>5, <1>6, <1>7, <1>8

\* UdmStoreHrefs leads to the check for a target or to the update.
LEMMA StoreStep ==
    ASSUME TypeOK, NEW t \in Threads, StoreHrefs(t) \/ StoreHrefsUnseen(t)
    PROVE  /\ pc' = [pc EXCEPT ![t] = pc'[t]]
           /\ \/ pc[t] = "store" /\ pc'[t] = "check"
              \/ pc[t] = "store2" /\ pc'[t] = "update"
<1>1. DOMAIN AfterStore = {"store", "store2"}
  BY DEF AfterStore
<1>2. AfterStore["store"] = "check" /\ AfterStore["store2"] = "update"
  BY DEF AfterStore
<1>3. pc[t] \in {"store", "store2"} /\ pc' = [pc EXCEPT ![t] = AfterStore[pc[t]]]
  BY <1>1 DEF StoreHrefs, StoreHrefsUnseen
<1>4. pc'[t] = AfterStore[pc[t]]
  BY <1>3 DEF TypeOK
<1> QED BY <1>2, <1>3, <1>4

\* Every action keeps the shape and the ownership of the locks: LockInv is
\* what says that url_number > 0 still holds when NextTargetMark subtracts one.
LEMMA TypeNext == TypeOK /\ LockInv /\ [Next]_vars => TypeOK' /\ LockInv'
<1> SUFFICES ASSUME TypeOK, LockInv, [Next]_vars
             PROVE  TypeOK' /\ LockInv'
    OBVIOUS
<1> USE ProcOfAssumption, WebAssumption, NumberAssumption, NobodyAssumption,
        SwitchAssumption
    DEF TypeOK, LockInv, LockFree, ThreadsOf, PCs, Results,
        dbVars, confVars, poolVars, threadVars
<1>1. ASSUME NEW t \in Threads, CreateThread(t)
      PROVE  TypeOK' /\ LockInv'
  BY <1>1 DEF CreateThread
<1>2. ASSUME NEW t \in Threads, LoopTop(t)
      PROVE  TypeOK' /\ LockInv'
  BY <1>2 DEF LoopTop
<1>3. ASSUME NEW t \in Threads, TimeUp(t)
      PROVE  TypeOK' /\ LockInv'
  BY <1>3 DEF TimeUp
<1>4. ASSUME NEW t \in Threads, SwitchRes(t)
      PROVE  TypeOK' /\ LockInv'
  BY <1>4 DEF SwitchRes
<1>5. ASSUME NEW t \in Threads, TestDone(t)
      PROVE  TypeOK' /\ LockInv'
  BY <1>5 DEF TestDone
<1>6. ASSUME NEW t \in Threads, ExitThread(t)
      PROVE  TypeOK' /\ LockInv'
  BY <1>6 DEF ExitThread
<1>7. ASSUME NEW t \in Threads, StoreHrefsError(t)
      PROVE  TypeOK' /\ LockInv'
  BY <1>7 DEF StoreHrefsError, WithRows, Fail, Drop, AfterStore
<1>8. ASSUME NEW t \in Threads, CheckAction(t)
      PROVE  TypeOK' /\ LockInv'
  BY <1>8 DEF CheckAction
<1>9. ASSUME NEW t \in Threads, NextTargetCached(t)
      PROVE  TypeOK' /\ LockInv'
  BY <1>9 DEF NextTargetCached, HandOut
<1>10. ASSUME NEW t \in Threads, NextTargetLoad(t)
      PROVE  TypeOK' /\ LockInv'
  BY <1>10 DEF NextTargetLoad, HandOut, Leased, Batches, Due
<1>11. ASSUME NEW t \in Threads, NextTargetSelect(t)
      PROVE  TypeOK' /\ LockInv'
  BY <1>11 DEF NextTargetSelect, Batches, Due
<1>12. ASSUME NEW t \in Threads, NextTargetMark(t)
      PROVE  TypeOK' /\ LockInv'
  BY <1>12 DEF NextTargetMark, HandOut, Leased
<1>13. ASSUME NEW t \in Threads, NextTargetNone(t)
      PROVE  TypeOK' /\ LockInv'
  <2>1. /\ pc[t] = "next" /\ LockFree(ProcOf[t])
        /\ res' = [res EXCEPT ![t] = "NOTARGET"]
        /\ pc' = [pc EXCEPT ![t] = "switch"]
        /\ UNCHANGED <<dbVars, confVars, poolVars, i_sleep, action, doc, docGone, verdict>>
    BY <1>13 DEF NextTargetNone
  <2> QED BY <2>1
<1>14. ASSUME NEW t \in Threads, NextTargetError(t)
      PROVE  TypeOK' /\ LockInv'
  <2>1. CASE Fail(t) /\ UNCHANGED unseen
    BY <1>14, <2>1 DEF NextTargetError, Fail, Drop
  <2>2. CASE /\ ~SkipLock
             /\ res' = [res EXCEPT ![t] = "NOTARGET"]
             /\ pc' = [pc EXCEPT ![t] = "switch"]
             /\ unseen' = [unseen EXCEPT ![ProcOf[t]] = TRUE]
             /\ UNCHANGED <<doc, docGone, verdict>>
    BY <1>14, <2>2 DEF NextTargetError
  <2> QED BY <1>14, <2>1, <2>2 DEF NextTargetError
<1>15. ASSUME NEW t \in Threads, NextTargetMarkError(t)
      PROVE  TypeOK' /\ LockInv'
  <2>0. PICK S \in SUBSET Due :
            \/ /\ \E u \in S : HandOut(t, S, u)
               /\ UNCHANGED <<res, verdict>>
            \/ /\ targets' = [targets EXCEPT ![ProcOf[t]] = S]
               /\ Fail(t)
               /\ UNCHANGED <<url_number, gone>>
    BY <1>15 DEF NextTargetMarkError, Batches
  <2>1. CASE \E u \in S : HandOut(t, S, u) /\ UNCHANGED <<res, verdict>>
    <3>1. PICK u \in S : HandOut(t, S, u)
      BY <2>1
    <3>2. gone[ProcOf[t]] = {} /\ marking[ProcOf[t]] = {} /\ S \in SUBSET Urls /\ u \in Urls
      BY <1>15 DEF NextTargetMarkError, Due
    <3>3. /\ targets' = [targets EXCEPT ![ProcOf[t]] = S \ {u}]
          /\ gone' = [gone EXCEPT ![ProcOf[t]] = {}]
          /\ docGone' = [docGone EXCEPT ![t] = FALSE]
      <4> HIDE DEF TypeOK, LockInv
      <4>1. gone[ProcOf[t]] \ {u} = {} /\ (u \in gone[ProcOf[t]]) = FALSE
        BY <3>2
      <4> QED BY <3>1, <4>1 DEF HandOut
    <3> QED BY <1>15, <2>1, <3>1, <3>2, <3>3 DEF NextTargetMarkError, HandOut
  <2>2. CASE targets' = [targets EXCEPT ![ProcOf[t]] = S] /\ Fail(t)
            /\ UNCHANGED <<url_number, gone>>
    BY <1>15, <2>0, <2>2 DEF NextTargetMarkError, Fail, Drop, Due
  <2> QED BY <2>0, <2>1, <2>2
<1>16. ASSUME NEW t \in Threads, SkipDocument(t)
      PROVE  TypeOK' /\ LockInv'
  BY <1>16 DEF SkipDocument, Statuses
<1>17. ASSUME NEW t \in Threads, Download(t)
      PROVE  TypeOK' /\ LockInv'
  BY <1>17 DEF Download
<1>18. ASSUME NEW t \in Threads, ParseDocument(t)
      PROVE  TypeOK' /\ LockInv'
  <2>1. /\ pc[t] = "parse" /\ pc' = [pc EXCEPT ![t] = "store2"]
        /\ \E v \in {"good", "bad"} : verdict' = [verdict EXCEPT ![t] = v]
        /\ \E L \in SUBSET Urls : hrefs' = [hrefs EXCEPT ![ProcOf[t]] = @ \cup L]
        /\ UNCHANGED <<dbVars, targets, marking, lockOwner, url_number, gone, unseen, poolVars,
                       res, i_sleep, action, doc, docGone>>
    <3>1. Links[doc[t]] \in SUBSET Urls /\ hrefs = [hrefs EXCEPT ![ProcOf[t]] = @ \cup {}]
      BY <1>18 DEF ParseDocument
    <3> HIDE DEF TypeOK, LockInv
    <3> QED BY <1>18, <3>1 DEF ParseDocument, Statuses
  <2> QED BY <2>1
<1>19. ASSUME NEW t \in Threads, DocError(t)
      PROVE  TypeOK' /\ LockInv'
  BY <1>19 DEF DocError, Fail, Drop
<1>20. ASSUME NEW t \in Threads, UpdateDocument(t)
      PROVE  TypeOK' /\ LockInv'
  <2>1. PICK B \in BadHrefs(doc[t]) : DocUpdate(t, B)
    BY <1>20 DEF UpdateDocument
  <2>2. /\ doc[t] # NoUrl /\ pc[t] = "update" /\ pc' = [pc EXCEPT ![t] = "result"]
        /\ UNCHANGED <<targets, marking, lockOwner, url_number, hrefs, unseen, poolVars,
                       res, i_sleep, action>>
    BY <1>20 DEF UpdateDocument
  <2> HIDE DEF TypeOK
  <2>3. /\ next_index_time' \in [Urls -> {"none", "due", "later"}]
        /\ bad' \in SUBSET Urls
        /\ gone' \in [Procs -> SUBSET Urls]
        /\ \A p \in Procs : gone'[p] \subseteq targets'[p] \cup marking'[p]
        /\ doc' = [doc EXCEPT ![t] = NoUrl]
        /\ docGone' \in [Threads -> BOOLEAN]
        /\ verdict' = [verdict EXCEPT ![t] = "none"]
    BY <2>1, <2>2, UpdateTypes
  <2> QED BY <2>2, <2>3 DEF TypeOK
<1>21. ASSUME NEW t \in Threads, UpdateError(t)
      PROVE  TypeOK' /\ LockInv'
  <2>1. /\ doc[t] # NoUrl /\ pc[t] = "update" /\ pc' = [pc EXCEPT ![t] = "switch"]
        /\ res' = [res EXCEPT ![t] = "ERROR"]
        /\ UNCHANGED <<targets, marking, lockOwner, url_number, hrefs, unseen, poolVars,
                       i_sleep, action>>
    BY <1>21 DEF UpdateError
  <2>2. CASE Drop(t) /\ UNCHANGED <<dbVars, gone>>
    BY <2>1, <2>2 DEF Drop
  <2>3. ASSUME NEW B \in BadHrefs(doc[t]), DocUpdate(t, B)
        PROVE  TypeOK' /\ LockInv'
    <3> HIDE DEF TypeOK
    <3>1. /\ next_index_time' \in [Urls -> {"none", "due", "later"}]
          /\ bad' \in SUBSET Urls
          /\ gone' \in [Procs -> SUBSET Urls]
          /\ \A p \in Procs : gone'[p] \subseteq targets'[p] \cup marking'[p]
          /\ doc' = [doc EXCEPT ![t] = NoUrl]
          /\ docGone' \in [Threads -> BOOLEAN]
          /\ verdict' = [verdict EXCEPT ![t] = "none"]
      BY <2>1, <2>3, UpdateTypes
    <3> QED BY <2>1, <3>1 DEF TypeOK
  <2> QED BY <1>21, <2>2, <2>3 DEF UpdateError
<1>22. ASSUME NEW t \in Threads, TakeResult(t)
      PROVE  TypeOK' /\ LockInv'
  <2>1. /\ pc[t] = "result" /\ pc' = [pc EXCEPT ![t] = "switch"]
        /\ res' = [res EXCEPT ![t] = action[t]]
        /\ UNCHANGED <<dbVars, confVars, poolVars, i_sleep, action, doc, docGone, verdict>>
    BY <1>22 DEF TakeResult
  <2>2. TypeOK'
    <3> HIDE DEF TypeOK, LockInv
    <3>1. res' \in [Threads -> Results] /\ pc' \in [Threads -> PCs]
      BY <2>1 DEF TypeOK, Results, PCs
    <3>2. \A s \in Threads : doc'[s] # NoUrl <=> pc'[s] \in {"fetch", "parse", "store2", "update"}
      BY <2>1 DEF TypeOK, PCs
    <3> QED BY <2>1, <3>1, <3>2 DEF TypeOK, dbVars, confVars, poolVars
  <2>3. LockInv'
    BY <2>1
  <2> QED BY <2>2, <2>3
<1>23. ASSUME NEW t \in Threads, StoreHrefs(t) \/ StoreHrefsUnseen(t)
      PROVE  TypeOK' /\ LockInv'
  <2>1. \/ pc[t] = "store" /\ pc'[t] = "check"
        \/ pc[t] = "store2" /\ pc'[t] = "update"
    BY <1>23, StoreStep
  <2>2. pc' = [pc EXCEPT ![t] = pc'[t]]
    BY <1>23, StoreStep
  <2>3. CASE StoreHrefs(t)
    BY <2>1, <2>2, <2>3 DEF StoreHrefs, WithRows
  <2>4. CASE StoreHrefsUnseen(t)
    BY <2>1, <2>2, <2>4 DEF StoreHrefsUnseen
  <2> QED BY <1>23, <2>3, <2>4
<1>24. ASSUME NEW p \in Procs, StartCrawl(p)
      PROVE  TypeOK' /\ LockInv'
  BY <1>24 DEF StartCrawl, WithRows
<1>25. ASSUME NEW p \in Procs, CountThread(p)
      PROVE  TypeOK' /\ LockInv'
  BY <1>25 DEF CountThread
<1>26. ASSUME NEW p \in Procs, Signal(p)
      PROVE  TypeOK' /\ LockInv'
  BY <1>26 DEF Signal, Running
<1>27. ASSUME NEW p \in Procs, Crash(p)
      PROVE  TypeOK' /\ LockInv'
  BY <1>27 DEF Crash, Running
<1>28. ASSUME NEW u \in Urls, PeriodElapses(u)
      PROVE  TypeOK' /\ LockInv'
  BY <1>28 DEF PeriodElapses
<1>29. ASSUME NEW u \in Urls, LeaseElapses(u)
      PROVE  TypeOK' /\ LockInv'
  BY <1>29 DEF LeaseElapses
<1>30. CASE UNCHANGED vars
  BY <1>30 DEF vars
<1> QED
  <2> HIDE DEF TypeOK, LockInv
  <2> QED
    BY <1>1, <1>2, <1>3, <1>4, <1>5, <1>6, <1>7, <1>8, <1>9, <1>10, <1>11, <1>12,
       <1>13, <1>14, <1>15, <1>16, <1>17, <1>18, <1>19, <1>20, <1>21, <1>22, <1>23, <1>24, <1>25, <1>26, <1>27, <1>28, <1>29, <1>30
       DEF Next, ThreadStep, IndexNextURL, Finished

\* The conditions of the no-double-crawling theorem: every target is dealt
\* with within URL_LOCK_TIME, the UPDATE that leases rows does not fail ...
LeasesKept == {"leaseElapses", "markError"} \cap Events = {}

\* ... and several processes neither use URLSelectSkipLock nor indexer -a.
LocksTaken == SkipLock \/ "expire" \in Events => \A p, q \in Procs : p = q

\* Nothing is held when the crawler starts.
LEMMA LeaseInit == Init => LeaseInv
BY NobodyAssumption DEF Init, LeaseInv, NoDoubleCrawl, Held, Holds, Caches

\* Rows between SELECT and UPDATE belong to a thread of their process.
LEMMA MarkingOwner ==
    ASSUME TypeOK, LockInv, NEW p \in Procs, marking[p] # {}
    PROVE  \E t \in Threads : pc[t] = "mark" /\ ProcOf[t] = p
<1>1. lockOwner[p] # NoThread
  BY DEF LockInv
<1>2. lockOwner[p] \in Threads
  BY <1>1 DEF TypeOK
<1>3. ProcOf[lockOwner[p]] = p
  BY <1>1 DEF LockInv
<1>4. pc[lockOwner[p]] = "mark"
  BY <1>2, <1>3 DEF LockInv
<1> QED BY <1>2, <1>3, <1>4

\* A step that takes no URL into use keeps LeaseInv when it leaves the rows
\* in use alone and deletes none of them.
LEMMA LeaseRelease ==
    ASSUME LeaseInv,
           \A t \in Threads, u \in Urls : Holds(t, u)' => Holds(t, u),
           \A p \in Procs, u \in Urls : Caches(p, u)' => Caches(p, u),
           \A u \in Urls : Held(u) /\ next_index_time[u] = "later" => next_index_time'[u] = "later",
           \A p \in Procs : \A u \in marking'[p] \ gone'[p] : next_index_time'[u] = "due",
           \A p \in Procs : gone'[p] \subseteq gone[p],
           \A t \in Threads : docGone'[t] => docGone[t]
    PROVE  LeaseInv'
<1>1. \A u \in Urls : Held(u)' => Held(u)
  BY DEF Held
<1>2. \A u \in Urls : Held(u)' => next_index_time'[u] = "later"
  BY <1>1 DEF LeaseInv
<1>3. NoDoubleCrawl'
  BY DEF LeaseInv, NoDoubleCrawl
<1> QED BY <1>2, <1>3 DEF LeaseInv

\* HandOut of a row of S and the lease of those that are still there: they
\* were due, so nobody had them.
LEMMA LeaseHandOut ==
    ASSUME TypeOK, LeaseInv, NEW t \in Threads, NEW S \in SUBSET Urls, NEW u \in S,
           HandOut(t, S, u), next_index_time' = Leased(S \ gone[ProcOf[t]]),
           S \ gone[ProcOf[t]] \subseteq Due,
           \A p \in Procs : \A x \in marking'[p] \ gone'[p] : next_index_time'[x] = "due"
    PROVE  LeaseInv'
<1> USE ProcOfAssumption, NobodyAssumption
<1> DEFINE L == S \ gone[ProcOf[t]]
<1>1. u \in Urls /\ L \in SUBSET Urls /\ L \subseteq Due
  OBVIOUS
<1>2. \A x \in L : next_index_time'[x] = "later"
  BY <1>1 DEF Leased, Due
<1>3. \A x \in Urls : next_index_time[x] = "later" => next_index_time'[x] = "later"
  BY DEF Leased
<1>4. \A x \in L : ~Held(x)
  BY <1>1 DEF LeaseInv, Due
<1>5. \A s \in Threads, x \in Urls :
        Holds(s, x)' => (s = t /\ x = u /\ u \in L) \/ (s # t /\ Holds(s, x))
  <2>1. \A s \in Threads : s # t => doc'[s] = doc[s] /\ docGone'[s] = docGone[s]
    BY DEF HandOut, TypeOK
  <2>2. doc'[t] = u /\ docGone'[t] = (u \in gone[ProcOf[t]])
    BY DEF HandOut, TypeOK
  <2> QED BY <2>1, <2>2 DEF Holds
<1>6. \A p \in Procs, x \in Urls :
        Caches(p, x)' => \/ p = ProcOf[t] /\ x \in L /\ x # u
                         \/ p # ProcOf[t] /\ Caches(p, x)
  <2>1. \A p \in Procs : p # ProcOf[t] => targets'[p] = targets[p] /\ gone'[p] = gone[p]
    BY DEF HandOut, TypeOK
  <2>2. targets'[ProcOf[t]] = S \ {u} /\ gone'[ProcOf[t]] = gone[ProcOf[t]] \ {u}
    BY DEF HandOut, TypeOK
  <2> QED BY <2>1, <2>2 DEF Caches
<1>7. ASSUME ~HoldBadHrefs
      PROVE  (\A p \in Procs : gone'[p] = {}) /\ (\A s \in Threads : ~docGone'[s])
  <2>1. (\A p \in Procs : gone[p] = {}) /\ (\A s \in Threads : ~docGone[s])
    BY <1>7 DEF LeaseInv, NoDoubleCrawl
  <2>2. \A s \in Threads : s # t => docGone'[s] = docGone[s]
    BY DEF HandOut, TypeOK
  <2>3. docGone'[t] = (u \in gone[ProcOf[t]])
    BY DEF HandOut, TypeOK
  <2>4. \A p \in Procs : gone'[p] \subseteq gone[p]
    BY DEF HandOut, TypeOK
  <2> QED BY <2>1, <2>2, <2>3, <2>4
<1> HIDE DEF L
<1>8. \A x \in Urls : Held(x)' => next_index_time'[x] = "later"
  <2>1. ASSUME NEW x \in Urls, NEW s \in Threads, Holds(s, x)' PROVE next_index_time'[x] = "later"
    <3>1. CASE s = t /\ x = u /\ u \in L
      BY <1>2, <3>1
    <3>2. CASE Holds(s, x)
      BY <1>3, <3>2 DEF Held, LeaseInv
    <3> QED BY <1>5, <2>1, <3>1, <3>2
  <2>2. ASSUME NEW x \in Urls, NEW p \in Procs, Caches(p, x)' PROVE next_index_time'[x] = "later"
    <3>1. CASE x \in L
      BY <1>2, <3>1
    <3>2. CASE Caches(p, x)
      BY <1>3, <3>2 DEF Held, LeaseInv
    <3> QED BY <1>6, <2>2, <3>1, <3>2
  <2> QED BY <2>1, <2>2 DEF Held
<1>9. \A s \in Threads, x \in L : ~Holds(s, x)
  BY <1>4 DEF Held
<1>10. \A p \in Procs, x \in L : ~Caches(p, x)
  BY <1>4 DEF Held
<1>11. NoDoubleCrawl'
  BY <1>1, <1>5, <1>6, <1>7, <1>9, <1>10 DEF LeaseInv, NoDoubleCrawl
<1> QED BY <1>8, <1>11 DEF LeaseInv

\* The rows DocUpdate deletes are taken from whoever had them, and the row it
\* writes is its thread's own.
LEMMA LeaseUpdate ==
    ASSUME TypeOK, LeaseInv, NEW t \in Threads, doc[t] # NoUrl,
           NEW B \in BadHrefs(doc[t]), DocUpdate(t, B), UNCHANGED <<targets, marking>>
    PROVE  LeaseInv'
<1> USE NobodyAssumption
<1> DEFINE deleted == B \cup (IF verdict[t] = "delete" THEN OwnRow(t) ELSE {})
<1>1. /\ next_index_time' = [u \in Urls |-> IF u \in deleted THEN "none" ELSE Leased(OwnRow(t))[u]]
      /\ gone' = [p \in Procs |-> gone[p] \cup (deleted \cap (targets[p] \cup marking[p]))]
      /\ doc' = [doc EXCEPT ![t] = NoUrl]
      /\ docGone' = [s \in Threads |-> s # t /\ (docGone[s] \/ doc[s] \in deleted)]
  BY DEF DocUpdate
<1>2. doc[t] \in Urls
  BY DEF TypeOK
<1>3. ~HoldBadHrefs => deleted \subseteq OwnRow(t)
  BY DEF BadHrefs
<1> HIDE DEF deleted
<1>4. \A s \in Threads, u \in Urls : Holds(s, u)' => s # t /\ Holds(s, u) /\ u \notin deleted
  BY <1>1 DEF Holds, TypeOK
<1>5. \A p \in Procs, u \in Urls : Caches(p, u)' => Caches(p, u) /\ u \notin deleted
  BY <1>1 DEF Caches, TypeOK
<1>6. \A u \in Urls : u \notin deleted /\ next_index_time[u] = "later" => next_index_time'[u] = "later"
  BY <1>1 DEF Leased
<1>7. ASSUME NEW u \in Urls, Held(u)' PROVE next_index_time'[u] = "later"
  BY <1>4, <1>5, <1>6, <1>7 DEF Held, LeaseInv
<1>8. \A u \in OwnRow(t) : u = doc[t] /\ Holds(t, u) /\ Held(u) /\ next_index_time[u] = "later"
  BY <1>2 DEF OwnRow, Holds, Held, LeaseInv
<1>9. ASSUME NEW p \in Procs, NEW u \in marking'[p] \ gone'[p]
      PROVE  next_index_time'[u] = "due"
  <2>1. u \in Urls /\ u \in marking[p] \ gone[p] /\ u \notin deleted
    BY <1>1, <1>9 DEF TypeOK
  <2>2. next_index_time[u] = "due" /\ u \notin OwnRow(t)
    BY <1>8, <2>1 DEF LeaseInv
  <2> QED BY <1>1, <2>1, <2>2 DEF Leased
<1>10. ASSUME ~HoldBadHrefs
       PROVE  (\A p \in Procs : gone'[p] = {}) /\ (\A s \in Threads : ~docGone'[s])
  <2>1. (\A p \in Procs : gone[p] = {}) /\ (\A s \in Threads : ~docGone[s])
    BY <1>10 DEF LeaseInv, NoDoubleCrawl
  <2>2. ASSUME NEW p \in Procs, NEW u \in deleted PROVE u \notin targets[p] /\ u \notin marking[p]
    <3>1. Holds(t, u) /\ u \in Urls /\ next_index_time[u] = "later"
      BY <1>2, <1>3, <1>8, <1>10, <2>2
    <3>2. ~Caches(p, u)
      BY <3>1 DEF LeaseInv, NoDoubleCrawl
    <3>3. u \notin marking[p]
      BY <2>1, <3>1 DEF LeaseInv
    <3> QED BY <2>1, <3>2, <3>3 DEF Caches
  <2>3. ASSUME NEW s \in Threads, s # t PROVE doc[s] \notin deleted
    <3>1. ASSUME doc[s] \in deleted PROVE FALSE
      <4>1. doc[s] = doc[t] /\ Holds(t, doc[t])
        BY <1>3, <1>8, <1>10, <3>1
      <4>2. Holds(s, doc[t])
        BY <2>1, <4>1 DEF Holds
      <4> QED BY <1>2, <2>3, <4>1, <4>2 DEF LeaseInv, NoDoubleCrawl
    <3> QED BY <3>1
  <2>4. \A p \in Procs : gone'[p] = {}
    BY <1>1, <2>1, <2>2
  <2>5. \A s \in Threads : ~docGone'[s]
    BY <1>1, <2>1, <2>3
  <2> QED BY <2>4, <2>5
<1>11. NoDoubleCrawl'
  <2>1. \A u \in Urls :
          /\ \A s, r \in Threads : Holds(s, u)' /\ Holds(r, u)' => s = r
          /\ \A p, q \in Procs : Caches(p, u)' /\ Caches(q, u)' => p = q
          /\ \A s \in Threads, p \in Procs : ~(Holds(s, u)' /\ Caches(p, u)')
    BY <1>4, <1>5 DEF LeaseInv, NoDoubleCrawl
  <2> QED BY <1>10, <2>1 DEF NoDoubleCrawl
<1> QED BY <1>7, <1>9, <1>11 DEF LeaseInv

\* Every action keeps the leases.  Only NextTargetLoad and NextTargetMark take
\* URLs into use (LeaseHandOut) and only DocUpdate deletes rows (LeaseUpdate);
\* the others release URLs or leave them alone.
LEMMA LeaseNext ==
    ASSUME LeasesKept, LocksTaken, TypeOK, LockInv, LeaseInv, [Next]_vars
    PROVE  LeaseInv'
<1> USE ProcOfAssumption, NobodyAssumption
<1>1. ASSUME UNCHANGED <<next_index_time, targets, marking, gone, doc, docGone>>
      PROVE  LeaseInv'
  BY <1>1 DEF LeaseInv, NoDoubleCrawl, Held, Holds, Caches
<1>2. ASSUME NEW t \in Threads,
             \/ CreateThread(t) \/ LoopTop(t) \/ TimeUp(t) \/ SwitchRes(t)
             \/ TestDone(t) \/ ExitThread(t) \/ CheckAction(t) \/ NextTargetNone(t)
             \/ SkipDocument(t) \/ Download(t) \/ ParseDocument(t) \/ TakeResult(t)
             \/ StoreHrefsUnseen(t)
      PROVE  LeaseInv'
  <2>1. UNCHANGED <<next_index_time, targets, marking, gone, doc, docGone>>
    BY <1>2 DEF CreateThread, LoopTop, TimeUp, SwitchRes, TestDone, ExitThread,
                CheckAction, NextTargetNone, SkipDocument, Download, ParseDocument,
                TakeResult, StoreHrefsUnseen, dbVars, confVars, poolVars, threadVars
  <2> QED BY <1>1, <2>1
<1>3. ASSUME NEW p \in Procs, CountThread(p) \/ Signal(p)
      PROVE  LeaseInv'
  <2>1. UNCHANGED <<next_index_time, targets, marking, gone, doc, docGone>>
    BY <1>3 DEF CountThread, Signal, dbVars, confVars, poolVars, threadVars
  <2> QED BY <1>1, <2>1
<1>4. ASSUME NEW t \in Threads, NEW S \in SUBSET Urls,
             next_index_time' = WithRows(S) \/ next_index_time' = next_index_time,
             UNCHANGED <<targets, marking, gone>>,
             \/ UNCHANGED <<doc, docGone>>
             \/ doc' = [doc EXCEPT ![t] = NoUrl] /\ docGone' = [docGone EXCEPT ![t] = FALSE]
      PROVE  LeaseInv'
  <2>1. \A s \in Threads, u \in Urls : Holds(s, u)' => Holds(s, u)
    BY <1>4 DEF TypeOK, Holds
  <2>2. \A u \in Urls : next_index_time[u] # "none" => next_index_time'[u] = next_index_time[u]
    BY <1>4 DEF WithRows
  <2>3. \A p \in Procs : \A u \in marking'[p] \ gone'[p] : next_index_time'[u] = "due"
    BY <1>4, <2>2 DEF TypeOK, LeaseInv
  <2>4. \A p \in Procs, u \in Urls : Caches(p, u)' => Caches(p, u)
    BY <1>4 DEF Caches
  <2>5. (\A p \in Procs : gone'[p] \subseteq gone[p]) /\ (\A s \in Threads : docGone'[s] => docGone[s])
    BY <1>4 DEF TypeOK
  <2> QED BY <2>1, <2>2, <2>3, <2>4, <2>5, LeaseRelease
<1>5. ASSUME NEW t \in Threads, StoreHrefs(t) \/ StoreHrefsError(t)
      PROVE  LeaseInv'
  BY <1>4, <1>5 DEF StoreHrefs, StoreHrefsError, Fail, Drop, TypeOK
<1>6. ASSUME NEW t \in Threads, NextTargetError(t) \/ DocError(t)
      PROVE  LeaseInv'
  <2>1. /\ UNCHANGED <<next_index_time, targets, marking, gone>>
        /\ \/ UNCHANGED <<doc, docGone>>
           \/ doc' = [doc EXCEPT ![t] = NoUrl] /\ docGone' = [docGone EXCEPT ![t] = FALSE]
    BY <1>6 DEF NextTargetError, DocError, Fail, Drop, dbVars, confVars
  <2> QED BY <1>4, <2>1
<1>7. ASSUME NEW t \in Threads, NextTargetCached(t)
      PROVE  LeaseInv'
  <2>1. PICK u \in targets[ProcOf[t]] : HandOut(t, targets[ProcOf[t]], u)
    BY <1>7 DEF NextTargetCached
  <2>2. UNCHANGED <<next_index_time, marking>> /\ marking[ProcOf[t]] = {}
    BY <1>7 DEF NextTargetCached, dbVars, LockFree, LockInv
  <2>3. \A s \in Threads, x \in Urls :
          Holds(s, x)' => \/ s = t /\ x = u /\ Caches(ProcOf[t], x)
                          \/ s # t /\ Holds(s, x)
    <3>1. \A s \in Threads : s # t => doc'[s] = doc[s] /\ docGone'[s] = docGone[s]
      BY <2>1 DEF HandOut, TypeOK
    <3>2. doc'[t] = u /\ docGone'[t] = (u \in gone[ProcOf[t]])
      BY <2>1 DEF HandOut, TypeOK
    <3> QED BY <3>1, <3>2 DEF Holds, Caches
  <2>4. \A p \in Procs, x \in Urls : Caches(p, x)' => Caches(p, x) /\ ~(p = ProcOf[t] /\ x = u)
    BY <2>1 DEF HandOut, Caches, TypeOK
  <2>5. \A p \in Procs : \A x \in marking'[p] \ gone'[p] : next_index_time'[x] = "due"
    BY <2>1, <2>2 DEF HandOut, TypeOK, LeaseInv
  <2>6. ~HoldBadHrefs => (\A p \in Procs : gone'[p] = {}) /\ (\A s \in Threads : ~docGone'[s])
    BY <2>1 DEF HandOut, LeaseInv, NoDoubleCrawl, TypeOK
  <2>7. \A x \in Urls : Held(x)' => next_index_time'[x] = "later"
    BY <2>2, <2>3, <2>4 DEF Held, LeaseInv
  <2>8. \A x \in Urls :
          /\ \A s, r \in Threads : Holds(s, x)' /\ Holds(r, x)' => s = r
          /\ \A p, q \in Procs : Caches(p, x)' /\ Caches(q, x)' => p = q
          /\ \A s \in Threads, p \in Procs : ~(Holds(s, x)' /\ Caches(p, x)')
    <3> SUFFICES ASSUME NEW x \in Urls
                 PROVE  /\ \A s, r \in Threads : Holds(s, x)' /\ Holds(r, x)' => s = r
                        /\ \A p, q \in Procs : Caches(p, x)' /\ Caches(q, x)' => p = q
                        /\ \A s \in Threads, p \in Procs : ~(Holds(s, x)' /\ Caches(p, x)')
      OBVIOUS
    <3> QED BY <2>3, <2>4 DEF LeaseInv, NoDoubleCrawl
  <2> QED BY <2>5, <2>6, <2>7, <2>8 DEF LeaseInv, NoDoubleCrawl
<1>8. ASSUME NEW t \in Threads, NextTargetLoad(t)
      PROVE  LeaseInv'
  <2>1. PICK S \in SUBSET Due : next_index_time' = Leased(S) /\ \E u \in S : HandOut(t, S, u)
    BY <1>8 DEF NextTargetLoad, Batches
  <2>2. PICK u \in S : HandOut(t, S, u)
    BY <2>1
  <2>3. \A p \in Procs : marking[p] = {}
    BY <1>8, MarkingOwner DEF NextTargetLoad, LockInv
  <2>4. \A p \in Procs : \A x \in marking'[p] \ gone'[p] : next_index_time'[x] = "due"
    BY <1>8, <2>3 DEF NextTargetLoad
  <2>5. S \in SUBSET Urls /\ S \ gone[ProcOf[t]] = S
    BY <1>8, <2>3 DEF NextTargetLoad, TypeOK, Due
  <2> QED BY <2>1, <2>2, <2>4, <2>5, LeaseHandOut
<1>9. ASSUME NEW t \in Threads, NextTargetSelect(t)
      PROVE  LeaseInv'
  <2>1. PICK S \in SUBSET Due : marking' = [marking EXCEPT ![ProcOf[t]] = S]
    BY <1>9 DEF NextTargetSelect, Batches
  <2>2. UNCHANGED <<next_index_time, targets, gone, doc, docGone>>
    BY <1>9 DEF NextTargetSelect, dbVars
  <2>3. \A p \in Procs : \A u \in marking'[p] \ gone'[p] : next_index_time'[u] = "due"
    BY <2>1, <2>2 DEF TypeOK, LeaseInv, Due
  <2> QED BY <2>2, <2>3 DEF LeaseInv, NoDoubleCrawl, Held, Holds, Caches
<1>10. ASSUME NEW t \in Threads, NextTargetMark(t)
       PROVE  LeaseInv'
  <2> DEFINE S == marking[ProcOf[t]]
  <2>1. S \in SUBSET Urls /\ S \ gone[ProcOf[t]] \subseteq Due
    BY DEF TypeOK, Due, LeaseInv
  <2>2. PICK u \in S : HandOut(t, S, u)
    BY <1>10 DEF NextTargetMark
  <2>3. next_index_time' = Leased(S \ gone[ProcOf[t]])
    BY <1>10 DEF NextTargetMark
  <2>4. \A p \in Procs : p = ProcOf[t]
    BY <1>10 DEF NextTargetMark, LockInv, LocksTaken
  <2>5. \A p \in Procs : marking'[p] = {}
    BY <1>10, <2>4 DEF NextTargetMark, TypeOK
  <2> HIDE DEF S
  <2> QED BY <2>1, <2>2, <2>3, <2>5, LeaseHandOut
<1>11. ASSUME NEW t \in Threads, NextTargetMarkError(t)
       PROVE  LeaseInv'
  BY <1>11 DEF NextTargetMarkError, LeasesKept
<1>12. ASSUME NEW t \in Threads, UpdateDocument(t) \/ UpdateError(t)
       PROVE  LeaseInv'
  <2>1. doc[t] # NoUrl /\ UNCHANGED <<targets, marking>>
    BY <1>12 DEF UpdateDocument, UpdateError, TypeOK
  <2>2. CASE Drop(t) /\ UNCHANGED <<dbVars, gone>>
    BY <1>4, <2>1, <2>2 DEF Drop, dbVars
  <2>3. CASE \E B \in BadHrefs(doc[t]) : DocUpdate(t, B)
    BY <2>1, <2>3, LeaseUpdate
  <2> QED BY <1>12, <2>2, <2>3 DEF UpdateDocument, UpdateError
<1>13. ASSUME NEW p \in Procs, StartCrawl(p)
       PROVE  LeaseInv'
  <2>1. UNCHANGED <<targets, marking, gone, doc, docGone>>
    BY <1>13 DEF StartCrawl, confVars, threadVars
  <2>2. CASE next_index_time' = WithRows(StartUrls)
    <3>1. \A u \in Urls : next_index_time[u] # "none" => next_index_time'[u] = next_index_time[u]
      BY <2>2 DEF WithRows
    <3>2. \A q \in Procs : \A u \in marking'[q] \ gone'[q] : next_index_time'[u] = "due"
      BY <2>1, <3>1 DEF TypeOK, LeaseInv
    <3> QED BY <2>1, <3>1, <3>2 DEF LeaseInv, NoDoubleCrawl, Held, Holds, Caches
  <2>3. CASE "expire" \in Events
    <3>1. \A q \in Procs : q = p
      BY <2>3 DEF LocksTaken
    <3>2. /\ targets[p] = {}
          /\ \A t \in Threads : pc[t] = "new"
      BY <1>13, <3>1 DEF StartCrawl, LockInv, ThreadsOf
    <3>3. \A t \in Threads : doc[t] = NoUrl
      BY <3>2 DEF TypeOK
    <3>4. marking[p] = {}
      BY <3>2, MarkingOwner
    <3> QED BY <2>1, <3>1, <3>2, <3>3, <3>4 DEF LeaseInv, NoDoubleCrawl, Held, Holds, Caches
  <2> QED BY <1>13, <2>2, <2>3 DEF StartCrawl
<1>14. ASSUME NEW p \in Procs, Crash(p)
       PROVE  LeaseInv'
  <2>1. /\ UNCHANGED next_index_time
        /\ targets' = [targets EXCEPT ![p] = {}] /\ marking' = [marking EXCEPT ![p] = {}]
        /\ gone' = [gone EXCEPT ![p] = {}]
        /\ doc' = [t \in Threads |-> IF ProcOf[t] = p THEN NoUrl ELSE doc[t]]
        /\ docGone' = [t \in Threads |-> ProcOf[t] # p /\ docGone[t]]
    BY <1>14 DEF Crash, dbVars
  <2>2. \A s \in Threads, u \in Urls : Holds(s, u)' => Holds(s, u)
    BY <2>1 DEF TypeOK, Holds
  <2>3. \A q \in Procs, u \in Urls : Caches(q, u)' => Caches(q, u)
    BY <2>1 DEF TypeOK, Caches
  <2>4. \A q \in Procs : \A u \in marking'[q] \ gone'[q] : next_index_time'[u] = "due"
    BY <2>1 DEF TypeOK, LeaseInv
  <2>5. (\A q \in Procs : gone'[q] \subseteq gone[q]) /\ (\A s \in Threads : docGone'[s] => docGone[s])
    BY <2>1 DEF TypeOK
  <2> QED BY <2>1, <2>2, <2>3, <2>4, <2>5, LeaseRelease
<1>15. ASSUME NEW u \in Urls, PeriodElapses(u)
       PROVE  LeaseInv'
  <2>1. /\ next_index_time' = [next_index_time EXCEPT ![u] = "due"] /\ ~Held(u)
        /\ UNCHANGED <<targets, marking, gone, doc, docGone>>
    BY <1>15 DEF PeriodElapses, confVars, threadVars
  <2>2. \A x \in Urls : Held(x)' <=> Held(x)
    BY <2>1 DEF Held, Holds, Caches
  <2>3. \A x \in Urls : Held(x)' => next_index_time'[x] = "later"
    BY <2>1, <2>2 DEF LeaseInv, TypeOK
  <2>4. \A p \in Procs : \A x \in marking'[p] \ gone'[p] : next_index_time'[x] = "due"
    BY <2>1 DEF LeaseInv, TypeOK
  <2> QED BY <2>1, <2>3, <2>4 DEF LeaseInv, NoDoubleCrawl, Holds, Caches
<1>16. ASSUME NEW u \in Urls, LeaseElapses(u)
       PROVE  LeaseInv'
  BY <1>16 DEF LeaseElapses, LeasesKept
<1>17. CASE UNCHANGED vars
  BY <1>1, <1>17 DEF vars, dbVars, confVars, threadVars
<1> QED BY <1>2, <1>3, <1>5, <1>6, <1>7, <1>8, <1>9, <1>10, <1>11, <1>12, <1>13,
           <1>14, <1>15, <1>16, <1>17
        DEF Next, ThreadStep, IndexNextURL, Finished

\* Every state of the crawler has the expected shape, and the locks of a
\* process are held exactly by the thread inside UdmTargetsSQL.
THEOREM CrawlerTypeOK == Spec => [](TypeOK /\ LockInv)
<1>1. Init => TypeOK /\ LockInv
  BY TypeInit
<1>2. TypeOK /\ LockInv /\ [Next]_vars => (TypeOK /\ LockInv)'
  BY TypeNext
<1> QED BY <1>1, <1>2, PTL DEF Spec

\* The row of every URL in use is leased, and what UdmTargetsSQL has selected
\* and not yet leased is in nobody's hands (sql.c:3061-3200).
THEOREM CrawlerLeases ==
    ASSUME LeasesKept, LocksTaken
    PROVE  Spec => []LeaseInv
<1>1. Init => LeaseInv
  BY LeaseInit
<1>2. TypeOK /\ LockInv /\ LeaseInv /\ [Next]_vars => LeaseInv'
  BY LeaseNext
<1> QED BY CrawlerTypeOK, <1>1, <1>2, PTL DEF Spec

\* No row is with two threads or processes at the same time, whatever the
\* number of threads and processes and whatever fails or crashes: UdmTargets
\* leases a row to one process and UdmNextTarget gives it to one thread.
\* Without HoldBadHrefs no row in use is deleted, and no URL is crawled twice
\* at the same time; with it UdmDeleteBadHrefs may delete a row in use.
THEOREM CrawlerNoDoubleCrawl ==
    ASSUME LeasesKept, LocksTaken
    PROVE  Spec => []NoDoubleCrawl
<1>1. LeaseInv => NoDoubleCrawl
  BY DEF LeaseInv
<1> QED BY CrawlerLeases, <1>1, PTL

-----------------------------------------------------------------------------
(* The crawler implements module LeasedQueue.                              *)

\* Taken of LeasedQueue is Held of the crawler.
LEMMA TakenHeld == \A u \in Urls : Queue!Taken(u) <=> Held(u)
BY NobodyAssumption DEF Queue!Taken, Held, Holds, Caches, Waiting, Work

\* Threads and processes that keep what they have, and whose rows nobody
\* deletes, do not change the variables of LeasedQueue.
LEMMA SameQueue ==
    ASSUME UNCHANGED <<targets, gone, doc, docGone>>
    PROVE  Waiting' = Waiting /\ Work' = Work
BY DEF Waiting, Work

\* Rows that change only by becoming due, and that nobody has, do in
\* LeasedQueue what they do in the table.
LEMMA DueStep ==
    ASSUME TypeOK,
           next_index_time' \in [Urls -> {"none", "due", "later"}],
           \A u \in Urls : \/ next_index_time'[u] = next_index_time[u]
                           \/ next_index_time'[u] = "due" /\ ~Held(u)
    PROVE  \E S \in SUBSET Urls : Queue!BecomeDue(S)
<1> DEFINE S == {u \in Urls : next_index_time'[u] # next_index_time[u]}
<1>1. S \in SUBSET Urls /\ \A u \in S : ~Queue!Taken(u)
  BY TakenHeld
<1>2. next_index_time' = [u \in Urls |-> IF u \in S THEN "due" ELSE next_index_time[u]]
  OBVIOUS
<1> QED BY <1>1, <1>2 DEF Queue!BecomeDue

\* New rows are nobody's: a URL in use has a row.
LEMMA RowsStep ==
    ASSUME TypeOK, LeaseInv, NEW S \in SUBSET Urls, next_index_time' = WithRows(S)
    PROVE  \E R \in SUBSET Urls : Queue!BecomeDue(R)
<1>1. next_index_time' \in [Urls -> {"none", "due", "later"}]
  BY DEF WithRows, TypeOK
<1>2. ASSUME NEW u \in Urls, next_index_time'[u] # next_index_time[u]
      PROVE  next_index_time'[u] = "due" /\ ~Held(u)
  BY <1>2 DEF WithRows, LeaseInv
<1> QED BY <1>1, <1>2, DueStep

\* What HandOut of row u of S does to the variables of LeasedQueue.
LEMMA HandOutQueue ==
    ASSUME TypeOK, NEW t \in Threads, NEW S \in SUBSET Urls, NEW u \in S, HandOut(t, S, u)
    PROVE  LET L == S \ gone[ProcOf[t]] IN
           /\ Waiting' = [Waiting EXCEPT ![ProcOf[t]] = L \ {u}]
           /\ Work' = [Work EXCEPT ![t] = IF u \in L THEN u ELSE NoUrl]
<1> USE ProcOfAssumption
<1> DEFINE p == ProcOf[t]
           L == S \ gone[p]
<1>1. /\ targets' = [targets EXCEPT ![p] = S \ {u}]
      /\ gone' = [gone EXCEPT ![p] = gone[p] \ {u}]
      /\ doc' = [doc EXCEPT ![t] = u]
      /\ docGone' = [docGone EXCEPT ![t] = u \in gone[p]]
  BY DEF HandOut
<1>2. p \in Procs
  OBVIOUS
<1>3. Waiting' = [q \in Procs |-> targets'[q] \ gone'[q]]
      /\ Work' = [s \in Threads |-> IF docGone'[s] THEN NoUrl ELSE doc'[s]]
  BY DEF Waiting, Work
<1>4. \A q \in Procs : targets'[q] \ gone'[q] = IF q = p THEN L \ {u} ELSE targets[q] \ gone[q]
  <2>1. targets'[p] = S \ {u} /\ gone'[p] = gone[p] \ {u}
    BY <1>1, <1>2 DEF TypeOK
  <2>2. \A q \in Procs : q # p => targets'[q] = targets[q] /\ gone'[q] = gone[q]
    BY <1>1 DEF TypeOK
  <2> QED BY <2>1, <2>2
<1>5. \A s \in Threads : (IF docGone'[s] THEN NoUrl ELSE doc'[s])
                         = IF s = t THEN (IF u \in L THEN u ELSE NoUrl)
                           ELSE IF docGone[s] THEN NoUrl ELSE doc[s]
  <2>1. doc'[t] = u /\ docGone'[t] = (u \in gone[p])
    BY <1>1 DEF TypeOK
  <2>2. \A s \in Threads : s # t => doc'[s] = doc[s] /\ docGone'[s] = docGone[s]
    BY <1>1 DEF TypeOK
  <2> QED BY <2>1, <2>2
<1> HIDE DEF L, p
<1>6. Waiting' = [Waiting EXCEPT ![p] = L \ {u}]
  BY <1>2, <1>3, <1>4 DEF Waiting
<1>7. Work' = [Work EXCEPT ![t] = IF u \in L THEN u ELSE NoUrl]
  BY <1>3, <1>5 DEF Work
<1> QED BY <1>6, <1>7 DEF L, p

\* HandOut and the lease of the rows S that are still there are one Take: they
\* were due, so that nobody had them.
LEMMA TakeStep ==
    ASSUME TypeOK, LeaseInv, NEW t \in Threads, NEW S \in SUBSET Urls, NEW u \in S,
           HandOut(t, S, u), next_index_time' = Leased(S \ gone[ProcOf[t]]),
           S \ gone[ProcOf[t]] \subseteq Due,
           doc[t] = NoUrl, targets[ProcOf[t]] = {}
    PROVE  Queue!Next
<1> USE ProcOfAssumption, NobodyAssumption
<1> DEFINE L == S \ gone[ProcOf[t]]
           v == IF u \in L THEN u ELSE NoUrl
<1>1. L \in SUBSET Urls /\ L \subseteq Due /\ v \in L \cup {NoUrl} /\ L \ {u} = L \ {v}
  OBVIOUS
<1>2. Waiting' = [Waiting EXCEPT ![ProcOf[t]] = L \ {u}] /\ Work' = [Work EXCEPT ![t] = v]
  BY HandOutQueue
<1>3. Work[t] = NoUrl /\ Waiting[ProcOf[t]] = {}
  BY DEF Work, Waiting
<1>4. next_index_time' = Leased(L)
  OBVIOUS
<1> HIDE DEF L, v
<1>5. \A x \in L : next_index_time[x] = "due" /\ ~Queue!Taken(x)
  BY <1>1, TakenHeld DEF Due, LeaseInv
<1>6. next_index_time' = [x \in Urls |-> IF x \in L THEN "later" ELSE next_index_time[x]]
  BY <1>4, <1>5 DEF Leased
<1>7. Waiting' = [Waiting EXCEPT ![ProcOf[t]] = L \ {v}]
  BY <1>1, <1>2
<1>8. Queue!Take(t, L, v)
  BY <1>2, <1>3, <1>5, <1>6, <1>7 DEF Queue!Take
<1> QED BY <1>1, <1>8 DEF Queue!Next

\* DocUpdate is Done with the rows it deletes.
LEMMA DoneStep ==
    ASSUME TypeOK, LeaseInv, NEW t \in Threads, doc[t] # NoUrl,
           NEW B \in BadHrefs(doc[t]), DocUpdate(t, B), UNCHANGED <<targets, marking>>
    PROVE  Queue!Next
<1> USE NobodyAssumption
<1> DEFINE deleted == B \cup (IF verdict[t] = "delete" THEN OwnRow(t) ELSE {})
<1>1. /\ next_index_time' = [u \in Urls |-> IF u \in deleted THEN "none" ELSE Leased(OwnRow(t))[u]]
      /\ gone' = [p \in Procs |-> gone[p] \cup (deleted \cap (targets[p] \cup marking[p]))]
      /\ doc' = [doc EXCEPT ![t] = NoUrl]
      /\ docGone' = [s \in Threads |-> s # t /\ (docGone[s] \/ doc[s] \in deleted)]
  BY DEF DocUpdate
<1>2. doc[t] \in Urls /\ OwnRow(t) \in SUBSET Urls
  BY DEF TypeOK, OwnRow
<1>3. deleted \in SUBSET Urls
  BY <1>2 DEF BadHrefs, TypeOK
<1> HIDE DEF deleted
<1>4. \A u \in Urls : u \in OwnRow(t) <=> u = Work[t]
  BY <1>2 DEF OwnRow, Work
<1>5. \A u \in Urls : u = Work[t] => next_index_time[u] = "later"
  BY DEF Work, LeaseInv, Held, Holds
<1>6. next_index_time' = [u \in Urls |-> IF u \in deleted THEN "none"
                                         ELSE IF u = Work[t] THEN "later" ELSE next_index_time[u]]
  <2>1. \A u \in Urls : Leased(OwnRow(t))[u] = IF u = Work[t] THEN "later" ELSE next_index_time[u]
    BY <1>4, <1>5 DEF Leased
  <2> QED BY <1>1, <2>1
<1>7. Waiting' = [p \in Procs |-> Waiting[p] \ deleted]
  <2>1. \A p \in Procs : targets'[p] \ gone'[p] = (targets[p] \ gone[p]) \ deleted
    BY <1>1
  <2>2. Waiting' = [p \in Procs |-> targets'[p] \ gone'[p]]
    BY DEF Waiting
  <2> QED BY <2>1, <2>2 DEF Waiting
<1>8. Work' = [s \in Threads |-> IF s = t \/ Work[s] \in deleted THEN NoUrl ELSE Work[s]]
  <2>1. \A s \in Threads : (IF docGone'[s] THEN NoUrl ELSE doc'[s])
                           = IF s = t \/ Work[s] \in deleted THEN NoUrl ELSE Work[s]
    <3>1. ASSUME NEW s \in Threads, s = t
          PROVE  ~docGone'[s] /\ doc'[s] = NoUrl
      BY <1>1, <3>1 DEF TypeOK
    <3>2. ASSUME NEW s \in Threads, s # t
          PROVE  doc'[s] = doc[s] /\ (docGone'[s] <=> docGone[s] \/ doc[s] \in deleted)
      BY <1>1, <3>2 DEF TypeOK
    <3>3. NoUrl \notin deleted
      BY <1>3
    <3> QED BY <3>1, <3>2, <3>3 DEF Work
  <2>2. Work' = [s \in Threads |-> IF docGone'[s] THEN NoUrl ELSE doc'[s]]
    BY DEF Work
  <2> QED BY <2>1, <2>2
<1>9. Queue!Done(t, deleted)
  BY <1>6, <1>7, <1>8 DEF Queue!Done
<1> QED BY <1>3, <1>9 DEF Queue!Next

\* Every action is a step of LeasedQueue or leaves its variables alone.
LEMMA QueueNext ==
    ASSUME LeasesKept, LocksTaken, TypeOK, LockInv, LeaseInv, [Next]_vars
    PROVE  [Queue!Next]_(Queue!vars)
<1> USE ProcOfAssumption, WebAssumption, NobodyAssumption
<1>1. ASSUME UNCHANGED <<next_index_time, targets, gone, doc, docGone>>
      PROVE  [Queue!Next]_(Queue!vars)
  BY <1>1, SameQueue DEF Queue!vars
<1>2. ASSUME NEW t \in Threads,
             \/ CreateThread(t) \/ LoopTop(t) \/ TimeUp(t) \/ SwitchRes(t)
             \/ TestDone(t) \/ ExitThread(t) \/ CheckAction(t) \/ NextTargetNone(t)
             \/ SkipDocument(t) \/ Download(t) \/ ParseDocument(t) \/ TakeResult(t)
             \/ NextTargetSelect(t) \/ StoreHrefsUnseen(t)
      PROVE  [Queue!Next]_(Queue!vars)
  <2>1. UNCHANGED <<next_index_time, targets, gone, doc, docGone>>
    BY <1>2 DEF CreateThread, LoopTop, TimeUp, SwitchRes, TestDone, ExitThread,
                CheckAction, NextTargetNone, SkipDocument, Download, ParseDocument,
                TakeResult, NextTargetSelect, StoreHrefsUnseen,
                dbVars, confVars, poolVars, threadVars
  <2> QED BY <1>1, <2>1
<1>3. ASSUME NEW p \in Procs, CountThread(p) \/ Signal(p)
      PROVE  [Queue!Next]_(Queue!vars)
  <2>1. UNCHANGED <<next_index_time, targets, gone, doc, docGone>>
    BY <1>3 DEF CountThread, Signal, dbVars, confVars, poolVars, threadVars
  <2> QED BY <1>1, <2>1
<1>4. ASSUME NEW R \in SUBSET Urls, Queue!BecomeDue(R), UNCHANGED <<targets, gone, doc, docGone>>
      PROVE  Queue!Next
  <2>1. Queue!Renew(R)
    BY <1>4, SameQueue DEF Queue!Renew
  <2> QED BY <2>1 DEF Queue!Next
<1>5. ASSUME NEW t \in Threads, NEW R \in SUBSET Urls, Queue!BecomeDue(R),
             UNCHANGED <<targets, gone>>,
             doc' = [doc EXCEPT ![t] = NoUrl], docGone' = [docGone EXCEPT ![t] = FALSE]
      PROVE  Queue!Next
  <2>1. Waiting' = Waiting
    BY <1>5 DEF Waiting
  <2>2. \A s \in Threads : (IF docGone'[s] THEN NoUrl ELSE doc'[s]) = IF s = t THEN NoUrl ELSE Work[s]
    BY <1>5 DEF TypeOK, Work
  <2>3. Work' = [s \in Threads |-> IF docGone'[s] THEN NoUrl ELSE doc'[s]]
    BY DEF Work
  <2>4. Work' = [Work EXCEPT ![t] = NoUrl]
    BY <2>2, <2>3 DEF Work
  <2>5. Queue!GiveUp(t, R)
    BY <1>5, <2>1, <2>4 DEF Queue!GiveUp
  <2> QED BY <2>5 DEF Queue!Next
<1>6. ASSUME NEW t \in Threads, StoreHrefs(t)
      PROVE  Queue!Next
  <2>1. /\ next_index_time' = WithRows(hrefs[ProcOf[t]]) /\ UNCHANGED <<targets, gone, doc, docGone>>
        /\ hrefs[ProcOf[t]] \in SUBSET Urls
    BY <1>6 DEF StoreHrefs, TypeOK
  <2> QED BY <1>4, <2>1, RowsStep
<1>7. ASSUME NEW t \in Threads, StoreHrefsError(t)
      PROVE  Queue!Next
  <2>1. PICK S \in SUBSET hrefs[ProcOf[t]] : next_index_time' = WithRows(S)
    BY <1>7 DEF StoreHrefsError
  <2>2. S \in SUBSET Urls
    BY DEF TypeOK
  <2>3. /\ UNCHANGED <<targets, gone>>
        /\ doc' = [doc EXCEPT ![t] = NoUrl] /\ docGone' = [docGone EXCEPT ![t] = FALSE]
    BY <1>7 DEF StoreHrefsError, Fail, Drop
  <2> QED BY <1>5, <2>1, <2>2, <2>3, RowsStep
<1>8. ASSUME NEW t \in Threads, Drop(t), UNCHANGED <<next_index_time, targets, gone>>
      PROVE  Queue!Next
  <2>1. doc' = [doc EXCEPT ![t] = NoUrl] /\ docGone' = [docGone EXCEPT ![t] = FALSE]
    BY <1>8 DEF Drop
  <2>2. \E R \in SUBSET Urls : Queue!BecomeDue(R)
    BY <1>8, DueStep DEF TypeOK
  <2> QED BY <1>5, <1>8, <2>1, <2>2
<1>9. ASSUME NEW t \in Threads, NextTargetError(t) \/ DocError(t)
      PROVE  [Queue!Next]_(Queue!vars)
  <2>1. /\ UNCHANGED <<next_index_time, targets, gone>>
        /\ Drop(t) \/ UNCHANGED <<doc, docGone>>
    BY <1>9 DEF NextTargetError, DocError, Fail, dbVars, confVars
  <2> QED BY <1>1, <1>8, <2>1
<1>10. ASSUME NEW t \in Threads, NextTargetCached(t)
       PROVE  [Queue!Next]_(Queue!vars)
  <2> DEFINE S == targets[ProcOf[t]]
             L == S \ gone[ProcOf[t]]
  <2>1. PICK u \in S : HandOut(t, S, u)
    BY <1>10 DEF NextTargetCached
  <2>2. u \in Urls /\ S \in SUBSET Urls /\ doc[t] = NoUrl /\ UNCHANGED next_index_time
    BY <1>10 DEF NextTargetCached, TypeOK, dbVars
  <2>3. /\ Waiting' = [Waiting EXCEPT ![ProcOf[t]] = L \ {u}]
        /\ Work' = [Work EXCEPT ![t] = IF u \in L THEN u ELSE NoUrl]
    <3> HIDE DEF S
    <3> QED BY <2>1, <2>2, HandOutQueue
  <2>4. Work[t] = NoUrl /\ Waiting[ProcOf[t]] = L
    BY <2>2 DEF Work, Waiting
  <2>5. CASE u \in L
    <3>1. Queue!TakeWaiting(t, u)
      BY <2>2, <2>3, <2>4, <2>5 DEF Queue!TakeWaiting
    <3> QED BY <2>2, <3>1 DEF Queue!Next
  <2>6. CASE u \notin L
    <3>1. L \ {u} = L
      BY <2>6
    <3>2. /\ Waiting' = [Waiting EXCEPT ![ProcOf[t]] = Waiting[ProcOf[t]]]
          /\ Work' = [Work EXCEPT ![t] = Work[t]]
      BY <2>3, <2>4, <2>6, <3>1
    <3>3. Waiting' = Waiting
      BY <3>2 DEF Waiting
    <3>4. Work' = Work
      BY <3>2 DEF Work
    <3> QED BY <2>2, <3>3, <3>4 DEF Queue!vars
  <2> QED BY <2>5, <2>6
<1>11. ASSUME NEW t \in Threads, NextTargetLoad(t)
       PROVE  Queue!Next
  <2>1. PICK S \in SUBSET Due : next_index_time' = Leased(S) /\ \E u \in S : HandOut(t, S, u)
    BY <1>11 DEF NextTargetLoad, Batches
  <2>2. doc[t] = NoUrl /\ targets[ProcOf[t]] = {} /\ marking[ProcOf[t]] = {}
    BY <1>11 DEF NextTargetLoad, TypeOK, LockFree, LockInv
  <2>3. S \in SUBSET Urls /\ S \ gone[ProcOf[t]] = S
    BY <2>2 DEF TypeOK, Due
  <2> QED BY <2>1, <2>2, <2>3, TakeStep
<1>12. ASSUME NEW t \in Threads, NextTargetMark(t)
       PROVE  Queue!Next
  <2> DEFINE S == marking[ProcOf[t]]
  <2>1. S \in SUBSET Urls /\ S \ gone[ProcOf[t]] \subseteq Due
    BY DEF TypeOK, Due, LeaseInv
  <2>2. PICK u \in S : HandOut(t, S, u)
    BY <1>12 DEF NextTargetMark
  <2>3. next_index_time' = Leased(S \ gone[ProcOf[t]])
    BY <1>12 DEF NextTargetMark
  <2>4. doc[t] = NoUrl /\ targets[ProcOf[t]] = {}
    BY <1>12 DEF NextTargetMark, TypeOK, LockInv
  <2> HIDE DEF S
  <2> QED BY <2>1, <2>2, <2>3, <2>4, TakeStep
<1>13. ASSUME NEW t \in Threads, NextTargetMarkError(t)
       PROVE  FALSE
  BY <1>13 DEF NextTargetMarkError, LeasesKept
<1>14. ASSUME NEW t \in Threads, UpdateDocument(t) \/ UpdateError(t)
       PROVE  Queue!Next
  <2>1. doc[t] # NoUrl /\ UNCHANGED <<targets, marking>>
    BY <1>14 DEF UpdateDocument, UpdateError, TypeOK
  <2>2. CASE Drop(t) /\ UNCHANGED <<dbVars, gone>>
    BY <1>8, <2>1, <2>2 DEF dbVars
  <2>3. CASE \E B \in BadHrefs(doc[t]) : DocUpdate(t, B)
    BY <2>1, <2>3, DoneStep
  <2> QED BY <1>14, <2>2, <2>3 DEF UpdateDocument, UpdateError
<1>15. ASSUME NEW p \in Procs, StartCrawl(p)
       PROVE  Queue!Next
  <2>1. UNCHANGED <<targets, gone, doc, docGone>>
    BY <1>15 DEF StartCrawl, confVars, threadVars
  <2>2. CASE next_index_time' = WithRows(StartUrls)
    BY <1>4, <2>1, <2>2, RowsStep
  <2>3. CASE "expire" \in Events
    <3>1. \A q \in Procs : q = p
      BY <2>3 DEF LocksTaken
    <3>2. targets[p] = {} /\ \A t \in Threads : pc[t] = "new"
      BY <1>15, <3>1 DEF StartCrawl, LockInv, ThreadsOf
    <3>3. \A t \in Threads : doc[t] = NoUrl
      BY <3>2 DEF TypeOK
    <3>4. \A u \in Urls : ~Held(u)
      BY <3>1, <3>2, <3>3 DEF Held, Holds, Caches
    <3>5. /\ next_index_time' \in [Urls -> {"none", "due", "later"}]
          /\ \A u \in Urls : next_index_time'[u] # next_index_time[u] => next_index_time'[u] = "due"
      BY <1>15 DEF StartCrawl, WithRows, TypeOK
    <3> QED BY <1>4, <2>1, <3>4, <3>5, DueStep
  <2> QED BY <1>15, <2>2, <2>3 DEF StartCrawl
<1>16. ASSUME NEW p \in Procs, Crash(p)
       PROVE  Queue!Next
  <2>1. /\ UNCHANGED next_index_time
        /\ targets' = [targets EXCEPT ![p] = {}] /\ gone' = [gone EXCEPT ![p] = {}]
        /\ doc' = [t \in Threads |-> IF ProcOf[t] = p THEN NoUrl ELSE doc[t]]
        /\ docGone' = [t \in Threads |-> ProcOf[t] # p /\ docGone[t]]
    BY <1>16 DEF Crash, dbVars
  <2>2. \A q \in Procs : targets'[q] \ gone'[q] = IF q = p THEN {} ELSE Waiting[q]
    BY <2>1 DEF TypeOK, Waiting
  <2>3. \A s \in Threads : (IF docGone'[s] THEN NoUrl ELSE doc'[s])
                           = IF ProcOf[s] = p THEN NoUrl ELSE Work[s]
    BY <2>1 DEF TypeOK, Work
  <2>4. /\ Waiting' = [q \in Procs |-> targets'[q] \ gone'[q]]
        /\ Work' = [s \in Threads |-> IF docGone'[s] THEN NoUrl ELSE doc'[s]]
    BY DEF Waiting, Work
  <2>5. Waiting' = [Waiting EXCEPT ![p] = {}]
    BY <2>2, <2>4 DEF Waiting
  <2>6. Work' = [s \in Threads |-> IF ProcOf[s] = p THEN NoUrl ELSE Work[s]]
    BY <2>3, <2>4
  <2>7. Queue!Kill(p)
    BY <2>1, <2>5, <2>6 DEF Queue!Kill
  <2> QED BY <2>7 DEF Queue!Next
<1>17. ASSUME NEW u \in Urls, PeriodElapses(u)
       PROVE  Queue!Next
  <2>1. UNCHANGED <<targets, gone, doc, docGone>>
    BY <1>17 DEF PeriodElapses, confVars, threadVars
  <2>2. /\ next_index_time' \in [Urls -> {"none", "due", "later"}]
        /\ \A x \in Urls : \/ next_index_time'[x] = next_index_time[x]
                           \/ next_index_time'[x] = "due" /\ ~Held(x)
    BY <1>17 DEF PeriodElapses, TypeOK
  <2> QED BY <1>4, <2>1, <2>2, DueStep
<1>18. ASSUME NEW u \in Urls, LeaseElapses(u)
       PROVE  FALSE
  BY <1>18 DEF LeaseElapses, LeasesKept
<1>19. CASE UNCHANGED vars
  BY <1>1, <1>19 DEF vars, dbVars, confVars, threadVars
<1> QED BY <1>2, <1>3, <1>6, <1>7, <1>9, <1>10, <1>11, <1>12, <1>13, <1>14,
           <1>15, <1>16, <1>17, <1>18, <1>19
        DEF Next, ThreadStep, IndexNextURL, Finished

\* Although a lease is only a timestamp in the table, and SELECT and UPDATE may
\* be two steps, the crawler behaves like a queue from which URLs are taken in
\* one step and in which none is due while somebody has it.
THEOREM CrawlerImplementsQueue ==
    ASSUME LeasesKept, LocksTaken
    PROVE  Spec => ImplementsQueue
<1>1. Init => Queue!Init
  BY DEF Init, Queue!Init, Waiting, Work
<1>2. TypeOK /\ LockInv /\ LeaseInv /\ [Next]_vars => [Queue!Next]_(Queue!vars)
  BY QueueNext
<1> QED BY CrawlerTypeOK, CrawlerLeases, <1>1, <1>2, PTL DEF Spec, ImplementsQueue, Queue!Spec

-----------------------------------------------------------------------------
(* The -n limit.                                                           *)

\* Cardinalities of sets of URLs are numbers and grow with the sets.
LEMMA SubsetCard ==
    ASSUME NEW S \in SUBSET Urls, NEW T \in SUBSET S
    PROVE  Cardinality(S) \in Nat /\ Cardinality(T) \in Nat /\ Cardinality(T) <= Cardinality(S)
<1>1. IsFiniteSet(S) /\ IsFiniteSet(T)
  BY FiniteAssumption, FS_Subset
<1> QED BY <1>1, FS_CardinalityType, FS_Subset

\* A batch is no larger than what is left of the limit.
LEMMA BatchSize ==
    ASSUME TypeOK, NEW p \in Procs, NEW S \in Batches(p)
    PROVE  S \in SUBSET Urls /\ Cardinality(S) <= url_number[p]
<1> USE NumberAssumption
<1>1. S \in SUBSET Urls /\ Due \in SUBSET Urls
  BY DEF Batches, Due
<1>2. Cardinality(S) \in Nat /\ url_number[p] \in Nat
  BY <1>1, SubsetCard DEF TypeOK
<1> QED BY <1>1, <1>2 DEF Batches

\* Handing out one row of S takes one from both sides.
LEMMA HandOutWithin ==
    ASSUME TypeOK, LeasesWithinLimit, NEW t \in Threads, NEW S \in SUBSET Urls, NEW u \in S,
           HandOut(t, S, u), Cardinality(S) <= url_number[ProcOf[t]],
           marking' = marking \/ marking' = [marking EXCEPT ![ProcOf[t]] = {}],
           marking'[ProcOf[t]] = {}
    PROVE  LeasesWithinLimit'
<1> USE ProcOfAssumption, NumberAssumption, SwitchAssumption DEF TypeOK
<1>1. Cardinality(S \ {u}) = Cardinality(S) - 1 /\ Cardinality(S) \in Nat
  BY FiniteAssumption, FS_Subset, FS_RemoveElement, FS_CardinalityType
<1>2. targets'[ProcOf[t]] \cup marking'[ProcOf[t]] = S \ {u}
  <2>1. targets'[ProcOf[t]] = S \ {u}
    BY DEF HandOut
  <2> QED BY <2>1
<1>3. url_number'[ProcOf[t]] >= url_number[ProcOf[t]] - 1 /\ url_number'[ProcOf[t]] \in Int
  <2>1. url_number[ProcOf[t]] \in Nat
    OBVIOUS
  <2>2. url_number'[ProcOf[t]] = IF Limited THEN url_number[ProcOf[t]] - 1 ELSE url_number[ProcOf[t]]
    BY DEF HandOut
  <2> QED BY <2>1, <2>2
<1>4. Cardinality(targets'[ProcOf[t]] \cup marking'[ProcOf[t]]) <= url_number'[ProcOf[t]]
  <2>1. url_number[ProcOf[t]] \in Nat
    OBVIOUS
  <2>2. Cardinality(S \ {u}) <= url_number'[ProcOf[t]]
    BY <1>1, <1>3, <2>1
  <2> HIDE DEF TypeOK
  <2> QED BY <1>2, <2>2
<1>5. ASSUME NEW p \in Procs, p # ProcOf[t]
      PROVE  Cardinality(targets'[p] \cup marking'[p]) <= url_number'[p]
  <2>1. targets'[p] = targets[p] /\ marking'[p] = marking[p] /\ url_number'[p] = url_number[p]
    BY <1>5 DEF HandOut
  <2> QED BY <2>1 DEF LeasesWithinLimit
<1> QED BY <1>4, <1>5 DEF LeasesWithinLimit

\* Every action keeps the leases within the limit.
LEMMA LimitNext ==
    ASSUME TypeOK, LockInv, LeasesWithinLimit, [Next]_vars
    PROVE  LeasesWithinLimit'
<1> USE ProcOfAssumption
<1>1. ASSUME UNCHANGED <<targets, marking, url_number>>
      PROVE  LeasesWithinLimit'
  BY <1>1 DEF LeasesWithinLimit
<1>2. ASSUME NEW t \in Threads,
             \/ CreateThread(t) \/ LoopTop(t) \/ TimeUp(t) \/ SwitchRes(t)
             \/ TestDone(t) \/ ExitThread(t) \/ CheckAction(t) \/ NextTargetNone(t)
             \/ SkipDocument(t) \/ Download(t) \/ ParseDocument(t) \/ TakeResult(t)
             \/ StoreHrefs(t) \/ StoreHrefsError(t) \/ StoreHrefsUnseen(t)
             \/ NextTargetError(t) \/ DocError(t)
             \/ UpdateDocument(t) \/ UpdateError(t)
      PROVE  LeasesWithinLimit'
  BY <1>1, <1>2 DEF CreateThread, LoopTop, TimeUp, SwitchRes, TestDone, ExitThread,
              CheckAction, NextTargetNone, SkipDocument, Download, ParseDocument,
              TakeResult, StoreHrefs, StoreHrefsError, StoreHrefsUnseen, NextTargetError, DocError,
              UpdateDocument, UpdateError, confVars
<1>3. ASSUME NEW p \in Procs, StartCrawl(p) \/ CountThread(p) \/ Signal(p)
      PROVE  LeasesWithinLimit'
  BY <1>1, <1>3 DEF StartCrawl, CountThread, Signal, confVars
<1>4. ASSUME NEW u \in Urls, PeriodElapses(u) \/ LeaseElapses(u)
      PROVE  LeasesWithinLimit'
  BY <1>1, <1>4 DEF PeriodElapses, LeaseElapses, confVars
<1>5. ASSUME NEW t \in Threads, LockFree(ProcOf[t])
      PROVE  marking[ProcOf[t]] = {}
  BY <1>5 DEF LockFree, LockInv
<1>6. ASSUME NEW t \in Threads, NextTargetCached(t)
      PROVE  LeasesWithinLimit'
  <2>1. PICK u \in targets[ProcOf[t]] : HandOut(t, targets[ProcOf[t]], u)
    BY <1>6 DEF NextTargetCached
  <2>2. marking' = marking /\ marking[ProcOf[t]] = {}
    BY <1>5, <1>6 DEF NextTargetCached
  <2>3. Cardinality(targets[ProcOf[t]]) <= url_number[ProcOf[t]]
    BY <2>2 DEF LeasesWithinLimit
  <2>4. targets[ProcOf[t]] \in SUBSET Urls
    BY DEF TypeOK
  <2> QED BY <2>1, <2>2, <2>3, <2>4, HandOutWithin
<1>7. ASSUME NEW t \in Threads, NextTargetLoad(t)
      PROVE  LeasesWithinLimit'
  <2>1. PICK S \in Batches(ProcOf[t]) : \E u \in S : HandOut(t, S, u)
    BY <1>7 DEF NextTargetLoad
  <2>2. marking' = marking /\ marking[ProcOf[t]] = {}
    BY <1>5, <1>7 DEF NextTargetLoad
  <2> QED BY <2>1, <2>2, BatchSize, HandOutWithin
<1>8. ASSUME NEW t \in Threads, NextTargetSelect(t)
      PROVE  LeasesWithinLimit'
  <2>1. PICK S \in Batches(ProcOf[t]) : marking' = [marking EXCEPT ![ProcOf[t]] = S]
    BY <1>8 DEF NextTargetSelect
  <2>2. targets' = targets /\ url_number' = url_number /\ targets[ProcOf[t]] = {}
    BY <1>8 DEF NextTargetSelect
  <2>3. Cardinality(S) <= url_number[ProcOf[t]]
    BY BatchSize
  <2>4. targets'[ProcOf[t]] \cup marking'[ProcOf[t]] = S
    BY <2>1, <2>2 DEF TypeOK
  <2>5. \A p \in Procs : p # ProcOf[t] => marking'[p] = marking[p]
    BY <2>1 DEF TypeOK
  <2> QED BY <2>2, <2>3, <2>4, <2>5 DEF LeasesWithinLimit
<1>9. ASSUME NEW t \in Threads, NextTargetMark(t)
      PROVE  LeasesWithinLimit'
  <2> DEFINE S == marking[ProcOf[t]]
  <2>1. PICK u \in S : HandOut(t, S, u)
    BY <1>9 DEF NextTargetMark
  <2>2. marking' = [marking EXCEPT ![ProcOf[t]] = {}] /\ marking'[ProcOf[t]] = {}
    BY <1>9 DEF NextTargetMark, TypeOK
  <2>3. S \in SUBSET Urls /\ targets[ProcOf[t]] \in SUBSET Urls /\ url_number[ProcOf[t]] \in Nat
    BY DEF TypeOK
  <2>4. Cardinality(S) <= Cardinality(targets[ProcOf[t]] \cup S)
        /\ Cardinality(S) \in Nat /\ Cardinality(targets[ProcOf[t]] \cup S) \in Nat
    BY <2>3, SubsetCard
  <2>5. Cardinality(targets[ProcOf[t]] \cup S) <= url_number[ProcOf[t]]
    BY DEF LeasesWithinLimit
  <2>6. Cardinality(S) <= url_number[ProcOf[t]]
    BY <2>3, <2>4, <2>5
  <2> HIDE DEF S
  <2> QED BY <2>1, <2>2, <2>3, <2>6, HandOutWithin
<1>10. ASSUME NEW t \in Threads, NextTargetMarkError(t)
       PROVE  LeasesWithinLimit'
  <2>1. marking' = marking /\ marking[ProcOf[t]] = {}
    BY <1>5, <1>10 DEF NextTargetMarkError
  <2>2. PICK S \in Batches(ProcOf[t]) :
           \/ \E u \in S : HandOut(t, S, u)
           \/ targets' = [targets EXCEPT ![ProcOf[t]] = S] /\ UNCHANGED url_number
    BY <1>10 DEF NextTargetMarkError
  <2>3. CASE \E u \in S : HandOut(t, S, u)
    BY <2>1, <2>3, BatchSize, HandOutWithin
  <2>4. CASE targets' = [targets EXCEPT ![ProcOf[t]] = S] /\ UNCHANGED url_number
    <3>1. Cardinality(S) <= url_number[ProcOf[t]]
      BY BatchSize
    <3>2. targets'[ProcOf[t]] \cup marking'[ProcOf[t]] = S
      BY <2>1, <2>4 DEF TypeOK
    <3>3. \A p \in Procs : p # ProcOf[t] => targets'[p] = targets[p]
      BY <2>4 DEF TypeOK
    <3> QED BY <2>1, <2>4, <3>1, <3>2, <3>3 DEF LeasesWithinLimit
  <2> QED BY <2>2, <2>3, <2>4
<1>11. ASSUME NEW p \in Procs, Crash(p)
       PROVE  LeasesWithinLimit'
  <2>1. targets'[p] \cup marking'[p] = {} /\ url_number' = url_number /\ url_number[p] \in Nat
    BY <1>11 DEF Crash, TypeOK
  <2>2. \A q \in Procs : q # p => targets'[q] = targets[q] /\ marking'[q] = marking[q]
    BY <1>11 DEF Crash, TypeOK
  <2>3. Cardinality(targets'[p] \cup marking'[p]) = 0
    BY <2>1, FS_EmptySet
  <2>4. ASSUME NEW q \in Procs
        PROVE  Cardinality(targets'[q] \cup marking'[q]) <= url_number'[q]
    <3>1. CASE q = p
      BY <2>1, <2>3, <3>1
    <3>2. CASE q # p
      BY <2>1, <2>2, <3>2 DEF LeasesWithinLimit
    <3> QED BY <3>1, <3>2
  <2> QED BY <2>4 DEF LeasesWithinLimit
<1>12. CASE UNCHANGED vars
  BY <1>1, <1>12 DEF vars, confVars
<1> QED BY <1>2, <1>3, <1>4, <1>6, <1>7, <1>8, <1>9, <1>10, <1>11, <1>12
        DEF Next, ThreadStep, IndexNextURL, Finished

\* indexer -n never leases more rows than it will hand out, whatever fails.
THEOREM CrawlerLeasesWithinLimit == Spec => []LeasesWithinLimit
<1>1. Init => LeasesWithinLimit
  BY NumberAssumption, FS_EmptySet DEF Init, LeasesWithinLimit
<1>2. TypeOK /\ LockInv /\ LeasesWithinLimit /\ [Next]_vars => LeasesWithinLimit'
  BY LimitNext
<1> QED BY CrawlerTypeOK, <1>1, <1>2, PTL DEF Spec

-----------------------------------------------------------------------------
(* Nothing is left behind.                                                 *)

\* No URL becomes due again by itself, and a process has a thread.
OnePass == "periodElapses" \notin Events /\ Threads # {}

\* The second half of WorkInv for process p.
WorkOf(p) ==
    /\ hrefs[p] # {} => \E t \in Threads : pc[t] \in {"parse", "store2"} \/ res[t] = "ERROR"
    /\ url_number[p] > 0 /\ (Due # {} \/ targets[p] # {}) => \E t \in Threads : Searching(t)

\* The first half.
Stopped ==
    \A t \in Threads : /\ res[t] \in {"ERROR", "TERMINATED"}
                          => pc[t] \in {"top", "switch", "test", "fin", "dead"}
                       /\ pc[t] = "new" => res[t] = "OK"

\* WorkInv is its two halves.
LEMMA WorkParts ==
    WorkInv <=> Stopped /\ \A p \in Procs : Procs = {p} /\ ~unseen[p] => WorkOf(p)
BY DEF WorkInv, Stopped, WorkOf

\* A thread that failed or was told to stop never indexes again.
LEMMA StoppedNext == ASSUME TypeOK, Stopped, [Next]_vars PROVE Stopped'
<1> USE DEF TypeOK, Stopped, PCs, Results
<1>1. ASSUME NEW t \in Threads, CreateThread(t) PROVE Stopped'
  BY <1>1 DEF CreateThread, poolVars
<1>2. ASSUME NEW t \in Threads, LoopTop(t) PROVE Stopped'
  BY <1>2 DEF LoopTop, poolVars
<1>3. ASSUME NEW t \in Threads, TimeUp(t) PROVE Stopped'
  BY <1>3 DEF TimeUp, poolVars
<1>4. ASSUME NEW t \in Threads, SwitchRes(t) PROVE Stopped'
  BY <1>4 DEF SwitchRes, poolVars
<1>5. ASSUME NEW t \in Threads, TestDone(t) PROVE Stopped'
  BY <1>5 DEF TestDone, poolVars
<1>6. ASSUME NEW t \in Threads, ExitThread(t) PROVE Stopped'
  BY <1>6 DEF ExitThread, poolVars
<1>7. ASSUME NEW t \in Threads, StoreHrefsError(t) PROVE Stopped'
  BY <1>7 DEF StoreHrefsError, Fail, AfterStore, poolVars
<1>8. ASSUME NEW t \in Threads, CheckAction(t) PROVE Stopped'
  BY <1>8 DEF CheckAction, poolVars
<1>9. ASSUME NEW t \in Threads, NextTargetCached(t) PROVE Stopped'
  BY <1>9 DEF NextTargetCached, HandOut, poolVars
<1>10. ASSUME NEW t \in Threads, NextTargetLoad(t) PROVE Stopped'
  BY <1>10 DEF NextTargetLoad, HandOut, poolVars
<1>11. ASSUME NEW t \in Threads, NextTargetSelect(t) PROVE Stopped'
  BY <1>11 DEF NextTargetSelect, poolVars
<1>12. ASSUME NEW t \in Threads, NextTargetMark(t) PROVE Stopped'
  BY <1>12 DEF NextTargetMark, HandOut, poolVars
<1>13. ASSUME NEW t \in Threads, NextTargetNone(t) PROVE Stopped'
  BY <1>13 DEF NextTargetNone, poolVars
<1>14. ASSUME NEW t \in Threads, NextTargetError(t) PROVE Stopped'
  <2>1. pc[t] = "next" /\ pc' = [pc EXCEPT ![t] = "switch"]
    BY <1>14 DEF NextTargetError, Fail
  <2>2. res' = [res EXCEPT ![t] = "ERROR"] \/ res' = [res EXCEPT ![t] = "NOTARGET"]
    BY <1>14 DEF NextTargetError, Fail
  <2> QED BY <2>1, <2>2
<1>15. ASSUME NEW t \in Threads, NextTargetMarkError(t) PROVE Stopped'
  BY <1>15 DEF NextTargetMarkError, HandOut, Fail, poolVars
<1>16. ASSUME NEW t \in Threads, SkipDocument(t) PROVE Stopped'
  BY <1>16 DEF SkipDocument, poolVars
<1>17. ASSUME NEW t \in Threads, Download(t) PROVE Stopped'
  BY <1>17 DEF Download, poolVars
<1>18. ASSUME NEW t \in Threads, ParseDocument(t) PROVE Stopped'
  BY <1>18 DEF ParseDocument, poolVars
<1>19. ASSUME NEW t \in Threads, DocError(t) PROVE Stopped'
  BY <1>19 DEF DocError, Fail, poolVars
<1>20. ASSUME NEW t \in Threads, UpdateDocument(t) PROVE Stopped'
  BY <1>20 DEF UpdateDocument, poolVars
<1>21. ASSUME NEW t \in Threads, UpdateError(t) PROVE Stopped'
  BY <1>21 DEF UpdateError, poolVars
<1>22. ASSUME NEW t \in Threads, TakeResult(t) PROVE Stopped'
  BY <1>22 DEF TakeResult, poolVars
<1>23. ASSUME NEW t \in Threads, StoreHrefs(t) \/ StoreHrefsUnseen(t) PROVE Stopped'
  <2>1. pc[t] \in {"store", "store2"} /\ pc' = [pc EXCEPT ![t] = pc'[t]]
    BY <1>23, StoreStep
  <2>2. UNCHANGED res /\ pc'[t] \in {"check", "update"}
    BY <1>23, StoreStep DEF StoreHrefs, StoreHrefsUnseen
  <2> QED BY <2>1, <2>2
<1>24. ASSUME NEW p \in Procs, StartCrawl(p) \/ CountThread(p) \/ Signal(p) PROVE Stopped'
  BY <1>24 DEF StartCrawl, CountThread, Signal, threadVars
<1>25. ASSUME NEW p \in Procs, Crash(p) PROVE Stopped'
  BY <1>25 DEF Crash
<1>26. ASSUME NEW u \in Urls, PeriodElapses(u) \/ LeaseElapses(u) PROVE Stopped'
  BY <1>26 DEF PeriodElapses, LeaseElapses, threadVars
<1>27. CASE UNCHANGED vars
  BY <1>27 DEF vars, threadVars
<1> QED
  <2> HIDE DEF TypeOK, Stopped
  <2> QED BY <1>1, <1>2, <1>3, <1>4, <1>5, <1>6, <1>7, <1>8, <1>9, <1>10, <1>11,
             <1>12, <1>13, <1>14, <1>15, <1>16, <1>17, <1>18, <1>19, <1>20,
             <1>21, <1>22, <1>23, <1>24, <1>25, <1>26, <1>27
          DEF Next, ThreadStep, IndexNextURL, Finished

\* An error that was not returned is not forgotten.
LEMMA UnseenStays ==
    ASSUME TypeOK, [Next]_vars, NEW p \in Procs, unseen[p]
    PROVE  unseen'[p]
<1> USE ProcOfAssumption DEF confVars
<1>1. ASSUME NEW t \in Threads, StoreHrefsUnseen(t) \/ NextTargetError(t)
      PROVE  unseen'[p]
  BY <1>1 DEF StoreHrefsUnseen, NextTargetError, TypeOK
<1>2. ASSUME NEW t \in Threads,
             \/ CreateThread(t) \/ LoopTop(t) \/ TimeUp(t) \/ SwitchRes(t)
             \/ TestDone(t) \/ ExitThread(t) \/ CheckAction(t) \/ StoreHrefs(t)
             \/ StoreHrefsError(t) \/ NextTargetCached(t) \/ NextTargetLoad(t)
             \/ NextTargetSelect(t) \/ NextTargetMark(t) \/ NextTargetNone(t)
             \/ NextTargetMarkError(t) \/ SkipDocument(t) \/ Download(t)
             \/ ParseDocument(t) \/ DocError(t) \/ UpdateDocument(t) \/ UpdateError(t)
             \/ TakeResult(t)
      PROVE  unseen' = unseen
  BY <1>2 DEF CreateThread, LoopTop, TimeUp, SwitchRes, TestDone, ExitThread, CheckAction,
              StoreHrefs, StoreHrefsError, NextTargetCached, NextTargetLoad, NextTargetSelect,
              NextTargetMark, NextTargetNone, NextTargetMarkError, SkipDocument, Download,
              ParseDocument, DocError, UpdateDocument, UpdateError, TakeResult
<1>3. ASSUME NEW q \in Procs, StartCrawl(q) \/ CountThread(q) \/ Signal(q) \/ Crash(q)
      PROVE  unseen' = unseen
  BY <1>3 DEF StartCrawl, CountThread, Signal, Crash
<1>4. ASSUME NEW u \in Urls, PeriodElapses(u) \/ LeaseElapses(u)
      PROVE  unseen' = unseen
  BY <1>4 DEF PeriodElapses, LeaseElapses
<1>5. CASE UNCHANGED vars
  BY <1>5 DEF vars
<1> QED BY <1>1, <1>2, <1>3, <1>4, <1>5 DEF Next, ThreadStep, IndexNextURL, Finished

\* WorkOf is kept when thread t still searches after the step, or nothing that
\* is due or cached appeared and the searchers still search.
LEMMA WorkNext ==
    ASSUME OnePass, TypeOK, LockInv, Stopped, NEW p \in Procs, Procs = {p}, WorkOf(p), [Next]_vars,
           ~unseen'[p]
    PROVE  WorkOf(p)'
<1> USE ProcOfAssumption, NobodyAssumption
        DEF TypeOK, Stopped, WorkOf, Searching, PCs, Results,
            dbVars, confVars, poolVars, threadVars
<1>0. \A t \in Threads : ProcOf[t] = p
  OBVIOUS
<1>1. ASSUME NEW t \in Threads, CreateThread(t) PROVE WorkOf(p)'
  BY <1>0, <1>1 DEF CreateThread, Due
<1>2. ASSUME NEW t \in Threads, LoopTop(t) PROVE WorkOf(p)'
  BY <1>0, <1>2 DEF LoopTop, Due
<1>3. ASSUME NEW t \in Threads, TimeUp(t) PROVE WorkOf(p)'
  BY <1>0, <1>3 DEF TimeUp, Due
<1>4. ASSUME NEW t \in Threads, SwitchRes(t) PROVE WorkOf(p)'
  BY <1>0, <1>4 DEF SwitchRes, Due
<1>5. ASSUME NEW t \in Threads, TestDone(t) PROVE WorkOf(p)'
  BY <1>0, <1>5 DEF TestDone, Due
<1>6. ASSUME NEW t \in Threads, ExitThread(t) PROVE WorkOf(p)'
  BY <1>0, <1>6 DEF ExitThread, Due
<1>7. ASSUME NEW t \in Threads, CheckAction(t) PROVE WorkOf(p)'
  BY <1>0, <1>7 DEF CheckAction, Due
<1>8. ASSUME NEW t \in Threads, NextTargetCached(t) PROVE WorkOf(p)'
  BY <1>0, <1>8 DEF NextTargetCached, HandOut, Due
<1>9. ASSUME NEW t \in Threads, NextTargetLoad(t) PROVE WorkOf(p)'
  BY <1>0, <1>9 DEF NextTargetLoad, HandOut, Batches, Due
<1>10. ASSUME NEW t \in Threads, NextTargetSelect(t) PROVE WorkOf(p)'
  BY <1>0, <1>10 DEF NextTargetSelect, Due
<1>11. ASSUME NEW t \in Threads, NextTargetMark(t) PROVE WorkOf(p)'
  BY <1>0, <1>11 DEF NextTargetMark, HandOut, Due
<1>12. ASSUME NEW t \in Threads, NextTargetNone(t) PROVE WorkOf(p)'
  BY <1>0, <1>12 DEF NextTargetNone, Due
<1>13. ASSUME NEW t \in Threads, NextTargetError(t) PROVE WorkOf(p)'
  <2>1. Fail(t)
    BY <1>0, <1>13 DEF NextTargetError
  <2> QED BY <1>0, <1>13, <2>1 DEF NextTargetError, Fail, Drop, Due
<1>14. ASSUME NEW t \in Threads, SkipDocument(t) PROVE WorkOf(p)'
  BY <1>0, <1>14 DEF SkipDocument, Due
<1>15. ASSUME NEW t \in Threads, Download(t) PROVE WorkOf(p)'
  BY <1>0, <1>15 DEF Download, Due
<1>16. ASSUME NEW t \in Threads, ParseDocument(t) PROVE WorkOf(p)'
  BY <1>0, <1>16 DEF ParseDocument, Statuses, Due
<1>17. ASSUME NEW t \in Threads, DocError(t) PROVE WorkOf(p)'
  BY <1>0, <1>17 DEF DocError, Fail, Drop, Due
<1>18. ASSUME NEW t \in Threads, UpdateDocument(t) PROVE WorkOf(p)'
  <2>1. pc[t] = "update" /\ pc' = [pc EXCEPT ![t] = "result"] /\ UNCHANGED <<hrefs, res>>
    BY <1>18 DEF UpdateDocument
  <2> QED BY <1>0, <2>1
<1>19. ASSUME NEW t \in Threads, UpdateError(t) PROVE WorkOf(p)'
  <2>1. res' = [res EXCEPT ![t] = "ERROR"]
    BY <1>19 DEF UpdateError
  <2> QED BY <1>0, <2>1
<1>20. ASSUME NEW t \in Threads, TakeResult(t) PROVE WorkOf(p)'
  BY <1>0, <1>20 DEF TakeResult, Due
<1>21. ASSUME NEW t \in Threads, StoreHrefsError(t) PROVE WorkOf(p)'
  BY <1>0, <1>21 DEF StoreHrefsError, Fail, Drop, Due
<1>22. ASSUME NEW t \in Threads, NextTargetMarkError(t) PROVE WorkOf(p)'
  <2>1. hrefs'[p] # {} => \E s \in Threads : pc'[s] \in {"parse", "store2"} \/ res'[s] = "ERROR"
    BY <1>22 DEF NextTargetMarkError, HandOut, Fail
  <2>2. CASE Fail(t)
    BY <2>1, <2>2 DEF Fail
  <2>3. CASE \E S \in SUBSET Urls : \E u \in S : HandOut(t, S, u)
    BY <2>1, <2>3 DEF HandOut
  <2> QED BY <1>22, <2>2, <2>3 DEF NextTargetMarkError, Batches, Due
<1>23. ASSUME NEW t \in Threads, StoreHrefs(t) PROVE WorkOf(p)'
  <2>1. hrefs'[p] = {} /\ UNCHANGED <<url_number, targets, res, doc>>
    BY <1>0, <1>23 DEF StoreHrefs
  <2>2. /\ pc' = [pc EXCEPT ![t] = pc'[t]]
        /\ \/ pc[t] = "store" /\ pc'[t] = "check"
           \/ pc[t] = "store2" /\ pc'[t] = "update"
    BY <1>23, StoreStep
  <2>3. \A s \in Threads : Searching(s) => Searching(s)'
    BY <2>1, <2>2
  <2>4. CASE hrefs[p] = {}
    <3>1. Due' = Due
      BY <1>0, <1>23, <2>4 DEF StoreHrefs, WithRows, Due
    <3> QED BY <2>1, <2>3, <3>1
  <2>5. CASE hrefs[p] # {}
    <3>1. PICK s \in Threads : pc[s] \in {"parse", "store2"} \/ res[s] = "ERROR"
      BY <2>5
    <3>2. Searching(s)
      BY <3>1
    <3> QED BY <2>1, <2>3, <3>2
  <2> QED BY <2>4, <2>5
<1>24. ASSUME NEW t \in Threads, StoreHrefsUnseen(t) PROVE WorkOf(p)'
  BY <1>0, <1>24 DEF StoreHrefsUnseen
<1>25. ASSUME NEW q \in Procs, StartCrawl(q) PROVE WorkOf(p)'
  BY <1>0, <1>25 DEF StartCrawl, LockInv, ThreadsOf, OnePass
<1>26. ASSUME NEW q \in Procs, CountThread(q) \/ Signal(q) PROVE WorkOf(p)'
  BY <1>0, <1>26 DEF CountThread, Signal, Due
<1>27. ASSUME NEW q \in Procs, Crash(q) PROVE WorkOf(p)'
  BY <1>0, <1>27 DEF Crash, OnePass, Due
<1>28. ASSUME NEW u \in Urls, PeriodElapses(u) PROVE WorkOf(p)'
  BY <1>0, <1>28 DEF PeriodElapses, OnePass
<1>29. ASSUME NEW u \in Urls, LeaseElapses(u) PROVE WorkOf(p)'
  BY <1>0, <1>29 DEF LeaseElapses, Due, Held, Holds, Caches
<1>30. CASE UNCHANGED vars
  BY <1>30 DEF vars, Due
<1> QED
  <2> HIDE DEF TypeOK, Stopped, WorkOf
  <2> QED BY <1>1, <1>2, <1>3, <1>4, <1>5, <1>6, <1>7, <1>8, <1>9, <1>10, <1>11,
             <1>12, <1>13, <1>14, <1>15, <1>16, <1>17, <1>18, <1>19, <1>20,
             <1>21, <1>22, <1>23, <1>24, <1>25, <1>26, <1>27, <1>28, <1>29, <1>30
          DEF Next, ThreadStep, IndexNextURL, Finished

\* Handing out no more than the limit means that nothing is in Targets when
\* the limit is used up.
LEMMA NoLimitNoTargets ==
    ASSUME TypeOK, LeasesWithinLimit, NEW p \in Procs, ~(url_number[p] > 0)
    PROVE  targets[p] = {}
<1>1. url_number[p] = 0
  BY DEF TypeOK
<1>2. targets[p] \cup marking[p] \in SUBSET Urls
  BY DEF TypeOK
<1>3. IsFiniteSet(targets[p] \cup marking[p])
  BY <1>2, FiniteAssumption, FS_Subset
<1>4. Cardinality(targets[p] \cup marking[p]) = 0
  <2>1. Cardinality(targets[p] \cup marking[p]) \in Nat
    BY <1>3, FS_CardinalityType
  <2>2. Cardinality(targets[p] \cup marking[p]) <= 0
    BY <1>1 DEF LeasesWithinLimit
  <2> QED BY <2>1, <2>2
<1> QED BY <1>3, <1>4, FS_EmptySet

\* While a row is due or a link waits in the link cache, a thread of the
\* process is on its way to look for it, or the process gave up on an error:
\* what thread_main's counters have to ensure (indexer.c:2640-2700).  It ends
\* with the first database error that UdmStoreHrefs or UdmTargetsSQL does not
\* return (sql.c:3582, 3607, 3200).
THEOREM CrawlerWork ==
    ASSUME OnePass
    PROVE  Spec => []WorkInv
<1>1. Init => WorkInv
  BY ProcOfAssumption DEF Init, WorkInv, Searching, Due, OnePass
<1>2. TypeOK /\ LockInv /\ WorkInv /\ [Next]_vars => WorkInv'
  <2> SUFFICES ASSUME TypeOK, LockInv, WorkInv, [Next]_vars
               PROVE  WorkInv'
    OBVIOUS
  <2>1. Stopped'
    BY WorkParts, StoppedNext
  <2>2. ASSUME NEW p \in Procs, Procs = {p}, ~unseen'[p]
        PROVE  WorkOf(p)'
    BY <2>2, WorkParts, UnseenStays, WorkNext
  <2> QED BY <2>1, <2>2 DEF WorkInv, Stopped, WorkOf
<1> QED BY CrawlerTypeOK, <1>1, <1>2, PTL DEF Spec

\* The search for targets ends only when it is complete: when the threads of
\* a single process have all stopped with UDM_NOTARGET, no URL is due, none
\* waits in Targets and no link waits to be stored, unless a database error
\* was not returned on the way.  It holds for every number of threads and every
\* order in which they are created, sleep and exit.
THEOREM CrawlerNothingLeftBehind ==
    ASSUME OnePass
    PROVE  Spec => []NothingLeftBehind
<1>1. TypeOK /\ LeasesWithinLimit /\ WorkInv => NothingLeftBehind
  <2> SUFFICES ASSUME TypeOK, LeasesWithinLimit, WorkInv, NEW p \in Procs, Procs = {p}, ~unseen[p],
                      \A t \in ThreadsOf(p) : pc[t] = "dead" /\ res[t] = "NOTARGET"
               PROVE  targets[p] = {} /\ hrefs[p] = {} /\ (url_number[p] > 0 => Due = {})
    BY DEF NothingLeftBehind
  <2>1. \A t \in Threads : pc[t] = "dead" /\ res[t] = "NOTARGET"
    BY ProcOfAssumption DEF ThreadsOf
  <2>2. \A t \in Threads : ~Searching(t)
    BY <2>1 DEF Searching, TypeOK
  <2>3. WorkOf(p)
    BY WorkParts
  <2>4. url_number[p] > 0 => Due = {} /\ targets[p] = {}
    BY <2>2, <2>3 DEF WorkOf
  <2>5. hrefs[p] = {}
    BY <2>1, <2>3 DEF WorkOf
  <2> QED BY <2>4, <2>5, NoLimitNoTargets
<1> QED BY CrawlerTypeOK, CrawlerLeasesWithinLimit, CrawlerWork, <1>1, PTL
=============================================================================
