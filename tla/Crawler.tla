------------------------------ MODULE Crawler ------------------------------
(***************************************************************************)
(* The crawling half of mnoGoSearch's indexer: processes ("indexer" runs)  *)
(* whose threads (thread_main) take due URLs from the shared table "url",  *)
(* download them, store the links they find and reschedule them.           *)
(*                                                                         *)
(* A URL is leased by pushing its next_index_time URL_LOCK_TIME (4 hours)  *)
(* into the future: the row itself does not say who holds it.  The time of *)
(* a row is kept as the only thing the code asks about it: no row, due     *)
(* (next_index_time <= now) or later.                                      *)
(*                                                                         *)
(* A critical section of UDM_LOCK_THREAD, or of UDM_LOCK_CONF, is one      *)
(* action.  The one section other processes can look into (SELECT and      *)
(* UPDATE of UdmTargetsSQL without LOCK TABLES) is two actions with the    *)
(* process's locks held in between.                                        *)
(***************************************************************************)
EXTENDS Integers, FiniteSets

CONSTANTS
    Procs,      \* indexer processes working on one database
    Threads,    \* the crawler threads of all of them
    ProcOf,     \* the process of each thread
    Urls,       \* every URL of the web
    StartUrls,  \* the URLs of the configuration and the command line
    Links,      \* the links of each document that pass the filters
    UrlNumber,  \* indexer -n (Conf->url_number)
    Limited,    \* FALSE: no -n, the default 0x7FFFFFFF is never used up
    CacheSize,  \* URLSelectCacheSize
    SkipLock,   \* URLSelectSkipLock
    HoldBadHrefs, \* HoldBadHrefs is above 0, as the TYPO3 extension sets it
    Events,     \* the faults and outside events that may happen
    NoUrl, NoThread

AllEvents == {"dbError", "markError", "docError", "crash", "signal",
              "timeUp", "expire", "periodElapses", "leaseElapses"}

ASSUME ProcOfAssumption  == ProcOf \in [Threads -> Procs]
ASSUME WebAssumption     == Links \in [Urls -> SUBSET Urls] /\ StartUrls \subseteq Urls
ASSUME FiniteAssumption  == IsFiniteSet(Urls) /\ IsFiniteSet(Threads)
ASSUME NumberAssumption  == UrlNumber \in Nat /\ CacheSize \in Nat \ {0}
ASSUME SwitchAssumption  == Limited \in BOOLEAN /\ SkipLock \in BOOLEAN
                            /\ HoldBadHrefs \in BOOLEAN /\ Events \subseteq AllEvents
ASSUME NobodyAssumption  == NoUrl \notin Urls /\ NoThread \notin Threads

VARIABLES
    next_index_time,  \* table url: "none" (no row), "due" or "later"
    bad,              \* the rows with a status above 300 that is not 304
    targets,          \* Conf->Targets, the rows from cur_row on, per process
    marking,          \* rows selected by UdmTargetsSQL, not yet UPDATEd
    lockOwner,        \* who holds UDM_LOCK_THREAD and _CONF across two actions
    url_number,       \* Conf->url_number
    gone,             \* what of targets and marking has lost its row since
    hrefs,            \* the entries of Conf->Hrefs that are not stored
    unseen,           \* a failure left links or rows behind and was not returned
    begun,            \* UdmIndCrawl has reached UdmIndex
    started,          \* threads UdmIndex has counted: its variable i
    creating,         \* UdmIndex is between UdmThreadCreate and total_threads=
    total_threads,
    sleep_threads,
    have_sigint,      \* have_sigint || have_sigterm
    pc,               \* where each thread is
    res,              \* thread_main's res
    i_sleep,          \* thread_main's i_sleep
    action,           \* Indexer->action
    doc,              \* the target UdmIndexNextURL works on
    docGone,          \* its row has been deleted since: no row has its rec_id
    verdict           \* what DocUpdate will do with it

dbVars     == <<next_index_time, bad>>
confVars   == <<targets, marking, lockOwner, url_number, gone, hrefs, unseen>>
poolVars   == <<begun, started, creating, total_threads, sleep_threads, have_sigint>>
threadVars == <<pc, res, i_sleep, action, doc, docGone, verdict>>
vars       == <<dbVars, confVars, poolVars, threadVars>>

ThreadsOf(p) == {t \in Threads : ProcOf[t] = p}

PCs == {"new", "top", "store", "check", "next", "mark", "fetch", "parse",
        "store2", "update", "result", "switch", "test", "fin", "dead"}
Results == {"OK", "NOTARGET", "TERMINATED", "ERROR"}

\* Mutant: UDM_LOCK_THREAD and UDM_LOCK_CONF exclude nobody.
LockFreeMutant(p) == TRUE

\* No thread of p is inside the two-action critical section.
LockFree(p) == lockOwner[p] = NoThread

Due == {u \in Urls : next_index_time[u] = "due"}

\* Who has the row of u: a thread working on it, or a process with it in its
\* Targets.  A row that is inserted again has another rec_id (UseCRC32URLId is
\* off, as by default): whoever had the row that was deleted still has the URL,
\* but not the new row.
Holds(t, u)  == doc[t] = u /\ ~docGone[t]
Caches(p, u) == u \in targets[p] \ gone[p]
Held(u) == (\E t \in Threads : Holds(t, u)) \/ (\E p \in Procs : Caches(p, u))

Init ==
    /\ next_index_time = [u \in Urls |-> "none"]
    /\ bad           = {}
    /\ targets       = [p \in Procs |-> {}]
    /\ gone          = [p \in Procs |-> {}]
    /\ unseen        = [p \in Procs |-> FALSE]
    /\ marking       = [p \in Procs |-> {}]
    /\ lockOwner     = [p \in Procs |-> NoThread]
    /\ url_number    = [p \in Procs |-> UrlNumber]
    /\ hrefs         = [p \in Procs |-> {}]
    /\ begun         = [p \in Procs |-> FALSE]
    /\ started       = [p \in Procs |-> 0]
    /\ creating      = [p \in Procs |-> FALSE]
    /\ total_threads = [p \in Procs |-> 0]
    /\ sleep_threads = [p \in Procs |-> 0]
    /\ have_sigint   = [p \in Procs |-> FALSE]
    /\ pc      = [t \in Threads |-> "new"]
    /\ res     = [t \in Threads |-> "OK"]
    /\ i_sleep = [t \in Threads |-> FALSE]
    /\ action  = [t \in Threads |-> "OK"]
    /\ doc     = [t \in Threads |-> NoUrl]
    /\ docGone = [t \in Threads |-> FALSE]
    /\ verdict = [t \in Threads |-> "none"]

\* A row for every new URL of S; a known URL keeps its row.
WithRows(S) ==
    [u \in Urls |-> IF u \in S /\ next_index_time[u] = "none" THEN "due"
                    ELSE next_index_time[u]]

-----------------------------------------------------------------------------
(* UdmIndCrawl and UdmIndex: the main thread prepares the table and then   *)
(* creates the crawler threads one by one.                                 *)

\* UdmStoreHrefs for the URLs of the configuration; with indexer -a, the rows
\* that meet the command line's limits become due, whoever holds them.
StartCrawl(p) ==
    /\ ~begun[p]
    /\ begun' = [begun EXCEPT ![p] = TRUE]
    /\ \/ next_index_time' = WithRows(StartUrls)
       \/ /\ "expire" \in Events
          /\ \E S \in SUBSET Urls :
               next_index_time' = [u \in Urls |->
                   IF u \in S /\ WithRows(StartUrls)[u] # "none" THEN "due"
                   ELSE WithRows(StartUrls)[u]]
    /\ UNCHANGED <<bad, confVars, started, creating, total_threads, sleep_threads,
                   have_sigint, threadVars>>

\* UdmAgentInit and UdmThreadCreate: the new thread runs at once, although
\* total_threads does not count it yet.
CreateThread(t) ==
    LET p == ProcOf[t] IN
    /\ pc[t] = "new"
    /\ begun[p]
    /\ ~creating[p]
    /\ LockFree(p)
    /\ pc' = [pc EXCEPT ![t] = "top"]
    /\ creating' = [creating EXCEPT ![p] = TRUE]
    /\ UNCHANGED <<dbVars, confVars, begun, started, total_threads, sleep_threads,
                   have_sigint, res, i_sleep, action, doc, docGone, verdict>>

\* total_threads= i + 1: an assignment, whatever exited threads subtracted.
CountThread(p) ==
    /\ creating[p]
    /\ LockFree(p)
    /\ started' = [started EXCEPT ![p] = @ + 1]
    /\ total_threads' = [total_threads EXCEPT ![p] = started[p] + 1]
    /\ creating' = [creating EXCEPT ![p] = FALSE]
    /\ UNCHANGED <<dbVars, confVars, begun, sleep_threads, have_sigint, threadVars>>

-----------------------------------------------------------------------------
(* thread_main                                                             *)

\* Mutant: only the threads that sleep are told to stop.
LoopTopMutant(t) ==
    LET p == ProcOf[t] IN
    /\ pc[t] = "top"
    /\ LockFree(p)
    /\ action' = IF have_sigint[p]
                 THEN [s \in Threads |-> IF ProcOf[s] = p /\ i_sleep[s]
                                         THEN "TERMINATED" ELSE action[s]]
                 ELSE action
    /\ have_sigint' = [have_sigint EXCEPT ![p] = FALSE]
    /\ pc' = [pc EXCEPT ![t] = IF res[t] \in {"OK", "NOTARGET"} THEN "store" ELSE "switch"]
    /\ UNCHANGED <<dbVars, confVars, begun, started, creating, total_threads,
                   sleep_threads, res, i_sleep, doc, docGone, verdict>>

\* The top of the loop: a pending SIGINT or SIGTERM is turned into a request
\* to every thread that has been created, and forgotten.  A thread whose res
\* is an error or TERMINATED does not index any more.
LoopTop(t) ==
    LET p == ProcOf[t] IN
    /\ pc[t] = "top"
    /\ LockFree(p)
    /\ action' = IF have_sigint[p]
                 THEN [s \in Threads |-> IF ProcOf[s] = p /\ pc[s] # "new"
                                         THEN "TERMINATED" ELSE action[s]]
                 ELSE action
    /\ have_sigint' = [have_sigint EXCEPT ![p] = FALSE]
    /\ pc' = [pc EXCEPT ![t] = IF res[t] \in {"OK", "NOTARGET"} THEN "store" ELSE "switch"]
    /\ UNCHANGED <<dbVars, confVars, begun, started, creating, total_threads,
                   sleep_threads, res, i_sleep, doc, docGone, verdict>>

\* max_index_time (indexer -c) has passed.
TimeUp(t) ==
    /\ "timeUp" \in Events
    /\ pc[t] = "top"
    /\ pc' = [pc EXCEPT ![t] = "fin"]
    /\ UNCHANGED <<dbVars, confVars, poolVars, res, i_sleep, action, doc, docGone, verdict>>

\* Mutant: a thread that failed is not counted as sleeping.
SwitchResMutant(t) ==
    LET p == ProcOf[t] IN
    /\ pc[t] = "switch"
    /\ LockFree(p)
    /\ i_sleep' = [i_sleep EXCEPT ![t] = (res[t] = "NOTARGET")]
    /\ sleep_threads' = [sleep_threads EXCEPT ![p] =
           IF res[t] = "NOTARGET" THEN (IF i_sleep[t] THEN @ ELSE @ + 1)
                                  ELSE (IF i_sleep[t] THEN @ - 1 ELSE @)]
    /\ pc' = [pc EXCEPT ![t] = IF res[t] = "OK" THEN "top" ELSE "test"]
    /\ UNCHANGED <<dbVars, confVars, begun, started, creating, total_threads,
                   have_sigint, res, action, doc, docGone, verdict>>

\* The switch on res: a thread that worked is awake again, any other thread
\* counts itself as sleeping, once.
SwitchRes(t) ==
    LET p == ProcOf[t] IN
    /\ pc[t] = "switch"
    /\ LockFree(p)
    /\ i_sleep' = [i_sleep EXCEPT ![t] = (res[t] # "OK")]
    /\ sleep_threads' = [sleep_threads EXCEPT ![p] =
           IF res[t] = "OK" THEN (IF i_sleep[t] THEN @ - 1 ELSE @)
                            ELSE (IF i_sleep[t] THEN @ ELSE @ + 1)]
    /\ pc' = [pc EXCEPT ![t] = IF res[t] = "OK" THEN "top" ELSE "test"]
    /\ UNCHANGED <<dbVars, confVars, begun, started, creating, total_threads,
                   have_sigint, res, action, doc, docGone, verdict>>

\* done= (sleep_threads >= total_threads), in a critical section of its own.
TestDone(t) ==
    LET p == ProcOf[t] IN
    /\ pc[t] = "test"
    /\ LockFree(p)
    /\ pc' = [pc EXCEPT ![t] = IF sleep_threads[p] >= total_threads[p] THEN "fin" ELSE "top"]
    /\ UNCHANGED <<dbVars, confVars, poolVars, res, i_sleep, action, doc, docGone, verdict>>

\* After the loop: unless res is an error, the (always empty) document cache
\* and the word cache are flushed; the thread leaves the count.  The flush is
\* taken to succeed.
ExitThread(t) ==
    LET p == ProcOf[t] IN
    /\ pc[t] = "fin"
    /\ LockFree(p)
    /\ total_threads' = [total_threads EXCEPT ![p] = @ - 1]
    /\ pc' = [pc EXCEPT ![t] = "dead"]
    /\ UNCHANGED <<dbVars, confVars, begun, started, creating, sleep_threads,
                   have_sigint, res, i_sleep, action, doc, docGone, verdict>>

-----------------------------------------------------------------------------
(* UdmIndexNextURL                                                         *)

\* Mutant: the error path forgets to drop the target.
FailMutant(t) ==
    /\ res' = [res EXCEPT ![t] = "ERROR"]
    /\ verdict' = [verdict EXCEPT ![t] = "none"]
    /\ pc' = [pc EXCEPT ![t] = "switch"]
    /\ UNCHANGED <<doc, docGone>>

\* Thread t has no target any more.
Drop(t) ==
    /\ doc' = [doc EXCEPT ![t] = NoUrl]
    /\ docGone' = [docGone EXCEPT ![t] = FALSE]
    /\ verdict' = [verdict EXCEPT ![t] = "none"]

\* goto ret with an error: the target, if any, is dropped and stays leased.
Fail(t) ==
    /\ res' = [res EXCEPT ![t] = "ERROR"]
    /\ Drop(t)
    /\ pc' = [pc EXCEPT ![t] = "switch"]

\* What UdmStoreHrefs is called before: the check for a target, the update.
AfterStore == [store |-> "check", store2 |-> "update"]

\* UdmStoreHrefs, called before a target is taken and after it was parsed.
StoreHrefs(t) ==
    LET p == ProcOf[t] IN
    /\ pc[t] \in DOMAIN AfterStore
    /\ LockFree(p)
    /\ next_index_time' = WithRows(hrefs[p])
    /\ hrefs' = [hrefs EXCEPT ![p] = {}]
    /\ pc' = [pc EXCEPT ![t] = AfterStore[pc[t]]]
    /\ UNCHANGED <<bad, targets, marking, lockOwner, url_number, gone, unseen, poolVars,
                   res, i_sleep, action, doc, docGone, verdict>>

\* An INSERT fails: the URLs before the failing one have rows, the failing one
\* is marked stored all the same, and the rest may or may not be tried again
\* (module HrefCache tells when).
StoreHrefsError(t) ==
    LET p == ProcOf[t] IN
    /\ "dbError" \in Events
    /\ pc[t] \in DOMAIN AfterStore
    /\ LockFree(p)
    /\ \E S \in SUBSET hrefs[p] :
         \E failing \in hrefs[p] \ S :
           \E R \in SUBSET (hrefs[p] \ (S \cup {failing})) :
              /\ next_index_time' = WithRows(S)
              /\ hrefs' = [hrefs EXCEPT ![p] = R]
    /\ Fail(t)
    /\ UNCHANGED <<bad, targets, marking, lockOwner, url_number, gone, unseen, poolVars,
                   i_sleep, action>>

\* With a database whose COMMIT is good (SQLite, Oracle, ...) the rows are
\* inserted in a transaction.  A failing BEGIN or COMMIT ends UdmStoreHrefs
\* with UDM_OK: the first entry is marked stored and the rest may or may not
\* be tried again, or all are marked stored and none has its row; the thread
\* goes on as if nothing had happened.
StoreHrefsUnseen(t) ==
    LET p == ProcOf[t] IN
    /\ "dbError" \in Events
    /\ pc[t] \in DOMAIN AfterStore
    /\ LockFree(p)
    /\ \E failing \in hrefs[p] :
         \E R \in SUBSET (hrefs[p] \ {failing}) : hrefs' = [hrefs EXCEPT ![p] = R]
    /\ unseen' = [unseen EXCEPT ![p] = TRUE]
    /\ pc' = [pc EXCEPT ![t] = AfterStore[pc[t]]]
    /\ UNCHANGED <<dbVars, targets, marking, lockOwner, url_number, gone, poolVars,
                   res, i_sleep, action, doc, docGone, verdict>>

\* Indexer->action is read without a lock.
CheckAction(t) ==
    /\ pc[t] = "check"
    /\ res' = [res EXCEPT ![t] = IF action[t] = "OK" THEN @ ELSE action[t]]
    /\ pc' = [pc EXCEPT ![t] = IF action[t] = "OK" THEN "next" ELSE "switch"]
    /\ UNCHANGED <<dbVars, confVars, poolVars, i_sleep, action, doc, docGone, verdict>>

\* Mutant: the SELECT has a limit of its own, whatever is left of -n.
BatchesMutantLimit(p) ==
    {S \in SUBSET Due : \/ S = Due /\ Cardinality(Due) <= CacheSize
                        \/ Cardinality(S) = CacheSize}

\* Mutant: the SELECT does not ask for next_index_time <= now.
BatchesMutantTime(p) ==
    {S \in SUBSET Urls : S # {} /\ Cardinality(S) <= CacheSize
                         /\ \A u \in S : next_index_time[u] # "none"}

\* The rows one SELECT of UdmTargetsSQL may return: LIMIT url_num, in an
\* order the model leaves open (ORDER BY seed, a hash of the URL).
Batches(p) ==
    LET limit == IF url_number[p] < CacheSize THEN url_number[p] ELSE CacheSize IN
    {S \in SUBSET Due : \/ S = Due /\ Cardinality(Due) <= limit
                        \/ Cardinality(S) = limit}

\* Thread t leaves UdmNextTarget with row u, the others stay in Targets.
HandOut(t, S, u) ==
    LET p == ProcOf[t] IN
    /\ targets' = [targets EXCEPT ![p] = S \ {u}]
    /\ url_number' = [url_number EXCEPT ![p] = IF Limited THEN @ - 1 ELSE @]
    /\ doc' = [doc EXCEPT ![t] = u]
    /\ docGone' = [docGone EXCEPT ![t] = u \in gone[p]]
    /\ gone' = [gone EXCEPT ![p] = @ \ {u}]
    /\ pc' = [pc EXCEPT ![t] = "fetch"]

\* Mutant: no UPDATE at all.
LeasedMutant(S) == next_index_time

\* UPDATE url SET next_index_time = now + URL_LOCK_TIME WHERE rec_id IN S
Leased(S) ==
    [u \in Urls |-> IF u \in S /\ next_index_time[u] # "none" THEN "later"
                    ELSE next_index_time[u]]

\* UdmNextTarget when rows are left in Targets.
NextTargetCached(t) ==
    LET p == ProcOf[t] IN
    /\ pc[t] = "next"
    /\ LockFree(p)
    /\ url_number[p] > 0
    /\ \E u \in targets[p] : HandOut(t, targets[p], u)
    /\ UNCHANGED <<dbVars, marking, lockOwner, hrefs, unseen, poolVars, res, i_sleep,
                   action, verdict>>

\* UdmNextTarget with a reload that LOCK TABLES makes atomic for everyone.
NextTargetLoad(t) ==
    LET p == ProcOf[t] IN
    /\ pc[t] = "next"
    /\ LockFree(p)
    /\ ~SkipLock
    /\ url_number[p] > 0
    /\ targets[p] = {}
    /\ \E S \in Batches(p) :
         /\ next_index_time' = Leased(S)
         /\ \E u \in S : HandOut(t, S, u)
    /\ UNCHANGED <<bad, marking, lockOwner, hrefs, unseen, poolVars, res, i_sleep, action,
                   verdict>>

\* The same with URLSelectSkipLock: first the SELECT ...
NextTargetSelect(t) ==
    LET p == ProcOf[t] IN
    /\ pc[t] = "next"
    /\ LockFree(p)
    /\ SkipLock
    /\ url_number[p] > 0
    /\ targets[p] = {}
    /\ \E S \in Batches(p) : S # {} /\ marking' = [marking EXCEPT ![p] = S]
    /\ lockOwner' = [lockOwner EXCEPT ![p] = t]
    /\ pc' = [pc EXCEPT ![t] = "mark"]
    /\ UNCHANGED <<dbVars, targets, url_number, gone, hrefs, unseen, poolVars, res, i_sleep,
                   action, doc, docGone, verdict>>

\* Mutant: the UPDATE leases the row that is handed out, and no other.
NextTargetMarkMutant(t) ==
    LET p == ProcOf[t] IN
    /\ pc[t] = "mark"
    /\ \E u \in marking[p] : /\ next_index_time' = Leased({u})
                            /\ HandOut(t, marking[p], u)
    /\ marking' = [marking EXCEPT ![p] = {}]
    /\ lockOwner' = [lockOwner EXCEPT ![p] = NoThread]
    /\ UNCHANGED <<bad, hrefs, unseen, poolVars, res, i_sleep, action, verdict>>

\* ... and then, the process's locks still held, the UPDATE.
NextTargetMark(t) ==
    LET p == ProcOf[t] IN
    /\ pc[t] = "mark"
    /\ next_index_time' = Leased(marking[p] \ gone[p])
    /\ \E u \in marking[p] : HandOut(t, marking[p], u)
    /\ marking' = [marking EXCEPT ![p] = {}]
    /\ lockOwner' = [lockOwner EXCEPT ![p] = NoThread]
    /\ UNCHANGED <<bad, hrefs, unseen, poolVars, res, i_sleep, action, verdict>>

\* Mutant: an empty Targets is taken for the end, without a SELECT.
NextTargetNoneMutant(t) ==
    LET p == ProcOf[t] IN
    /\ pc[t] = "next"
    /\ LockFree(p)
    /\ url_number[p] <= 0 \/ targets[p] = {}
    /\ res' = [res EXCEPT ![t] = "NOTARGET"]
    /\ pc' = [pc EXCEPT ![t] = "switch"]
    /\ UNCHANGED <<dbVars, confVars, poolVars, i_sleep, action, doc, docGone, verdict>>

\* UDM_NOTARGET: the -n limit is used up, or no URL is due.
NextTargetNone(t) ==
    LET p == ProcOf[t] IN
    /\ pc[t] = "next"
    /\ LockFree(p)
    /\ url_number[p] <= 0 \/ (targets[p] = {} /\ Due = {})
    /\ res' = [res EXCEPT ![t] = "NOTARGET"]
    /\ pc' = [pc EXCEPT ![t] = "switch"]
    /\ UNCHANGED <<dbVars, confVars, poolVars, i_sleep, action, doc, docGone, verdict>>

\* The reload fails before it has any row.  When the SELECT is what fails, what
\* ends LOCK TABLES (or BEGIN) overwrites rc, and UdmNextTarget takes the empty
\* Targets for UDM_NOTARGET.
NextTargetError(t) ==
    LET p == ProcOf[t] IN
    /\ "dbError" \in Events
    /\ pc[t] = "next"
    /\ LockFree(p)
    /\ url_number[p] > 0
    /\ targets[p] = {}
    /\ \/ Fail(t) /\ UNCHANGED unseen
       \/ /\ ~SkipLock
          /\ res' = [res EXCEPT ![t] = "NOTARGET"]
          /\ pc' = [pc EXCEPT ![t] = "switch"]
          /\ unseen' = [unseen EXCEPT ![p] = TRUE]
          /\ UNCHANGED <<doc, docGone, verdict>>
    /\ UNCHANGED <<dbVars, targets, marking, lockOwner, url_number, gone, hrefs, poolVars,
                   i_sleep, action>>

\* The UPDATE fails when the rows are in Targets already.  What ends LOCK
\* TABLES overwrites rc here too, so the failure is only seen without it or
\* when that fails as well; either way the rows are in Targets without a lease.
NextTargetMarkError(t) ==
    LET p == ProcOf[t] IN
    /\ "markError" \in Events
    /\ pc[t] = "next"
    /\ LockFree(p)
    /\ url_number[p] > 0
    /\ targets[p] = {}
    /\ \E S \in Batches(p) \ {{}} :
         \/ /\ ~SkipLock
            /\ \E u \in S : HandOut(t, S, u)
            /\ UNCHANGED <<res, verdict>>
         \/ /\ targets' = [targets EXCEPT ![p] = S]
            /\ Fail(t)
            /\ UNCHANGED <<url_number, gone>>
    /\ UNCHANGED <<dbVars, marking, lockOwner, hrefs, unseen, poolVars, i_sleep, action>>

\* What a document may be to HoldBadHrefs, the one reader of a row's status.
Statuses == IF HoldBadHrefs THEN {"good", "bad"} ELSE {"good"}

\* The document is not downloaded: bad URL, robots.txt, no Server, a filter
\* (DISALLOW: the row will be deleted); too many network errors (status 503) or
\* VISITLATER (the row will be rescheduled).
SkipDocument(t) ==
    /\ pc[t] = "fetch"
    /\ \E v \in {"delete"} \cup Statuses : verdict' = [verdict EXCEPT ![t] = v]
    /\ pc' = [pc EXCEPT ![t] = "store2"]
    /\ UNCHANGED <<dbVars, confVars, poolVars, res, i_sleep, action, doc, docGone>>

\* The document is downloaded; a "Location:" link is put into the link cache
\* at once, "to give a chance for a concurrent thread to take it".
Download(t) ==
    LET p == ProcOf[t] IN
    /\ pc[t] = "fetch"
    /\ \E L \in {{}} \cup {{v} : v \in Links[doc[t]]} :
         hrefs' = [hrefs EXCEPT ![p] = @ \cup L]
    /\ LockFree(p)
    /\ pc' = [pc EXCEPT ![t] = "parse"]
    /\ UNCHANGED <<dbVars, targets, marking, lockOwner, url_number, gone, unseen, poolVars,
                   res, i_sleep, action, doc, docGone, verdict>>

\* Mutant: UdmStoreHrefs is only called before a target is taken.
ParseDocumentMutant(t) ==
    LET p == ProcOf[t] IN
    /\ pc[t] = "parse"
    /\ LockFree(p)
    /\ \E L \in {{}, Links[doc[t]]} : hrefs' = [hrefs EXCEPT ![p] = @ \cup L]
    /\ verdict' = [verdict EXCEPT ![t] = "good"]
    /\ pc' = [pc EXCEPT ![t] = "update"]
    /\ UNCHANGED <<dbVars, targets, marking, lockOwner, url_number, gone, unseen, poolVars,
                   res, i_sleep, action, doc, docGone>>

\* An answer that is not 200 or 206 has no links, any other one is parsed and
\* its links go to the link cache.
ParseDocument(t) ==
    LET p == ProcOf[t] IN
    /\ pc[t] = "parse"
    /\ LockFree(p)
    /\ \/ /\ UNCHANGED hrefs
          /\ \E v \in Statuses : verdict' = [verdict EXCEPT ![t] = v]
       \/ /\ hrefs' = [hrefs EXCEPT ![p] = @ \cup Links[doc[t]]]
          /\ verdict' = [verdict EXCEPT ![t] = "good"]
    /\ pc' = [pc EXCEPT ![t] = "store2"]
    /\ UNCHANGED <<dbVars, targets, marking, lockOwner, url_number, gone, unseen, poolVars,
                   res, i_sleep, action, doc, docGone>>

\* UdmDocCheck, UdmRobotsCheck, UdmDocParseContent, UdmDocStoreHrefs or
\* LINKS_DELETE failed: the document is given up without an update.
DocError(t) ==
    /\ "docError" \in Events
    /\ pc[t] \in {"fetch", "parse"}
    /\ Fail(t)
    /\ UNCHANGED <<dbVars, confVars, poolVars, i_sleep, action>>

\* The rows UdmDeleteBadHrefs may find when document u has been updated: bad
\* ones with u as referrer, which is a document that has a link to them.  For
\* how long they have been bad is left open.
BadHrefs(u) == IF HoldBadHrefs THEN SUBSET (bad \cap Links[u]) ELSE {{}}

\* Mutant: the row is found by its URL.
OwnRowMutant(t) == {doc[t]}

\* The row with the rec_id of t's target.
OwnRow(t) == IF docGone[t] THEN {} ELSE {doc[t]}

\* DocUpdate: the own row is deleted or gets its status and next_index_time,
\* and the rows of B are deleted, whoever has them.
DocUpdate(t, B) ==
    LET deleted == B \cup (IF verdict[t] = "delete" THEN OwnRow(t) ELSE {}) IN
    /\ next_index_time' = [u \in Urls |-> IF u \in deleted THEN "none"
                                          ELSE Leased(OwnRow(t))[u]]
    /\ bad' = ((bad \ OwnRow(t)) \cup (IF verdict[t] = "bad" THEN OwnRow(t) ELSE {})) \ deleted
    /\ gone' = [p \in Procs |-> gone[p] \cup (deleted \cap (targets[p] \cup marking[p]))]
    /\ doc' = [doc EXCEPT ![t] = NoUrl]
    /\ docGone' = [s \in Threads |-> s # t /\ (docGone[s] \/ doc[s] \in deleted)]
    /\ verdict' = [verdict EXCEPT ![t] = "none"]

\* UDM_URL_ACTION_FLUSH.
UpdateDocument(t) ==
    /\ pc[t] = "update"
    /\ LockFree(ProcOf[t])
    /\ \E B \in BadHrefs(doc[t]) : DocUpdate(t, B)
    /\ pc' = [pc EXCEPT ![t] = "result"]
    /\ UNCHANGED <<targets, marking, lockOwner, url_number, hrefs, unseen, poolVars,
                   res, i_sleep, action>>

\* A statement of DocUpdate fails, before or after the own row's, with some of
\* the bad rows deleted.
UpdateError(t) ==
    /\ "dbError" \in Events
    /\ pc[t] = "update"
    /\ LockFree(ProcOf[t])
    /\ \/ Drop(t) /\ UNCHANGED <<dbVars, gone>>
       \/ \E B \in BadHrefs(doc[t]) : DocUpdate(t, B)
    /\ res' = [res EXCEPT ![t] = "ERROR"]
    /\ pc' = [pc EXCEPT ![t] = "switch"]
    /\ UNCHANGED <<targets, marking, lockOwner, url_number, hrefs, unseen, poolVars,
                   i_sleep, action>>

\* rc= Indexer->action, in a critical section of its own.
TakeResult(t) ==
    /\ pc[t] = "result"
    /\ LockFree(ProcOf[t])
    /\ res' = [res EXCEPT ![t] = action[t]]
    /\ pc' = [pc EXCEPT ![t] = "switch"]
    /\ UNCHANGED <<dbVars, confVars, poolVars, i_sleep, action, doc, docGone, verdict>>

-----------------------------------------------------------------------------
(* The outside world                                                       *)

Running(p) == \E t \in ThreadsOf(p) : pc[t] \notin {"new", "dead"}

Signal(p) ==
    /\ "signal" \in Events
    /\ Running(p)
    /\ have_sigint' = [have_sigint EXCEPT ![p] = TRUE]
    /\ UNCHANGED <<dbVars, confVars, begun, started, creating, total_threads,
                   sleep_threads, threadVars>>

\* The process is killed: what it had in memory is gone, its leases stay.
Crash(p) ==
    /\ "crash" \in Events
    /\ Running(p)
    /\ targets' = [targets EXCEPT ![p] = {}]
    /\ marking' = [marking EXCEPT ![p] = {}]
    /\ gone' = [gone EXCEPT ![p] = {}]
    /\ lockOwner' = [lockOwner EXCEPT ![p] = NoThread]
    /\ hrefs' = [hrefs EXCEPT ![p] = {}]
    /\ creating' = [creating EXCEPT ![p] = FALSE]
    /\ pc' = [t \in Threads |-> IF ProcOf[t] = p THEN "dead" ELSE pc[t]]
    /\ res' = [t \in Threads |-> IF ProcOf[t] = p THEN "ERROR" ELSE res[t]]
    /\ doc' = [t \in Threads |-> IF ProcOf[t] = p THEN NoUrl ELSE doc[t]]
    /\ docGone' = [t \in Threads |-> ProcOf[t] # p /\ docGone[t]]
    /\ verdict' = [t \in Threads |-> IF ProcOf[t] = p THEN "none" ELSE verdict[t]]
    /\ UNCHANGED <<dbVars, url_number, unseen, begun, started, total_threads, sleep_threads,
                   have_sigint, i_sleep, action>>

\* next_index_time passes for a URL nobody works on: its Period or delay, or
\* the lease of a process that crashed or gave the document up.
PeriodElapses(u) ==
    /\ "periodElapses" \in Events
    /\ next_index_time[u] = "later"
    /\ ~Held(u)
    /\ next_index_time' = [next_index_time EXCEPT ![u] = "due"]
    /\ UNCHANGED <<bad, confVars, poolVars, threadVars>>

\* URL_LOCK_TIME passes for a URL that is still in use, as one that waits in
\* Targets behind enough slow documents.
LeaseElapses(u) ==
    /\ "leaseElapses" \in Events
    /\ next_index_time[u] = "later"
    /\ Held(u)
    /\ next_index_time' = [next_index_time EXCEPT ![u] = "due"]
    /\ UNCHANGED <<bad, confVars, poolVars, threadVars>>

\* Every thread has been created and all have returned; UdmIndex has joined
\* them (or the process was killed).
Ended(p) == \A t \in ThreadsOf(p) : pc[t] = "dead" /\ ~creating[p]

Finished ==
    /\ \A p \in Procs : Ended(p)
    /\ UNCHANGED vars

-----------------------------------------------------------------------------
IndexNextURL(t) ==
    \/ StoreHrefs(t) \/ StoreHrefsError(t) \/ StoreHrefsUnseen(t) \/ CheckAction(t)
    \/ NextTargetCached(t) \/ NextTargetLoad(t) \/ NextTargetSelect(t)
    \/ NextTargetMark(t) \/ NextTargetNone(t)
    \/ NextTargetError(t) \/ NextTargetMarkError(t)
    \/ SkipDocument(t) \/ Download(t) \/ ParseDocument(t) \/ DocError(t)
    \/ UpdateDocument(t) \/ UpdateError(t) \/ TakeResult(t)

ThreadStep(t) ==
    \/ LoopTop(t) \/ SwitchRes(t) \/ TestDone(t) \/ ExitThread(t)
    \/ IndexNextURL(t)

Next ==
    \/ \E t \in Threads : CreateThread(t) \/ ThreadStep(t) \/ TimeUp(t)
    \/ \E p \in Procs : StartCrawl(p) \/ CountThread(p) \/ Signal(p) \/ Crash(p)
    \/ \E u \in Urls : PeriodElapses(u) \/ LeaseElapses(u)
    \/ Finished

Spec == Init /\ [][Next]_vars

\* The operating system runs every thread of a process that is alive, and
\* nothing else is assumed: no time limit (indexer -c) has to come to help.
Fairness ==
    /\ \A t \in Threads : WF_vars(CreateThread(t)) /\ WF_vars(ThreadStep(t))
    /\ \A p \in Procs : WF_vars(StartCrawl(p)) /\ WF_vars(CountThread(p))

FairSpec == Spec /\ Fairness

-----------------------------------------------------------------------------
(* Properties                                                              *)

\* The state has the expected shape, and a thread has a target exactly while
\* UdmIndexNextURL works on one.
TypeOK ==
    /\ next_index_time \in [Urls -> {"none", "due", "later"}]
    /\ bad \in SUBSET Urls
    /\ targets \in [Procs -> SUBSET Urls]
    /\ marking \in [Procs -> SUBSET Urls]
    /\ lockOwner \in [Procs -> Threads \cup {NoThread}]
    /\ url_number \in [Procs -> Nat]
    /\ gone \in [Procs -> SUBSET Urls]
    /\ hrefs \in [Procs -> SUBSET Urls]
    /\ unseen \in [Procs -> BOOLEAN]
    /\ begun \in [Procs -> BOOLEAN]
    /\ started \in [Procs -> Nat]
    /\ creating \in [Procs -> BOOLEAN]
    /\ total_threads \in [Procs -> Int]
    /\ sleep_threads \in [Procs -> Int]
    /\ have_sigint \in [Procs -> BOOLEAN]
    /\ pc \in [Threads -> PCs]
    /\ res \in [Threads -> Results]
    /\ i_sleep \in [Threads -> BOOLEAN]
    /\ action \in [Threads -> {"OK", "TERMINATED"}]
    /\ doc \in [Threads -> Urls \cup {NoUrl}]
    /\ docGone \in [Threads -> BOOLEAN]
    /\ verdict \in [Threads -> {"none", "delete", "good", "bad"}]
    /\ \A p \in Procs : gone[p] \subseteq targets[p] \cup marking[p]
    /\ \A t \in Threads : doc[t] # NoUrl <=> pc[t] \in {"fetch", "parse", "store2", "update"}

\* No double crawling (doc/general.xml: the locks around UdmTargetsSQL are
\* there "to avoid double crawling of the same documents by simultaneous
\* indexer processes"): a row that a thread works on, or that waits in the
\* Targets of a process, is with nobody else.  Without HoldBadHrefs nobody
\* works on a row that is gone, so the same holds of URLs.  With it a URL in
\* use may lose its row and get another one, which is then crawled as well.
NoDoubleCrawl ==
    /\ \A u \in Urls :
        /\ \A s, t \in Threads : Holds(s, u) /\ Holds(t, u) => s = t
        /\ \A p, q \in Procs : Caches(p, u) /\ Caches(q, u) => p = q
        /\ \A t \in Threads, p \in Procs : ~(Holds(t, u) /\ Caches(p, u))
    /\ ~HoldBadHrefs => /\ \A p \in Procs : gone[p] = {}
                        /\ \A t \in Threads : ~docGone[t]

\* The two-action critical section: its thread owns the locks of its process,
\* and rows are marked only inside it, with something left of the -n limit and
\* nothing left in Targets.
\* A process that has not begun has no thread and no target.
LockInv ==
    /\ \A t \in Threads : pc[t] = "mark" <=> lockOwner[ProcOf[t]] = t
    /\ \A p \in Procs : lockOwner[p] # NoThread => ProcOf[lockOwner[p]] = p
    /\ \A t \in Threads : pc[t] = "mark" => /\ SkipLock /\ url_number[ProcOf[t]] > 0
                                         /\ targets[ProcOf[t]] = {}
    /\ \A p \in Procs : marking[p] # {} => lockOwner[p] # NoThread
    /\ \A p \in Procs : ~begun[p] => targets[p] = {} /\ \A t \in ThreadsOf(p) : pc[t] = "new"

\* Why there is no double crawling: the row of every URL in use says "later",
\* so no SELECT of UdmTargetsSQL returns it, and a row between SELECT and
\* UPDATE is in nobody's hands.
LeaseInv ==
    /\ \A u \in Urls : Held(u) => next_index_time[u] = "later"
    /\ \A p \in Procs : \A u \in marking[p] \ gone[p] : next_index_time[u] = "due"
    /\ NoDoubleCrawl

\* What the crawler promises with the rows of the table, the Targets of the
\* processes and the documents of the threads: selecting rows and pushing
\* their next_index_time amounts to taking URLs in one step, from which they
\* do not come back before they are done with (UdmTargetsSQL, DocUpdate) or
\* their rows are deleted.
Waiting == [p \in Procs |-> targets[p] \ gone[p]]
Work    == [t \in Threads |-> IF docGone[t] THEN NoUrl ELSE doc[t]]

Queue == INSTANCE LeasedQueue WITH row <- next_index_time, waiting <- Waiting, work <- Work

ImplementsQueue == Queue!Spec

\* indexer -n: a process never leases more rows than it may still hand out,
\* so the limit strands no URL for URL_LOCK_TIME.
LeasesWithinLimit ==
    \A p \in Procs : Cardinality(targets[p] \cup marking[p]) <= url_number[p]

\* When every thread of the only process has left its loop because it found
\* no target, nothing it knew of is left undone: no URL is due, none waits in
\* Targets and no link waits in the link cache (unless -n stopped it, or a
\* database error was returned as UDM_OK).
NothingLeftBehind ==
    \A p \in Procs :
        /\ Procs = {p} /\ ~unseen[p]
        /\ \A t \in ThreadsOf(p) : pc[t] = "dead" /\ res[t] = "NOTARGET"
        => /\ targets[p] = {} /\ hrefs[p] = {}
           /\ url_number[p] > 0 => Due = {}

\* Why nothing is left behind: while something is due or cached, some thread
\* is not done with its search for targets, and links in the cache have a
\* thread on its way to UdmStoreHrefs, unless that thread failed or an error
\* passed unseen.
Searching(t) == pc[t] = "new" \/ doc[t] # NoUrl \/ pc[t] = "result" \/ res[t] # "NOTARGET"

WorkInv ==
    /\ \A t \in Threads : /\ res[t] \in {"ERROR", "TERMINATED"}
                             => pc[t] \in {"top", "switch", "test", "fin", "dead"}
                          /\ pc[t] = "new" => res[t] = "OK"
    /\ \A p \in Procs :
         Procs = {p} /\ ~unseen[p] =>
           /\ hrefs[p] # {} => \E t \in Threads : pc[t] \in {"parse", "store2"} \/ res[t] = "ERROR"
           /\ url_number[p] > 0 /\ (Due # {} \/ targets[p] # {}) => \E t \in Threads : Searching(t)

\* thread_main's comment: "we should wait for a moment when every thread has
\* nothing to do".  A thread leaves the loop for lack of targets only when no
\* thread of its process works on a target.
LeaveWhenAllIdle ==
    [][\A t \in Threads :
          pc[t] = "test" /\ pc'[t] = "fin"
          => \A s \in ThreadsOf(ProcOf[t]) : doc[s] = NoUrl]_vars

\* Thread t deletes a row that somebody found bad.
DeletesBad(t) == pc[t] = "update" /\ \E u \in bad \ {doc[t]} : next_index_time'[u] = "none"

\* Every process comes to its end: no thread waits for ever for the others to
\* sleep, whatever order they started, failed and exited in.  Only URLs that
\* become due again and again, that are never leased because the UPDATE fails
\* every time, or whose rows UdmDeleteBadHrefs deletes again and again, keep
\* it going.
EveryProcessEnds ==
    \A p \in Procs :
        \/ <>[]Ended(p)
        \/ []<><<\/ \E u \in Urls : PeriodElapses(u) \/ LeaseElapses(u)
                 \/ \E t \in Threads : NextTargetMarkError(t) \/ DeletesBad(t)>>_vars

\* A process that gets SIGINT or SIGTERM once all its threads run ends, even
\* when URLs become due faster than it can index them.
SignalEndsProcess ==
    \A p \in Procs :
        have_sigint[p] /\ ~creating[p] /\ (\A t \in ThreadsOf(p) : pc[t] # "new")
        ~> Ended(p)
=============================================================================
