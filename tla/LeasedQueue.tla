---------------------------- MODULE LeasedQueue ----------------------------
(***************************************************************************)
(* What the selection of targets promises the crawlers of one database: a  *)
(* URL that is due is taken by one process, which gives it to one of its   *)
(* threads, and nobody else gets it until that thread is done with it, its *)
(* process is killed or its row is deleted.  To select URLs and to lease   *)
(* them is one step here, and a URL that is taken cannot become due: the   *)
(* code has to earn both with a timestamp that does not say who set it.    *)
(***************************************************************************)
CONSTANTS Urls, Procs, Threads, ProcOf, NoUrl

VARIABLES
    row,      \* "none" (nobody knows the URL), "due" or "later"
    waiting,  \* the URLs a process has taken and given to no thread yet
    work      \* the URL a thread works on

vars == <<row, waiting, work>>

Taken(u) == (\E t \in Threads : work[t] = u) \/ (\E p \in Procs : u \in waiting[p])

Init ==
    /\ row = [u \in Urls |-> "none"]
    /\ waiting = [p \in Procs |-> {}]
    /\ work = [t \in Threads |-> NoUrl]

\* URLs nobody has taken become due: they are new, or their time has come.
BecomeDue(S) ==
    /\ \A u \in S : ~Taken(u)
    /\ row' = [u \in Urls |-> IF u \in S THEN "due" ELSE row[u]]

Renew(S) == BecomeDue(S) /\ UNCHANGED <<waiting, work>>

\* A process whose URLs are all given away takes those of S; t gets one of
\* them, or none when the row of the one it was to get is gone.
Take(t, S, u) ==
    /\ work[t] = NoUrl
    /\ waiting[ProcOf[t]] = {}
    /\ \A x \in S : row[x] = "due" /\ ~Taken(x)
    /\ row' = [x \in Urls |-> IF x \in S THEN "later" ELSE row[x]]
    /\ waiting' = [waiting EXCEPT ![ProcOf[t]] = S \ {u}]
    /\ work' = [work EXCEPT ![t] = u]

\* t gets a URL its process has taken before.
TakeWaiting(t, u) ==
    /\ work[t] = NoUrl
    /\ u \in waiting[ProcOf[t]]
    /\ waiting' = [waiting EXCEPT ![ProcOf[t]] = @ \ {u}]
    /\ work' = [work EXCEPT ![t] = u]
    /\ UNCHANGED row

\* t is done with its URL, which comes back later; the rows of F are deleted,
\* and whoever has taken one of them has it no more.
Done(t, F) ==
    /\ row' = [u \in Urls |-> IF u \in F THEN "none" ELSE IF u = work[t] THEN "later" ELSE row[u]]
    /\ waiting' = [p \in Procs |-> waiting[p] \ F]
    /\ work' = [s \in Threads |-> IF s = t \/ work[s] \in F THEN NoUrl ELSE work[s]]

\* t gives up, perhaps with some of its links stored; its URL comes back later.
GiveUp(t, S) ==
    /\ BecomeDue(S)
    /\ work' = [work EXCEPT ![t] = NoUrl]
    /\ UNCHANGED waiting

\* The process p is killed: all it has taken comes back later.
Kill(p) ==
    /\ waiting' = [waiting EXCEPT ![p] = {}]
    /\ work' = [t \in Threads |-> IF ProcOf[t] = p THEN NoUrl ELSE work[t]]
    /\ UNCHANGED row

Next ==
    \/ \E S \in SUBSET Urls :
         \/ Renew(S)
         \/ \E t \in Threads : GiveUp(t, S) \/ Done(t, S) \/ \E u \in S \cup {NoUrl} : Take(t, S, u)
    \/ \E t \in Threads, u \in Urls : TakeWaiting(t, u)
    \/ \E p \in Procs : Kill(p)

Spec == Init /\ [][Next]_vars
=============================================================================
