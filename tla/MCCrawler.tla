----------------------------- MODULE MCCrawler -----------------------------
(* Small instances of Crawler for TLC.                                     *)
EXTENDS Crawler, TLC

CONSTANTS p1, p2, t1, t2, t3, a, b, c

OneProc == [t \in Threads |-> p1]
TwoProcs == [t \in Threads |-> IF t = t2 THEN p2 ELSE p1]

\* a links to b and c, and b back to a.
WebBack == (a :> {b, c}) @@ (b :> {a}) @@ (c :> {})
\* a and b link to each other.
Web2 == (a :> {b}) @@ (b :> {a})

\* a links to b.
WebOne == (a :> {b}) @@ (b :> {})

ThreadSymmetry == Permutations(Threads)
=============================================================================
