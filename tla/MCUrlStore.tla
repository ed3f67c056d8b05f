----------------------------- MODULE MCUrlStore -----------------------------
(* Small instances of UrlStore for TLC.                                    *)
EXTENDS UrlStore, TLC

CONSTANTS p1, p2, t1, t2

OneProcess == [t \in Threads |-> p1]
TwoProcesses == [t \in Threads |-> IF t = t2 THEN p2 ELSE p1]

\* The second URL was found on the first.
Found12 == [u \in Urls |-> IF u = 2 THEN 1 ELSE 0]
=============================================================================
