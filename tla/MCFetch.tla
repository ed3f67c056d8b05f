------------------------------ MODULE MCFetch ------------------------------
(* Small instances of Fetch for TLC.                                       *)
EXTENDS Fetch, TLC

CONSTANTS t1, t2, l1, l2

\* Host 1 has a robots.txt with rules, host 2 is crawled with Robots no.
Rules1 == [h \in Hosts |-> IF h = 1 THEN 1 ELSE 0]
RobotsBut2 == [h \in Hosts |-> [p \in Paths |-> IF h = 2 THEN 0 ELSE 1]]
OneLock == [h \in Hosts |-> l1]
=============================================================================
