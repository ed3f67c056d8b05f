------------------------------- MODULE LinkSet -------------------------------
(***************************************************************************)
(* What the link cache promises: it is a set of URLs to be saved.  A link  *)
(* that is found gets pending, whether it is known or not; a pending link  *)
(* gets a row and is pending no more.  No link disappears in between.      *)
(***************************************************************************)
CONSTANTS Urls, StartUrls

VARIABLES pending, rows

Init == pending = StartUrls /\ rows = {}

Find(u) ==
    /\ pending' = pending \cup {u}
    /\ UNCHANGED rows

Save(u) ==
    /\ u \in pending
    /\ rows' = rows \cup {u}
    /\ pending' = pending \ {u}

Next == \E u \in Urls : Find(u) \/ Save(u)

Spec == Init /\ [][Next]_<<pending, rows>>
=============================================================================
