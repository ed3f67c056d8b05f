---------------------------- MODULE MCHrefCache ----------------------------
(* Small instances of HrefCache for TLC.                                   *)
EXTENDS HrefCache, TLC

\* One or two different links per document.
OneOrTwo == {<<u>> : u \in Urls} \cup {s \in Urls \X Urls : s[1] # s[2]}

\* One link per document.
Single == {<<u>> : u \in Urls}

\* The URL of the configuration.
StartWith1 == <<1>>
StartWith2 == <<2>>

\* Links to two sites in turn.
Alternating == {<<1, 4, 2, 5, 3>>}

OneSite == [u \in Urls |-> "A"]
TwoSites == [u \in Urls |-> IF u <= 3 THEN "A" ELSE "B"]
=============================================================================
