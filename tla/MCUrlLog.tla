------------------------------ MODULE MCUrlLog ------------------------------
(* Small instances of UrlLog for TLC.                                      *)
EXTENDS UrlLog, TLC

CONSTANTS p, q, r, e1, e2, c1, c2

\* Record r lies on page p.
OnP == [u \in Records |-> p]

\* A Disallow for page q, a Server with page p, a table with record r.
Site == <<[kind |-> "page",   allow |-> FALSE, urls |-> {q}],
          [kind |-> "page",   allow |-> TRUE,  urls |-> {p}],
          [kind |-> "record", allow |-> TRUE,  urls |-> {r}]>>
=============================================================================
