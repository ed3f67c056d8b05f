---------------------------- MODULE MCBlobIndex ----------------------------
(* Small instances of BlobIndex for TLC.                                   *)
EXTENDS BlobIndex, TLC

\* The first content has every word, the second lacks one, the third has none.
Texts == [c \in Contents |-> CASE c = 1 -> Words [] c = 2 -> Words \ {1} [] OTHER -> {}]

Query(hasWhere, where, kind, fl) ==
    [hasWhere |-> hasWhere, where |-> where, flKind |-> kind, fl |-> fl]

\* No limit, a WHERE limit, a limit by fl and both of them.
Including ==
    {Query(FALSE, {}, "none", {})}
    \cup {Query(TRUE, s, "none", {}) : s \in {{}, {1}}}
    \cup {Query(FALSE, {}, "include", s) : s \in {{1}, {2}}}
    \cup {Query(TRUE, {1, 2}, "include", {1}), Query(TRUE, {1, 2}, "exclude", {1})}

\* A limit of documents the search is not to find.
Excluding == {Query(FALSE, {}, "exclude", {1})}
=============================================================================
