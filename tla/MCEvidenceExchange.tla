------------------------- MODULE MCEvidenceExchange -------------------------
(* A directory d with two files and a file e beside it; s is the name of a  *)
(* staging file in d.  The owner begins with one file in d at an empty      *)
(* mirror; or at a mirror that holds the same, with two files in d, with    *)
(* none and e, or with a file d.                                            *)
EXTENDS EvidenceExchange, TLC
CONSTANTS d, s, a, c, e, x

Tree == <<d, s, a, c, e>>
Nested == (d :> {}) @@ (s :> {d}) @@ (a :> {d}) @@ (c :> {d}) @@ (e :> {})
Holding(S) == [p \in {s, a, c, e} |-> IF p \in S THEN x ELSE Missing]
Origins == {(d :> Dir) @@ Holding({a})}
Earlier == {(d :> Dir) @@ Holding({a, c}), (d :> Dir) @@ Holding({e}), (d :> x) @@ Holding({})}
Flat == <<a, c, e>>
FlatAbove == [p \in {a, c, e} |-> {}]
Scattered == {[p \in {a, c, e} |-> x]}
=============================================================================
