------------------------------ MODULE MCReview -----------------------------
(* One pull request that opens up to date, a host whose owner merges and    *)
(* disposes, and a gate of the forge's continuous integration beside it.    *)
EXTENDS Review

MCOpening == [head |-> 1, base |-> 1]

\* A head contains the bases up to its number.
MCUpToDate(h, b) == h >= b

TwoProcs == [p \in {"owner", "gate"} |-> p]
TwoCommands == [p \in {"owner", "gate"} |-> IF p = "gate" THEN {"gate"} ELSE {"merge", "dispose"}]
=============================================================================
