----------------------------- MODULE MCOperator -----------------------------
(* Two stages, two policies that differ in the workers they quiesce. *)
EXTENDS Operator

CONSTANTS w1, w2, c1, c2

MCWorkers == {w1, w2}
MCContracts == {c1, c2}
MCQuiesce == [c \in {c1, c2} |-> IF c = c1 THEN {w1, w2} ELSE {w1}]
=============================================================================
