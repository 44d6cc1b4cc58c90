--------------------------- MODULE MCDirectNetwork ---------------------------
(***************************************************************************)
(* One workload and one uplink with replayable routes; two events of the  *)
(* host around them (a link that goes or returns, a foreign route, a       *)
(* workload stopped) and one fault, each at any point of any step.         *)
(***************************************************************************)
EXTENDS DirectNetwork
=============================================================================
