------------------------- MODULE MCWorkerAdmission -------------------------
(* WorkerAdmission with two controllers, two jobs and two executions.      *)
EXTENDS WorkerAdmission
=============================================================================
