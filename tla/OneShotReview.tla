--------------------------- MODULE OneShotReview ---------------------------
(***************************************************************************)
(* What the admission store of crates/roborev-worker promises to the rest  *)
(* of the system, with no journal, lock, crash or disk in it: one admitted *)
(* request causes at most one enqueue at the daemon, at most one start of  *)
(* a review backend, and output only of that backend.                      *)
(***************************************************************************)
EXTENDS Naturals

CONSTANT Executions    \* identities of backend executions

VARIABLES
    requests,   \* enqueue requests sent to the daemon
    starts,     \* backends started
    started,    \* identities of the backends started
    shown       \* identities whose output was shown to the daemon

vars == <<requests, starts, started, shown>>

Init ==
    /\ requests = 0
    /\ starts = 0
    /\ started = {}
    /\ shown = {}

\* The only request to the daemon that creates a job.
Enqueue ==
    /\ requests = 0
    /\ requests' = 1
    /\ UNCHANGED <<starts, started, shown>>

\* The only start of a backend; it follows the enqueue.
Start(e) ==
    /\ requests = 1
    /\ starts = 0
    /\ starts' = 1
    /\ started' = {e}
    /\ UNCHANGED <<requests, shown>>

\* Output is that of the backend that was started; a redelivery may ask again.
Expose(e) ==
    /\ e \in started
    /\ shown' = shown \cup {e}
    /\ UNCHANGED <<requests, starts, started>>

Next ==
    \/ Enqueue
    \/ \E e \in Executions : Start(e) \/ Expose(e)

Spec == Init /\ [][Next]_vars
=============================================================================
