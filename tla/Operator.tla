------------------------------ MODULE Operator ------------------------------
(***************************************************************************)
(* The durable stage operator (src/operator.rs): run_with_ready executes   *)
(* or resumes one immutable run of systemd stages, and cancel retires it.  *)
(*                                                                         *)
(* Three files carry the protocol: state.json (disk), the request marker   *)
(* (req) and the admission sentinel.  Each is replaced or removed with an  *)
(* fsync before the code goes on, so a crash leaves exactly what the last  *)
(* step wrote.  A save that returns an error may have left either version. *)
(* operator.lock admits one run or cancel at a time, which is why one pc   *)
(* and one in-memory state suffice; the lock dies with its process.        *)
(* Stage units and workers belong to systemd: they live on when the        *)
(* operator dies, and stop and start may fail either way.                  *)
(*                                                                         *)
(* Left out: delays between attempts, the event log and the report, units  *)
(* shared by two stages, workers that somebody else starts, and requests   *)
(* touched between the two reads at the beginning of one run.              *)
(***************************************************************************)
EXTENDS Naturals, FiniteSets

CONSTANTS
    Workers,       \* quiesced worker units
    StageCount,    \* stages 1 .. StageCount, in order
    MaxAttempts,   \* max_attempts of the policy
    Contracts,     \* policies a deployment may start
    Quiesce,       \* quiesce_units of each policy
    NoContract,
    MaxRequests,   \* bound: request markers created or touched
    MaxFaults,     \* bound: crashes, I/O errors and refused stops or starts
    MaxLost        \* bound: request markers removed by somebody else

ASSUME OperatorAssumption ==
    /\ StageCount \in Nat \ {0}
    /\ MaxAttempts \in Nat \ {0}
    /\ Quiesce \in [Contracts -> SUBSET Workers]
    /\ NoContract \notin Contracts
    /\ MaxRequests \in Nat /\ MaxFaults \in Nat /\ MaxLost \in Nat

Stages == 1 .. StageCount

VARIABLES
    disk,      \* state.json
    req,       \* identity of the request marker, 0 when there is none
    sentinel,  \* the admission fence is published
    active,    \* stage units systemd is running
    unitOk,    \* how the last stage unit that ended by itself ended
    up,        \* workers that are active
    pc,        \* what the process holding the lock does next
    m,         \* its in-memory state
    at,        \* its position in the list of stages
    todo,      \* workers its current loop has still to visit
    exec,      \* the result of its execution
    rerr,      \* it met a recovery error
    signal,    \* SIGTERM or SIGINT arrived
    issued,    \* request identities handed out
    lost,      \* request markers removed by somebody else
    faults,    \* faults so far
    owned,     \* workers the operator took down and has not restored
    tried,     \* failed attempts observed in this run
    settled,   \* requests whose run recorded success or failure
    revoked    \* requests present when cancel published its decision

files == <<disk, req, sentinel>>
systemd == <<active, unitOk, up>>
process == <<pc, m, at, todo, exec, rerr, signal>>
bounds == <<issued, lost, faults>>
ghosts == <<owned, tried, settled, revoked>>
vars == <<files, systemd, process, bounds, ghosts>>

-----------------------------------------------------------------------------
Terminal == {"succeeded", "failed", "cancelled"}
Phases == {"none", "running", "interrupted"} \cup Terminal

NewRun(c) ==
    [phase |-> "running", result |-> "running", contract |-> c,
     completed |-> {}, failures |-> [s \in Stages |-> 0],
     restore |-> {}, restoring |-> FALSE, request |-> 0, current |-> 0]

NoState == [NewRun(NoContract) EXCEPT !.phase = "none", !.result = "none"]

Idle ==
    /\ pc' = "off" /\ m' = NoState /\ at' = 1 /\ todo' = {}
    /\ exec' = "none" /\ rerr' = FALSE /\ signal' = FALSE

Init ==
    /\ disk = NoState /\ req = 0 /\ sentinel = FALSE
    /\ active = {} /\ unitOk = FALSE /\ up \in SUBSET Workers
    /\ pc = "off" /\ m = NoState /\ at = 1 /\ todo = {}
    /\ exec = "none" /\ rerr = FALSE /\ signal = FALSE
    /\ issued = 0 /\ lost = 0 /\ faults = 0
    /\ owned = {} /\ tried = [s \in Stages |-> 0]
    /\ settled = {} /\ revoked = {}

\* restore_only: nothing but cleanup is left of this run.
RestoreOnly(s) == s.restoring \/ s.phase \in Terminal

\* A stage that is in flight, as the state records it.
InFlight(s) == s.current # 0 /\ s.current \notin s.completed

\* Requests whose run is recorded as succeeded or failed.
Settle(s) ==
    IF RestoreOnly(s) /\ s.result \in {"succeeded", "failed"} THEN {s.request} ELSE {}

Fault == faults < MaxFaults /\ faults' = faults + 1

\* The execution closure ends, with this result.
Leave(result) == pc' = "leave" /\ exec' = result

\* save() inside the closure: on success go on, on error run the recovery with
\* the memory changed and either version on disk.
Keep(s, next) ==
    /\ m' = s
    /\ \/ /\ disk' = s /\ pc' = next
          /\ UNCHANGED <<exec, faults>>
       \/ /\ Fault
          /\ disk' \in {disk, s}
          /\ Leave("error")

\* Take a worker or a stage down; what went down is recorded as owned.
TakeDown(ws) ==
    /\ up' = up \ ws
    /\ owned' = owned \cup (ws \cap up)

-----------------------------------------------------------------------------
\* Mutant: a terminal run has nothing to do with any marker.
ResumableUnfinished ==
    /\ disk.phase # "none"
    /\ req # 0
    /\ disk.restoring \/ disk.phase \in {"running", "interrupted"}

\* The persisted run is the one the request is for.
Resumable ==
    /\ disk.phase # "none"
    /\ req # 0
    /\ \/ disk.restoring
       \/ disk.phase \in {"running", "interrupted"}
       \/ disk.phase \in Terminal /\ disk.request \in {0, req}

Unrecovered(s) == s.restore # {} \/ s.current # 0

\* The marker exists before the state that names it is saved.
Requested == IF req = 0 THEN issued + 1 ELSE req

\* Mutant: an interrupted run starts over with fresh checkpoints.
ResumeForgetful(c) ==
    /\ Resumable
    /\ disk.contract = c
    /\ m' = [disk EXCEPT !.request = req,
                         !.failures = [s \in Stages |-> 0],
                         !.phase = IF RestoreOnly(disk) THEN @ ELSE "running",
                         !.result = IF RestoreOnly(disk) THEN @ ELSE "running"]
    /\ UNCHANGED <<req, issued, tried>>

\* Same policy, same run: the marker is kept, and a run that has something left
\* to execute is running again.
Resume(c) ==
    /\ Resumable
    /\ disk.contract = c
    /\ m' = [disk EXCEPT !.request = req,
                         !.phase = IF RestoreOnly(disk) THEN @ ELSE "running",
                         !.result = IF RestoreOnly(disk) THEN @ ELSE "running"]
    /\ UNCHANGED <<req, issued, tried>>

\* A new run, refused while an earlier one has workers or a stage to recover.
StartNew(c) ==
    /\ ~Resumable
    /\ ~Unrecovered(disk)
    /\ Requested <= MaxRequests
    /\ req' = Requested
    /\ issued' = IF req = 0 THEN issued + 1 ELSE issued
    /\ m' = [NewRun(c) EXCEPT !.request = Requested]
    /\ tried' = [s \in Stages |-> 0]

\* run_with_ready takes the lock and decides what it is about to do.
Begin(c) ==
    /\ pc = "off"
    /\ Resume(c) \/ StartNew(c)
    /\ pc' = "open"
    /\ UNCHANGED <<disk, sentinel, systemd, at, todo, exec, rerr, signal,
                   lost, faults, owned, settled, revoked>>

\* The first save of this invocation; outside the closure, so an error of it
\* ends the run with nothing else changed.
Open ==
    /\ pc = "open"
    /\ \/ /\ disk' = m
          /\ pc' = IF InFlight(m) THEN "leftover"
                   ELSE IF RestoreOnly(m) THEN "fence" ELSE "quiesce"
          /\ todo' = IF RestoreOnly(m) THEN {} ELSE Quiesce[m.contract]
          /\ UNCHANGED <<m, at, exec, rerr, signal, faults>>
       \/ /\ Fault
          /\ disk' \in {disk, m}
          /\ Idle
    /\ UNCHANGED <<req, sentinel, systemd, issued, lost, ghosts>>

\* stop_confirmed for the stage an earlier process left behind.
StopLeftover ==
    /\ pc = "leftover"
    /\ active' = active \ {m.current}
    /\ Keep([m EXCEPT !.current = 0], IF RestoreOnly(m) THEN "fence" ELSE "quiesce")
    /\ UNCHANGED <<req, sentinel, unitOk, up, at, todo, rerr, signal,
                   issued, lost, ghosts>>

\* The next worker of the policy: one found active is recorded before anything
\* happens to it, one found inactive is left alone.
Record(w) ==
    /\ pc = "quiesce" /\ w \in todo \ m.restore
    /\ \/ /\ w \in up
          /\ Keep([m EXCEPT !.restore = @ \cup {w}], "quiesce")
          /\ UNCHANGED todo
       \/ /\ w \notin up
          /\ todo' = todo \ {w}
          /\ UNCHANGED <<disk, pc, m, exec, faults>>
    /\ UNCHANGED <<req, sentinel, systemd, at, rerr, signal, issued, lost, ghosts>>

\* Mutant: a worker is stopped before it is recorded.
QuiesceUnrecorded(w) ==
    /\ pc = "quiesce" /\ w \in todo
    /\ todo' = todo \ {w}
    /\ TakeDown({w})
    /\ UNCHANGED <<files, active, unitOk, pc, m, at, exec, rerr, signal, bounds,
                   tried, settled, revoked>>

\* A recorded worker is stopped, and seen to be inactive.
QuiesceWorker(w) ==
    /\ pc = "quiesce" /\ w \in todo \cap m.restore
    /\ todo' = todo \ {w}
    /\ TakeDown({w})
    /\ UNCHANGED <<files, active, unitOk, pc, m, at, exec, rerr, signal, bounds,
                   tried, settled, revoked>>

\* ... or not: stop or the query after it fails, whatever became of the worker.
QuiesceFails(w) ==
    /\ pc = "quiesce" /\ w \in todo \cap m.restore
    /\ Fault
    /\ \/ TakeDown({w})
       \/ UNCHANGED <<up, owned>>
    /\ Leave("error")
    /\ UNCHANGED <<files, active, unitOk, m, at, todo, rerr, signal, issued, lost,
                   tried, settled, revoked>>

\* The sentinel is published once the workers are down.
Fence ==
    /\ \/ pc = "fence"
       \/ pc = "quiesce" /\ todo = {}
    /\ sentinel' = TRUE
    /\ pc' = "ready"
    /\ UNCHANGED <<disk, req, systemd, m, at, todo, exec, rerr, signal, bounds, ghosts>>

\* The readiness callback succeeds; a restore-only run has its result already.
Ready ==
    /\ pc = "ready"
    /\ IF RestoreOnly(m)
       THEN /\ Leave(m.result)
            /\ UNCHANGED at
       ELSE /\ pc' = "stage" /\ at' = 1
            /\ UNCHANGED exec
    /\ UNCHANGED <<files, systemd, m, todo, rerr, signal, bounds, ghosts>>

\* The loop reaches a completed stage, or the end of the list.
SkipStage ==
    /\ pc = "stage"
    /\ ~signal
    /\ at \in m.completed
    /\ m' = [m EXCEPT !.current = at]
    /\ at' = at + 1
    /\ UNCHANGED <<files, systemd, pc, todo, exec, rerr, signal, bounds, ghosts>>

EndStages ==
    /\ pc = "stage"
    /\ at = StageCount + 1
    /\ Leave(IF m.completed = Stages THEN "succeeded" ELSE "failed")
    /\ UNCHANGED <<files, systemd, m, at, todo, rerr, signal, bounds, ghosts>>

\* A stage that is not complete is recorded as current, and its failures so far
\* are compared with the budget.
EnterStage ==
    /\ pc = "stage"
    /\ ~signal
    /\ at \in Stages \ m.completed
    /\ Keep([m EXCEPT !.current = at], "attempt")
    /\ UNCHANGED <<req, sentinel, systemd, at, todo, rerr, signal, issued, lost, ghosts>>

GiveUp ==
    /\ pc = "attempt"
    /\ m.failures[at] >= MaxAttempts
    /\ pc' = "stage"
    /\ at' = at + 1
    /\ UNCHANGED <<files, systemd, m, todo, exec, rerr, signal, bounds, ghosts>>

\* An attempt is recorded before it starts.
PersistAttempt ==
    /\ pc = "attempt"
    /\ ~signal
    /\ m.failures[at] < MaxAttempts
    /\ Keep([m EXCEPT !.current = at], "start")
    /\ UNCHANGED <<req, sentinel, systemd, at, todo, rerr, signal, issued, lost, ghosts>>

\* systemctl start --wait.
StartUnit ==
    /\ pc = "start"
    /\ pc' = "waiting"
    /\ active' = active \cup {at}
    /\ UNCHANGED <<files, unitOk, up, m, at, todo, exec, rerr, signal, bounds, ghosts>>

\* The signal is seen between stages or before an attempt.
Interrupt ==
    /\ pc \in {"stage", "attempt"}
    /\ signal
    /\ at \in Stages
    /\ Leave("interrupted")
    /\ UNCHANGED <<files, systemd, m, at, todo, rerr, signal, bounds, ghosts>>

\* The signal is seen while the unit runs: start() tries to stop it, and the
\* result is not looked at.
InterruptUnit ==
    /\ pc \in {"start", "waiting"}
    /\ signal
    /\ active' \in {active, active \ {at}}
    /\ Leave("interrupted")
    /\ UNCHANGED <<files, unitOk, up, m, at, todo, rerr, signal, bounds, ghosts>>

\* The unit ended well and systemd says so.
Succeed ==
    /\ pc = "waiting"
    /\ ~signal
    /\ at \notin active /\ unitOk
    /\ Keep([m EXCEPT !.completed = @ \cup {at}], "stage")
    /\ at' = IF pc' = "stage" THEN at + 1 ELSE at
    /\ UNCHANGED <<req, sentinel, systemd, todo, rerr, signal, issued, lost, ghosts>>

\* It ended badly, could not be started, or the service manager returned an
\* error while it may still run: each consumes the persisted budget.
FailAttempt ==
    /\ pc \in {"start", "waiting"}
    /\ ~signal
    /\ Keep([m EXCEPT !.failures[at] = @ + 1], "retry")
    /\ tried' = [tried EXCEPT ![at] = @ + 1]
    /\ UNCHANGED <<req, sentinel, systemd, at, todo, rerr, signal, issued, lost,
                   owned, settled, revoked>>

\* A retry requires a stopped unit.
StopForRetry ==
    /\ pc = "retry"
    /\ active' = active \ {at}
    /\ pc' = "attempt"
    /\ UNCHANGED <<files, unitOk, up, m, at, todo, exec, rerr, signal, bounds, ghosts>>

\* Any other call of the closure returns an error: a marker, the readiness
\* callback, an event record, a query, or a stop that may have worked.
ClosureError ==
    /\ pc \in {"leftover", "quiesce", "fence", "ready", "stage", "retry"}
    /\ Fault
    /\ active' \in {active, IF pc = "leftover" THEN active \ {m.current}
                            ELSE IF pc = "retry" THEN active \ {at} ELSE active}
    /\ sentinel' \in {sentinel, sentinel \/ (pc = "fence") \/ (pc = "quiesce" /\ todo = {})}
    /\ Leave("error")
    /\ UNCHANGED <<disk, req, unitOk, up, m, at, todo, rerr, signal, issued, lost, ghosts>>

-----------------------------------------------------------------------------
\* Mutant: a stage whose process is gone is taken for stopped.
CloseUnconfirmed ==
    LET result == IF exec \in Terminal THEN exec ELSE "interrupted"
        closed == [m EXCEPT !.current = 0, !.restoring = TRUE, !.result = result]
    IN  /\ pc = "leave"
        /\ m' = closed
        /\ disk' = closed
        /\ pc' = "unfence"
        /\ settled' = settled \cup Settle(disk')
        /\ UNCHANGED <<req, sentinel, systemd, at, todo, exec, rerr, signal, bounds,
                       owned, tried, revoked>>

\* The stage in flight is confirmed stopped; then the restoration phase, with
\* the result of the execution, is recorded.
Close ==
    LET result == IF exec \in Terminal THEN exec ELSE "interrupted"
        closed == [m EXCEPT !.current = 0, !.restoring = TRUE, !.result = result]
    IN  /\ pc = "leave"
        /\ active' = IF InFlight(m) THEN active \ {m.current} ELSE active
        /\ \/ /\ disk' = closed /\ m' = closed /\ pc' = "unfence"
              /\ UNCHANGED <<at, todo, exec, rerr, signal, faults>>
           \/ /\ Fault
              /\ disk' \in {disk, closed}
              /\ Idle
        /\ settled' = settled \cup Settle(disk')
        /\ UNCHANGED <<req, sentinel, unitOk, up, issued, lost, owned, tried, revoked>>

\* Termination is uncertain: both fences and the workers are retained.
CloseFails ==
    /\ pc = "leave"
    /\ InFlight(m)
    /\ Fault
    /\ active' \in {active, active \ {m.current}}
    /\ disk' \in {disk, [m EXCEPT !.phase = "interrupted"]}
    /\ Idle
    /\ UNCHANGED <<req, sentinel, unitOk, up, issued, lost, ghosts>>

\* The sentinel is removed; an error of it is kept and the restoration goes on.
Unfence ==
    /\ pc = "unfence"
    /\ \/ sentinel' = FALSE /\ UNCHANGED <<rerr, faults>>
       \/ Fault /\ rerr' = TRUE /\ sentinel' \in {sentinel, FALSE}
    /\ todo' = m.restore
    /\ pc' = "restore"
    /\ UNCHANGED <<disk, req, systemd, m, at, exec, signal, issued, lost, ghosts>>

\* A worker is started, and only then dropped from the list.
RestoreWorker(w) ==
    LET rest == [m EXCEPT !.restore = @ \ {w}]
    IN  /\ pc = "restore" /\ w \in todo
        /\ todo' = todo \ {w}
        /\ up' = up \cup {w}
        /\ owned' = owned \ {w}
        /\ m' = rest
        /\ \/ disk' = rest /\ UNCHANGED <<rerr, faults>>
           \/ Fault /\ disk' \in {disk, rest} /\ rerr' = TRUE
        /\ UNCHANGED <<req, sentinel, active, unitOk, pc, at, exec, signal, issued, lost,
                       tried, settled, revoked>>

RestoreFails(w) ==
    /\ pc = "restore" /\ w \in todo
    /\ Fault
    /\ todo' = todo \ {w}
    /\ rerr' = TRUE
    /\ UNCHANGED <<files, systemd, pc, m, at, exec, signal, issued, lost, ghosts>>

\* Mutant: a recovery error is forgotten when the outcome is decided.
FinishDespiteErrors ==
    LET outcome == IF exec = "error" THEN "interrupted" ELSE exec
        final == [m EXCEPT !.phase = outcome, !.restoring = FALSE, !.result = outcome]
    IN  /\ pc = "restore" /\ todo = {}
        /\ m' = final
        /\ disk' = final
        /\ pc' = "finish"
        /\ settled' = settled \cup Settle(disk')
        /\ UNCHANGED <<req, sentinel, systemd, at, todo, exec, rerr, signal, bounds,
                       owned, tried, revoked>>

\* The outcome: the result of the execution unless recovery met an error.
Finish ==
    LET outcome == IF rerr \/ exec = "error" THEN "interrupted" ELSE exec
        final == [m EXCEPT !.phase = outcome, !.restoring = rerr,
                           !.result = IF rerr THEN @ ELSE outcome]
    IN  /\ pc = "restore" /\ todo = {}
        /\ \/ /\ disk' = final /\ m' = final /\ pc' = "finish"
              /\ UNCHANGED <<at, todo, exec, rerr, signal, faults>>
           \/ /\ Fault
              /\ disk' \in {disk, final}
              /\ Idle
        /\ settled' = settled \cup Settle(disk')
        /\ UNCHANGED <<req, sentinel, systemd, issued, lost, owned, tried, revoked>>

\* After the report, the marker of every outcome but Interrupted is removed.
RemoveRequest ==
    /\ pc = "finish"
    /\ req' = IF m.phase = "interrupted" THEN req ELSE 0
    /\ Idle
    /\ UNCHANGED <<disk, sentinel, systemd, bounds, ghosts>>

-----------------------------------------------------------------------------
\* Mutant: cancel does not look at the sentinel.
CancelUnderFence ==
    /\ pc = "off"
    /\ disk.phase # "none"
    /\ ~Unrecovered(disk)
    /\ disk' = [disk EXCEPT !.phase = "cancelled", !.result = "cancelled"]
    /\ revoked' = revoked \cup ({req} \ {0})
    /\ pc' = "cancel"
    /\ UNCHANGED <<req, sentinel, systemd, m, at, todo, exec, rerr, signal, bounds,
                   owned, tried, settled>>

\* cancel() publishes its decision, unless a worker, a stage or the sentinel is
\* still to be recovered ...
Cancel ==
    /\ pc = "off"
    /\ disk.phase # "none"
    /\ ~Unrecovered(disk)
    /\ ~sentinel
    /\ disk' = [disk EXCEPT !.phase = "cancelled", !.result = "cancelled"]
    /\ revoked' = revoked \cup ({req} \ {0})
    /\ pc' = "cancel"
    /\ UNCHANGED <<req, sentinel, systemd, m, at, todo, exec, rerr, signal, bounds,
                   owned, tried, settled>>

\* ... and removes the marker; without a state.json there is nothing to publish.
CancelRequest ==
    /\ \/ pc = "cancel"
       \/ pc = "off" /\ disk.phase = "none"
    /\ req' = 0
    /\ pc' = "off"
    /\ UNCHANGED <<disk, sentinel, systemd, m, at, todo, exec, rerr, signal, bounds, ghosts>>

-----------------------------------------------------------------------------
\* The process dies, or the host reboots without losing synced files.
Crash ==
    /\ pc # "off"
    /\ Fault
    /\ Idle
    /\ UNCHANGED <<files, systemd, issued, lost, ghosts>>

Signal ==
    /\ pc \notin {"off", "cancel"}
    /\ ~signal
    /\ signal' = TRUE
    /\ UNCHANGED <<files, systemd, pc, m, at, todo, exec, rerr, bounds, ghosts>>

\* A running unit ends by itself, whoever is watching.
UnitEnds(s) ==
    /\ s \in active
    /\ active' = active \ {s}
    /\ unitOk' \in BOOLEAN
    /\ UNCHANGED <<files, up, process, bounds, ghosts>>

WorkerExits(w) ==
    /\ w \in up
    /\ up' = up \ {w}
    /\ UNCHANGED <<files, active, unitOk, process, bounds, ghosts>>

\* Somebody creates or touches the request marker, or loses it.
Touch ==
    /\ issued < MaxRequests
    /\ issued' = issued + 1
    /\ req' = issued + 1
    /\ UNCHANGED <<disk, sentinel, systemd, process, lost, faults, ghosts>>

LoseRequest ==
    /\ req # 0
    /\ lost < MaxLost
    /\ lost' = lost + 1
    /\ req' = 0
    /\ UNCHANGED <<disk, sentinel, systemd, process, issued, faults, ghosts>>

Steps ==
    \/ Open \/ StopLeftover
    \/ \E w \in Workers : Record(w) \/ QuiesceWorker(w)
    \/ Fence \/ Ready
    \/ SkipStage \/ EndStages \/ EnterStage \/ GiveUp
    \/ PersistAttempt \/ StartUnit
    \/ Interrupt \/ InterruptUnit
    \/ Succeed \/ FailAttempt \/ StopForRetry
    \/ Close \/ Unfence
    \/ \E w \in Workers : RestoreWorker(w)
    \/ Finish \/ RemoveRequest

Errors ==
    \/ \E w \in Workers : QuiesceFails(w) \/ RestoreFails(w)
    \/ ClosureError \/ CloseFails

External ==
    \/ Cancel \/ CancelRequest \/ Crash \/ Signal
    \/ \E s \in Stages : UnitEnds(s)
    \/ \E w \in Workers : WorkerExits(w)
    \/ Touch \/ LoseRequest

Next ==
    \/ \E c \in Contracts : Begin(c)
    \/ Steps \/ Errors \/ External

Spec == Init /\ [][Next]_vars

\* Stages end, calls return, and the unit's Restart=on-failure and the resume
\* service start the operator again while the marker exists.
FairSpec ==
    /\ Spec
    /\ WF_vars(\E c \in Contracts : pc = "off" /\ req # 0 /\ Begin(c))
    /\ WF_vars(Steps)
    /\ WF_vars(\E s \in Stages : UnitEnds(s))

-----------------------------------------------------------------------------
States ==
    [phase : Phases, result : Phases, contract : Contracts \cup {NoContract},
     completed : SUBSET Stages, failures : [Stages -> 0 .. MaxAttempts],
     restore : SUBSET Workers, restoring : BOOLEAN, request : 0 .. MaxRequests,
     current : 0 .. StageCount]

PCs == {"off", "open", "leftover", "quiesce", "fence", "ready", "stage", "attempt",
        "start", "waiting", "retry", "leave", "unfence", "restore", "finish", "cancel"}

\* Type correctness of the files, the units and the process.
TypeOK ==
    /\ disk \in States /\ m \in States
    /\ req \in 0 .. MaxRequests /\ sentinel \in BOOLEAN
    /\ active \subseteq Stages /\ unitOk \in BOOLEAN /\ up \subseteq Workers
    /\ pc \in PCs
    /\ at \in 1 .. StageCount + 1
    /\ todo \subseteq Workers
    /\ exec \in {"none", "error"} \cup Phases
    /\ rerr \in BOOLEAN /\ signal \in BOOLEAN
    /\ issued \in 0 .. MaxRequests /\ lost \in 0 .. MaxLost /\ faults \in 0 .. MaxFaults
    /\ owned \subseteq Workers
    /\ tried \in [Stages -> Nat]
    /\ settled \subseteq 0 .. MaxRequests /\ revoked \subseteq 0 .. MaxRequests

\* Every worker the operator took down and has not restored is listed in
\* state.json, wherever a run stops: "abrupt reboot cannot forget which workers
\* this run owns".
WorkersRemembered == owned \subseteq disk.restore

\* While a stage unit runs, with or without an operator to watch it, the fence
\* is published, the policy's workers are down, and state.json names the unit
\* so that the next process stops it first.
StageExclusion ==
    active # {} =>
        /\ sentinel
        /\ disk.contract # NoContract
        /\ up \cap Quiesce[disk.contract] = {}
        /\ active = {disk.current}

\* Whoever published the fence will be asked to come back and remove it.
FenceHasRecovery == sentinel => (req # 0 \/ lost > 0)

\* The retry budget holds across interruptions: each failure it misses is one
\* crash or one failed save.
BudgetAcrossCrashes == \A s \in Stages : tried[s] <= MaxAttempts + faults

\* A stage starts only if the checkpoints on disk call for it: not when it is
\* complete or out of budget, and not for a request whose run already recorded
\* success or failure ("without executing their stages again").
StartJustified ==
    [][\A s \in active' \ active :
          /\ s \notin disk.completed
          /\ disk.failures[s] < MaxAttempts
          /\ m.request \notin settled]_vars

\* A worker the operator took down is eventually started again, unless somebody else
\* removed the marker that would bring the operator back.
WorkersRestored == \A w \in Workers : w \in owned ~> w \notin owned \/ lost > 0

\* "Cancelled terminal intent cannot replay stages after a crash between state
\* publication and request removal" (RUST.md).
CancelledNeverReplays == [][active' \subseteq active \/ req \notin revoked]_vars

\* "A newly created or touched marker requests a distinct run" (RUST.md): the
\* marker a finished run removes is the one it ran for.
MarkerNotSwallowed == [][pc = "finish" /\ req' = 0 => req \in {0, m.request}]_vars
=============================================================================
