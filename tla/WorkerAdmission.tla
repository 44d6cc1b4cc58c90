-------------------------- MODULE WorkerAdmission --------------------------
(***************************************************************************)
(* The controller's admission of one review request                        *)
(* (crates/roborev-worker/src/admission.rs), the one-shot execution fence  *)
(* (execution.rs) and the retained completion (completion.rs), used by     *)
(* several controller processes that hold the same original handle.        *)
(*                                                                         *)
(* A journal is replaced in two durable steps: the new file is written,    *)
(* fsynced and renamed (visible to every process), then its directory is   *)
(* fsynced (survives a power loss).  adm and fence are what a process      *)
(* reads; admD and fenceD are what a power loss leaves.  A process may     *)
(* stop between any two steps (an error returned by a call, or a kill) and *)
(* its flocks are then released.  The daemon, its queue and the backend    *)
(* are outside src/ and appear only as the effects the controller causes   *)
(* and the delivery it waits for.                                          *)
(*                                                                         *)
(* Left out: hostile edits of the store (the anchor comparison), the       *)
(* content of the bindings, and which of several error texts is returned.  *)
(***************************************************************************)
EXTENDS Naturals, FiniteSets

CONSTANTS
    Controllers,   \* controller processes that share the handle
    Jobs,          \* job identities the daemon may assign
    Executions,    \* preallocated execution identities
    NoOne, NoJob, NoExec

ASSUME NonesAssumption ==
    /\ NoOne \notin Controllers
    /\ NoJob \notin Jobs
    /\ NoExec \notin Executions

VARIABLES
    adm,        \* admission.json as read: [phase, job, exec]
    admD,       \* admission.json as a power loss would leave it
    fence,      \* execution.json as read: [state, exec]
    fenceD,     \* execution.json as a power loss would leave it
    completion, \* the completion directory: "absent", "partial" or "complete"
    admLock,    \* holder of admission.lock
    fenceLock,  \* holder of execution.lock
    pc,         \* what each controller does next
    mem,        \* the changed journal a controller is about to write
    handle,     \* the original handle was returned and kept
    jobs,       \* jobs in the daemon's database
    paused,     \* the daemon's queue is paused
    running,    \* the job whose adapter the daemon is currently running
    enqueues,   \* enqueue requests sent
    starts,     \* backends started
    started,    \* execution identities started
    receipts,   \* executions with a successful offline receipt
    outputs     \* executions whose output was returned to the adapter

disk == <<adm, admD, fence, fenceD, completion>>
locks == <<admLock, fenceLock>>
daemon == <<jobs, paused, running>>
effects == <<enqueues, starts, started, receipts, outputs>>
vars == <<disk, locks, pc, mem, handle, daemon, effects>>

-----------------------------------------------------------------------------
Phases == {"absent", "tombstone", "admitted", "enqueue_unknown", "job_bound",
           "dispatch_unknown", "execution_registration_unknown",
           "execution_registered", "completion_retention_unknown",
           "completion_retained"}

FenceStates == {"absent", "tombstone", "ready", "unknown"}

\* The order in which the phases are passed through.
Rank(p) ==
    CASE p = "absent" -> 0
      [] p = "tombstone" -> 1
      [] p = "admitted" -> 2
      [] p = "enqueue_unknown" -> 3
      [] p = "job_bound" -> 4
      [] p = "dispatch_unknown" -> 5
      [] p = "execution_registration_unknown" -> 6
      [] p = "execution_registered" -> 7
      [] p = "completion_retention_unknown" -> 8
      [] p = "completion_retained" -> 9

FenceRank(s) ==
    CASE s = "absent" -> 0
      [] s = "tombstone" -> 1
      [] s = "ready" -> 2
      [] s = "unknown" -> 3

\* The saves of admission.json a controller makes, and where each continues once
\* the new file is renamed into place and once its directory is fsynced.
Saving == {"register_save", "enqueue_save", "bind_save", "dispatch_save",
           "execution_save", "registered_save", "retention_save", "retained_save"}

Syncing == {"register_sync", "enqueue_sync", "bind_sync", "dispatch_sync",
            "execution_sync", "registered_sync", "retention_sync", "retained_sync"}

\* Mutant: begin_enqueue returns Ok before its directory is fsynced.
AfterRenameUnsynced(p) ==
    CASE p = "register_save" -> "register_sync"
      [] p = "enqueue_save" -> "enqueue_granted"
      [] p = "bind_save" -> "bind_sync"
      [] OTHER -> "dispatch_sync"

AfterRename(p) ==
    CASE p = "register_save" -> "register_sync"
      [] p = "enqueue_save" -> "enqueue_sync"
      [] p = "bind_save" -> "bind_sync"
      [] p = "dispatch_save" -> "dispatch_sync"
      [] p = "execution_save" -> "execution_sync"
      [] p = "registered_save" -> "registered_sync"
      [] p = "retention_save" -> "retention_sync"
      [] p = "retained_save" -> "retained_sync"

AfterSync(p) ==
    CASE p = "enqueue_sync" -> "enqueue_granted"
      [] p = "dispatch_sync" -> "dispatch_granted"
      [] p = "execution_sync" -> "fence_create"
      [] p = "retention_sync" -> "retain_files"
      [] p \in {"register_sync", "bind_sync", "registered_sync", "retained_sync"} -> "idle"

\* Control states that hold admission.lock.
Locked == Saving \cup Syncing \cup
          {"register_lock", "fence_create", "fence_save", "fence_sync",
           "reserve_save", "reserve_sync", "retain_files"}

\* Control states after a call returned Ok and before, or inside, its effect.
Granted == {"enqueue_granted", "dispatch_granted", "reserved", "backend"}

PCs == {"idle"} \cup Locked \cup Granted

\* Control states that hold execution.lock: the fence's own saves, and the
\* lifetime of a ReservedExecution.
FenceLocked == {"fence_save", "fence_sync", "reserve_save", "reserve_sync",
                "reserved", "backend"}

-----------------------------------------------------------------------------
Absent == [phase |-> "absent", job |-> NoJob, exec |-> NoExec]
NoFence == [state |-> "absent", exec |-> NoExec]

Init ==
    /\ adm = Absent /\ admD = Absent
    /\ fence = NoFence /\ fenceD = NoFence
    /\ completion = "absent"
    /\ admLock = NoOne /\ fenceLock = NoOne
    /\ pc = [c \in Controllers |-> "idle"]
    /\ mem = [c \in Controllers |-> Absent]
    /\ handle = FALSE
    /\ jobs = {} /\ paused = TRUE /\ running = NoJob
    /\ enqueues = 0 /\ starts = 0 /\ started = {}
    /\ receipts = {} /\ outputs = {}

\* Mutant: a call that does not take the flock.
CheckedWithoutLock(c, phase) ==
    /\ pc[c] = "idle"
    /\ handle
    /\ adm.phase = phase

\* checked(): the handle is at hand, the nonblocking flock is free, and the
\* journal read has the phase the call needs.
Checked(c, phase) ==
    /\ pc[c] = "idle"
    /\ handle
    /\ admLock = NoOne
    /\ adm.phase = phase

\* The call goes on, with the lock, to save a changed copy of what it read.
Continue(c, journal, next) ==
    /\ mem' = [mem EXCEPT ![c] = journal]
    /\ pc' = [pc EXCEPT ![c] = next]
    /\ admLock' = c
    /\ UNCHANGED <<disk, fenceLock, handle, daemon, effects>>

\* Mutant: register reuses an existing entry.
RegisterAgain(c) ==
    /\ pc[c] = "idle"
    /\ admLock = NoOne
    /\ adm' = [adm EXCEPT !.phase = "tombstone"]
    /\ pc' = [pc EXCEPT ![c] = "register_lock"]
    /\ admLock' = c
    /\ UNCHANGED <<admD, fence, fenceD, completion, fenceLock, mem, handle, daemon, effects>>

\* register: create_dir fails on an existing entry, so a partial registration
\* stays a tombstone.
Register(c) ==
    /\ pc[c] = "idle"
    /\ adm.phase = "absent"
    /\ adm' = [adm EXCEPT !.phase = "tombstone"]
    /\ pc' = [pc EXCEPT ![c] = "register_lock"]
    /\ admLock' = c
    /\ UNCHANGED <<admD, fence, fenceD, completion, fenceLock, mem, handle, daemon, effects>>

\* register: the root directory is fsynced and the lock file created in it.
RegisterLock(c) ==
    /\ pc[c] = "register_lock"
    /\ admD' = adm
    /\ mem' = [mem EXCEPT ![c] = [adm EXCEPT !.phase = "admitted"]]
    /\ pc' = [pc EXCEPT ![c] = "register_save"]
    /\ UNCHANGED <<adm, fence, fenceD, completion, locks, handle, daemon, effects>>

BeginEnqueue(c) ==
    /\ Checked(c, "admitted")
    /\ Continue(c, [adm EXCEPT !.phase = "enqueue_unknown"], "enqueue_save")

\* The single enqueue effect, after begin_enqueue returned Ok.
PostEnqueue(c) ==
    /\ pc[c] = "enqueue_granted"
    /\ pc' = [pc EXCEPT ![c] = "idle"]
    /\ enqueues' = enqueues + 1
    /\ UNCHANGED <<disk, locks, mem, handle, daemon, starts, started, receipts, outputs>>

\* bind_job with the daemon's complete single-job inventory.  An equal job that
\* is already bound returns Ok and writes nothing.
BindJob(c, j) ==
    /\ Checked(c, "enqueue_unknown")
    /\ jobs = {j}
    /\ Continue(c, [adm EXCEPT !.phase = "job_bound", !.job = j], "bind_save")

BeginDispatch(c) ==
    /\ Checked(c, "job_bound")
    /\ Continue(c, [adm EXCEPT !.phase = "dispatch_unknown"], "dispatch_save")

\* Queue release; a lost reply is reconciled by reading the queue state.
Unpause(c) ==
    /\ pc[c] = "dispatch_granted"
    /\ pc' = [pc EXCEPT ![c] = "idle"]
    /\ paused' = FALSE
    /\ UNCHANGED <<disk, locks, mem, handle, jobs, running, effects>>

\* register_execution, called for an authenticated delivery of the bound job:
\* the installation is saved as UNKNOWN before the fence is created.
RegisterExecution(c, e) ==
    /\ Checked(c, "dispatch_unknown")
    /\ running = adm.job
    /\ Continue(c, [adm EXCEPT !.phase = "execution_registration_unknown", !.exec = e],
                "execution_save")

\* register_admitted: create_dir fails on an existing entry.
FenceCreate(c) ==
    /\ pc[c] = "fence_create"
    /\ fence.state = "absent"
    /\ fence' = [state |-> "tombstone", exec |-> adm.exec]
    /\ fenceLock' = c
    /\ pc' = [pc EXCEPT ![c] = "fence_save"]
    /\ UNCHANGED <<adm, admD, fenceD, completion, admLock, mem, handle, daemon, effects>>

\* register_admitted: the entry is fsynced and the Ready journal renamed into it.
FenceSave(c) ==
    /\ pc[c] = "fence_save"
    /\ fence' = [fence EXCEPT !.state = "ready"]
    /\ fenceD' = fence
    /\ pc' = [pc EXCEPT ![c] = "fence_sync"]
    /\ UNCHANGED <<adm, admD, completion, locks, mem, handle, daemon, effects>>

\* The fence is installed and register_execution goes on to record it.
FenceSync(c) ==
    /\ pc[c] = "fence_sync"
    /\ fenceD' = fence
    /\ fenceLock' = NoOne
    /\ mem' = [mem EXCEPT ![c] = [adm EXCEPT !.phase = "execution_registered"]]
    /\ pc' = [pc EXCEPT ![c] = "registered_save"]
    /\ UNCHANGED <<adm, admD, fence, completion, admLock, handle, daemon, effects>>

\* Mutant: an UNKNOWN fence may be reserved again.
ReserveAgain(c) ==
    /\ Checked(c, "execution_registered")
    /\ fenceLock = NoOne
    /\ admLock' = c
    /\ fenceLock' = c
    /\ pc' = [pc EXCEPT ![c] = "reserve_save"]
    /\ UNCHANGED <<disk, mem, handle, daemon, effects>>

\* reserve_execution takes both locks and reads a Ready fence.
ReserveExecution(c) ==
    /\ Checked(c, "execution_registered")
    /\ fenceLock = NoOne
    /\ fence.state = "ready"
    /\ admLock' = c
    /\ fenceLock' = c
    /\ pc' = [pc EXCEPT ![c] = "reserve_save"]
    /\ UNCHANGED <<disk, mem, handle, daemon, effects>>

ReserveSave(c) ==
    /\ pc[c] = "reserve_save"
    /\ fence' = [fence EXCEPT !.state = "unknown"]
    /\ pc' = [pc EXCEPT ![c] = "reserve_sync"]
    /\ UNCHANGED <<adm, admD, fenceD, completion, locks, mem, handle, daemon, effects>>

\* The reservation keeps execution.lock; admission.lock is released on return.
ReserveSync(c) ==
    /\ pc[c] = "reserve_sync"
    /\ fenceD' = fence
    /\ admLock' = NoOne
    /\ pc' = [pc EXCEPT ![c] = "reserved"]
    /\ UNCHANGED <<adm, admD, fence, completion, fenceLock, mem, handle, daemon, effects>>

\* run_offline consumes the reservation and starts the backend.
StartBackend(c) ==
    /\ pc[c] = "reserved"
    /\ pc' = [pc EXCEPT ![c] = "backend"]
    /\ starts' = starts + 1
    /\ started' = started \cup {fence.exec}
    /\ UNCHANGED <<disk, locks, mem, handle, daemon, enqueues, receipts, outputs>>

\* run_offline returns a receipt only for a successful, cleaned-up backend.
FinishBackend(c) ==
    /\ pc[c] = "backend"
    /\ pc' = [pc EXCEPT ![c] = "idle"]
    /\ fenceLock' = NoOne
    /\ receipts' \in {receipts, receipts \cup {fence.exec}}
    /\ UNCHANGED <<disk, admLock, mem, handle, daemon, enqueues, starts, started, outputs>>

\* Mutant: completion is retained for a registered, not a consumed, execution.
RetainUnconsumed(c) ==
    /\ Checked(c, "execution_registered")
    /\ fenceLock = NoOne
    /\ Continue(c, [adm EXCEPT !.phase = "completion_retention_unknown"], "retention_save")

\* retain_offline_completion: only for the consumed original execution.
RetainCompletion(c) ==
    /\ Checked(c, "execution_registered")
    /\ adm.exec \in receipts
    /\ fenceLock = NoOne
    /\ fence.state = "unknown"
    /\ Continue(c, [adm EXCEPT !.phase = "completion_retention_unknown"], "retention_save")

\* RetainedCompletion::retain creates and fsyncs the directory and its three
\* members; a failure returns and leaves the phase UNKNOWN.
RetainFiles(c) ==
    /\ pc[c] = "retain_files"
    /\ completion = "absent"
    /\ completion' \in {"absent", "partial", "complete"}
    /\ \/ /\ completion' = "complete"
          /\ mem' = [mem EXCEPT ![c] = [adm EXCEPT !.phase = "completion_retained"]]
          /\ pc' = [pc EXCEPT ![c] = "retained_save"]
          /\ UNCHANGED admLock
       \/ /\ pc' = [pc EXCEPT ![c] = "idle"]
          /\ admLock' = NoOne
          /\ UNCHANGED mem
    /\ UNCHANGED <<adm, admD, fence, fenceD, fenceLock, handle, daemon, effects>>

\* output: the retained directory and members are those that were retained.
CompleteOutput == completion = "complete"

\* retained_offline_output for a running delivery of the original job.
RetainedOutput(c) ==
    /\ Checked(c, "completion_retained")
    /\ running = adm.job
    /\ fenceLock = NoOne
    /\ fence.state = "unknown"
    /\ CompleteOutput
    /\ outputs' = outputs \cup {adm.exec}
    /\ UNCHANGED <<disk, locks, pc, mem, handle, daemon, enqueues, starts, started, receipts>>

\* save(): the new journal, written from the copy the call read, is renamed
\* into place, where every process reads it.
Save(c) ==
    /\ pc[c] \in Saving
    /\ adm' = mem[c]
    /\ mem' = [mem EXCEPT ![c] = Absent]
    /\ pc' = [pc EXCEPT ![c] = AfterRename(pc[c])]
    /\ UNCHANGED <<admD, fence, fenceD, completion, locks, handle, daemon, effects>>

\* save(): the directory is fsynced, and the call goes on or returns Ok and
\* drops the lock; register hands out the original handle.
SyncDirectory(c) ==
    /\ pc[c] \in Syncing
    /\ admD' = adm
    /\ pc' = [pc EXCEPT ![c] = AfterSync(pc[c])]
    /\ admLock' = IF AfterSync(pc[c]) \in Locked THEN admLock ELSE NoOne
    /\ handle' = (handle \/ pc[c] = "register_sync")
    /\ UNCHANGED <<adm, fence, fenceD, completion, fenceLock, mem, daemon, effects>>

-----------------------------------------------------------------------------
\* An error return or a kill: the flocks go, every file stays.
Stop(c) ==
    /\ pc[c] # "idle"
    /\ pc' = [pc EXCEPT ![c] = "idle"]
    /\ mem' = [mem EXCEPT ![c] = Absent]
    /\ admLock' = IF admLock = c THEN NoOne ELSE admLock
    /\ fenceLock' = IF fenceLock = c THEN NoOne ELSE fenceLock
    /\ UNCHANGED <<disk, handle, daemon, effects>>

\* The kernel may write back a renamed directory entry before any fsync.
Writeback ==
    /\ admD' \in {admD, adm}
    /\ fenceD' \in {fenceD, fence}
    /\ UNCHANGED <<adm, fence, completion, locks, pc, mem, handle, daemon, effects>>

\* Every process dies and unsynced renames are lost.
PowerLoss ==
    /\ adm' = admD
    /\ fence' = fenceD
    /\ admLock' = NoOne
    /\ fenceLock' = NoOne
    /\ pc' = [c \in Controllers |-> "idle"]
    /\ mem' = [c \in Controllers |-> Absent]
    /\ running' = NoJob
    /\ UNCHANGED <<admD, fenceD, completion, handle, jobs, paused, effects>>

\* The daemon creates at most one job for each enqueue request, perhaps long
\* after the controller gave up waiting for the response.
CreateJob(j) ==
    /\ Cardinality(jobs) < enqueues
    /\ j \notin jobs
    /\ jobs' = jobs \cup {j}
    /\ UNCHANGED <<disk, locks, pc, mem, handle, paused, running, effects>>

\* The daemon runs the adapter of a queued job, and may requeue and redeliver
\* it after a restart of its own.
Deliver(j) ==
    /\ ~paused
    /\ j \in jobs
    /\ running = NoJob
    /\ running' = j
    /\ UNCHANGED <<disk, locks, pc, mem, handle, jobs, paused, effects>>

Requeue ==
    /\ running # NoJob
    /\ running' = NoJob
    /\ UNCHANGED <<disk, locks, pc, mem, handle, jobs, paused, effects>>

Controller(c) ==
    \/ Register(c) \/ RegisterLock(c)
    \/ BeginEnqueue(c) \/ PostEnqueue(c)
    \/ \E j \in Jobs : BindJob(c, j)
    \/ BeginDispatch(c) \/ Unpause(c)
    \/ \E e \in Executions : RegisterExecution(c, e)
    \/ FenceCreate(c) \/ FenceSave(c) \/ FenceSync(c)
    \/ ReserveExecution(c) \/ ReserveSave(c) \/ ReserveSync(c)
    \/ StartBackend(c) \/ FinishBackend(c)
    \/ RetainCompletion(c) \/ RetainFiles(c) \/ RetainedOutput(c)
    \/ Save(c) \/ SyncDirectory(c)
    \/ Stop(c)

External ==
    \/ Writeback \/ PowerLoss
    \/ \E j \in Jobs : CreateJob(j) \/ Deliver(j)
    \/ Requeue

Next == (\E c \in Controllers : Controller(c)) \/ External

Spec == Init /\ [][Next]_vars

-----------------------------------------------------------------------------
Admissions == [phase : Phases, job : Jobs \cup {NoJob}, exec : Executions \cup {NoExec}]
Fences == [state : FenceStates, exec : Executions \cup {NoExec}]

\* Type correctness of the journals, locks and control states.
TypeOK ==
    /\ adm \in Admissions /\ admD \in Admissions
    /\ fence \in Fences /\ fenceD \in Fences
    /\ completion \in {"absent", "partial", "complete"}
    /\ admLock \in Controllers \cup {NoOne}
    /\ fenceLock \in Controllers \cup {NoOne}
    /\ pc \in [Controllers -> PCs]
    /\ mem \in [Controllers -> Admissions]
    /\ handle \in BOOLEAN
    /\ jobs \subseteq Jobs
    /\ paused \in BOOLEAN
    /\ running \in Jobs \cup {NoJob}
    /\ enqueues \in Nat /\ starts \in Nat
    /\ started \subseteq Executions
    /\ receipts \subseteq Executions
    /\ outputs \subseteq Executions

\* However the controllers interleave, stop, lose power and start again, one
\* admitted request sends one enqueue and starts one backend: begin_enqueue and
\* reserve_execution "never grant a retry".
SingleEffects == enqueues <= 1 /\ starts <= 1

\* What has been caused outside is already UNKNOWN on the disk a power loss
\* leaves: enqueue, queue release and backend start each follow the fsync of
\* the journal that forbids their replay.
EffectsRecorded ==
    /\ enqueues > 0 => Rank(admD.phase) >= Rank("enqueue_unknown")
    /\ ~paused => Rank(admD.phase) >= Rank("dispatch_unknown")
    /\ starts > 0 => /\ fenceD.state = "unknown"
                     /\ started = {fenceD.exec}

\* Output returned to an adapter is that of the one successful backend whose
\* consumed fence is on disk, never of a replacement registration.
OutputOfOriginal ==
    \A e \in outputs :
        /\ e \in receipts
        /\ started = {e}
        /\ fence = [state |-> "unknown", exec |-> e]
        /\ admD.exec = e

\* No step, a power loss included, moves the durable journals back, and a job
\* or an execution once durable is never replaced by another.
DurableMonotone ==
    [][/\ Rank(admD'.phase) >= Rank(admD.phase)
       /\ FenceRank(fenceD'.state) >= FenceRank(fenceD.state)
       /\ admD.job # NoJob => admD'.job = admD.job
       /\ admD.exec # NoExec => admD'.exec = admD.exec
       /\ fenceD.exec # NoExec => fenceD'.exec = fenceD.exec]_<<admD, fenceD>>

\* The store implements the one-shot review, with the journals, the locks and
\* the receipts hidden.
Abstract == INSTANCE OneShotReview
                WITH requests <- enqueues, starts <- starts,
                     started <- started, shown <- outputs
ImplementsOneShot == Abstract!Spec
=============================================================================
