----------------------- MODULE WorkerAdmission_proofs -----------------------
(***************************************************************************)
(* Proofs about WorkerAdmission for any controllers, jobs and executions.  *)
(***************************************************************************)
EXTENDS WorkerAdmission, FiniteSetTheorems, TLAPS

\* Who is between taking a flock and dropping it holds it.
LockInv ==
    \A c \in Controllers :
        /\ pc[c] \in Locked => admLock = c
        /\ pc[c] \in FenceLocked => fenceLock = c

\* The phase a controller's next rename installs, and the one it replaces.
Target(p) ==
    CASE p \in {"register_save", "register_sync"} -> "admitted"
      [] p \in {"enqueue_save", "enqueue_sync"} -> "enqueue_unknown"
      [] p \in {"bind_save", "bind_sync"} -> "job_bound"
      [] p \in {"dispatch_save", "dispatch_sync"} -> "dispatch_unknown"
      [] p \in {"execution_save", "execution_sync"} -> "execution_registration_unknown"
      [] p \in {"registered_save", "registered_sync"} -> "execution_registered"
      [] p \in {"retention_save", "retention_sync"} -> "completion_retention_unknown"
      [] p \in {"retained_save", "retained_sync"} -> "completion_retained"

\* What is durable is what is visible, or an earlier state of it.
JournalInv ==
    /\ Rank(admD.phase) <= Rank(adm.phase)
    /\ admD.job \in {NoJob, adm.job}
    /\ admD.exec \in {NoExec, adm.exec}
    /\ handle => Rank(admD.phase) >= 2
    /\ Rank(adm.phase) < 6 <=> adm.exec = NoExec
    /\ Rank(admD.phase) < 6 <=> admD.exec = NoExec
    /\ Rank(adm.phase) < 4 <=> adm.job = NoJob
    /\ Rank(admD.phase) < 4 <=> admD.job = NoJob

\* A controller inside a save writes the successor of the journal it read.
SaveInv ==
    \A c \in Controllers :
        /\ pc[c] = "register_lock" => adm.phase = "tombstone"
        /\ pc[c] \in Saving =>
              /\ mem[c].phase = Target(pc[c])
              /\ Rank(mem[c].phase) = Rank(adm.phase) + 1
              /\ adm.job # NoJob => mem[c].job = adm.job
              /\ adm.exec # NoExec => mem[c].exec = adm.exec
              /\ Rank(mem[c].phase) < 6 <=> mem[c].exec = NoExec
              /\ Rank(mem[c].phase) < 4 <=> mem[c].job = NoJob
        /\ pc[c] \in Syncing => adm.phase = Target(pc[c])
        /\ pc[c] \in {"fence_create", "fence_save", "fence_sync"} =>
              /\ adm.phase = "execution_registration_unknown"
              /\ admD.phase = "execution_registration_unknown"
        /\ pc[c] \in {"reserve_save", "reserve_sync"} =>
              adm.phase = "execution_registered"
        /\ pc[c] = "retain_files" => adm.phase = "completion_retention_unknown"

\* Enqueue and queue release follow their durable UNKNOWN, once.
EnqueueInv ==
    /\ enqueues <= 1
    /\ enqueues > 0 => /\ Rank(admD.phase) >= 3
                       /\ \A c \in Controllers : pc[c] # "enqueue_granted"
    /\ ~paused => Rank(admD.phase) >= 5
    /\ \A c \in Controllers :
        /\ pc[c] \in {"enqueue_save", "enqueue_sync"} =>
              /\ enqueues = 0
              /\ \A d \in Controllers : pc[d] # "enqueue_granted"
        /\ pc[c] = "enqueue_granted" =>
              /\ Rank(admD.phase) >= 3
              /\ \A d \in Controllers : pc[d] = "enqueue_granted" => d = c
        /\ pc[c] = "dispatch_granted" => Rank(admD.phase) >= 5

\* The fence belongs to the durably admitted execution, and is UNKNOWN on disk
\* before its backend starts, once.
FenceInv ==
    /\ FenceRank(fenceD.state) <= FenceRank(fence.state)
    /\ fenceD = NoFence \/ fenceD.exec = fence.exec
    /\ fenceD.state = "absent" => fenceD = NoFence
    /\ fence.state = "absent" => fence = NoFence
    /\ fence.state # "absent" =>
          /\ Rank(admD.phase) >= 6
          /\ fence.exec = adm.exec
    /\ starts <= 1
    /\ starts = 0 => started = {}
    /\ starts > 0 => /\ fenceD.state = "unknown"
                     /\ started = {fence.exec}
    /\ \A c \in Controllers :
        /\ pc[c] = "fence_save" => fence.state = "tombstone"
        /\ pc[c] = "fence_sync" => fence.state = "ready"
        /\ pc[c] = "reserve_save" => fence.state = "ready"
        /\ pc[c] = "reserve_sync" => fence.state = "unknown" /\ starts = 0
        /\ pc[c] = "reserved" => fenceD.state = "unknown" /\ starts = 0
        /\ pc[c] = "backend" => starts = 1

\* A retained completion, and every output, has the receipt of that backend.
ReceiptInv ==
    /\ receipts \subseteq started
    /\ outputs \subseteq receipts
    /\ Rank(adm.phase) >= 8 => adm.exec \in receipts
    /\ \A c \in Controllers :
          pc[c] = "retention_save" => adm.exec \in receipts

\* A job is bound only when the daemon has one, which it has only from an enqueue.
JobInv ==
    /\ IsFiniteSet(jobs)
    /\ jobs # {} => enqueues > 0
    /\ Rank(adm.phase) >= 4 => jobs # {}
    /\ \A c \in Controllers : pc[c] = "bind_save" => jobs # {}

IInv ==
    /\ TypeOK
    /\ LockInv
    /\ JournalInv
    /\ SaveInv
    /\ EnqueueInv
    /\ FenceInv
    /\ ReceiptInv
    /\ JobInv

-----------------------------------------------------------------------------
\* The journals that the calls write are well-formed.
LEMMA JournalEdits ==
  ASSUME NEW a \in Admissions, NEW p \in Phases
  PROVE  /\ [a EXCEPT !.phase = p] \in Admissions
         /\ \A j \in Jobs : [a EXCEPT !.phase = p, !.job = j] \in Admissions
         /\ \A e \in Executions : [a EXCEPT !.phase = p, !.exec = e] \in Admissions
BY DEF Admissions

\* Ranks are numbers, and each phase has its own.
LEMMA RankType ==
  /\ \A p \in Phases : Rank(p) \in Nat
  /\ \A s \in FenceStates : FenceRank(s) \in Nat
BY DEF Phases, Rank, FenceStates, FenceRank

LEMMA RankValues ==
  /\ Rank("absent") = 0 /\ Rank("tombstone") = 1 /\ Rank("admitted") = 2
  /\ Rank("enqueue_unknown") = 3 /\ Rank("job_bound") = 4
  /\ Rank("dispatch_unknown") = 5 /\ Rank("execution_registration_unknown") = 6
  /\ Rank("execution_registered") = 7 /\ Rank("completion_retention_unknown") = 8
  /\ Rank("completion_retained") = 9
  /\ FenceRank("absent") = 0 /\ FenceRank("tombstone") = 1
  /\ FenceRank("ready") = 2 /\ FenceRank("unknown") = 3
BY DEF Rank, FenceRank

LEMMA TargetValues ==
  /\ Target("register_save") = "admitted" /\ Target("register_sync") = "admitted"
  /\ Target("enqueue_save") = "enqueue_unknown" /\ Target("enqueue_sync") = "enqueue_unknown"
  /\ Target("bind_save") = "job_bound" /\ Target("bind_sync") = "job_bound"
  /\ Target("dispatch_save") = "dispatch_unknown" /\ Target("dispatch_sync") = "dispatch_unknown"
  /\ Target("execution_save") = "execution_registration_unknown"
  /\ Target("execution_sync") = "execution_registration_unknown"
  /\ Target("registered_save") = "execution_registered"
  /\ Target("registered_sync") = "execution_registered"
  /\ Target("retention_save") = "completion_retention_unknown"
  /\ Target("retention_sync") = "completion_retention_unknown"
  /\ Target("retained_save") = "completion_retained"
  /\ Target("retained_sync") = "completion_retained"
BY DEF Target

\* While the fence's lock is held by its registration or a reservation, the
\* fence names an execution.
LEMMA BoundFence ==
  ASSUME IInv, NEW c \in Controllers, pc[c] \in {"reserved", "backend"}
  PROVE  fence.exec \in Executions
<1>1. fenceD.state = "unknown"
  BY DEF IInv, FenceInv
<1>2. fence.state # "absent"
  BY <1>1 DEF IInv, TypeOK, Fences, FenceStates, FenceInv, FenceRank
<1>3. fence.exec = adm.exec /\ Rank(admD.phase) >= 6
  BY <1>2 DEF IInv, FenceInv
<1>4. Rank(adm.phase) >= 6
  BY <1>3, RankType DEF IInv, TypeOK, Admissions, JournalInv
<1>5. adm.exec # NoExec
  BY <1>4, RankType DEF IInv, TypeOK, Admissions, JournalInv
<1> QED
  BY <1>3, <1>5 DEF IInv, TypeOK, Admissions

\* A call that goes on to save a well-formed journal keeps the types.
LEMMA ContinueTypes ==
  ASSUME TypeOK, NEW c \in Controllers, NEW journal \in Admissions, NEW next \in PCs,
         Continue(c, journal, next)
  PROVE  TypeOK'
<1>1. mem' \in [Controllers -> Admissions] /\ pc' \in [Controllers -> PCs]
  BY DEF Continue, TypeOK
<1>2. admLock' \in Controllers \cup {NoOne}
  BY DEF Continue
<1> QED
  BY <1>1, <1>2, Zenon DEF Continue, TypeOK, disk, daemon, effects

\* Every step keeps the types.
LEMMA TypeStep ==
  ASSUME IInv, [Next]_vars
  PROVE  TypeOK'
<1>0. TypeOK BY DEF IInv
<1> USE NonesAssumption
<1>1. ASSUME NEW c \in Controllers, Register(c) PROVE TypeOK'
  <2>1. adm' \in Admissions
    BY <1>0, <1>1, JournalEdits DEF TypeOK, Phases, Register
  <2>2. pc' \in [Controllers -> PCs] /\ admLock' \in Controllers \cup {NoOne}
    BY <1>0, <1>1 DEF TypeOK, Register, PCs, Locked
  <2> QED
    BY <1>0, <1>1, <2>1, <2>2, Zenon DEF TypeOK, Register, daemon, effects
<1>3. ASSUME NEW c \in Controllers, BeginEnqueue(c) PROVE TypeOK'
  <2>1. [adm EXCEPT !.phase = "enqueue_unknown"] \in Admissions
    BY <1>0, JournalEdits DEF TypeOK, Phases
  <2>2. "enqueue_save" \in PCs
    BY DEF PCs, Locked, Saving
  <2> QED
    BY <1>0, <1>3, <2>1, <2>2, ContinueTypes, Zenon DEF BeginEnqueue
<1>5. ASSUME NEW c \in Controllers, NEW j \in Jobs, BindJob(c, j) PROVE TypeOK'
  <2>1. [adm EXCEPT !.phase = "job_bound", !.job = j] \in Admissions
    BY <1>0, JournalEdits DEF TypeOK, Phases
  <2>2. "bind_save" \in PCs
    BY DEF PCs, Locked, Saving
  <2> QED
    BY <1>0, <1>5, <2>1, <2>2, ContinueTypes, Zenon DEF BindJob
<1>6. ASSUME NEW c \in Controllers, BeginDispatch(c) PROVE TypeOK'
  <2>1. [adm EXCEPT !.phase = "dispatch_unknown"] \in Admissions
    BY <1>0, JournalEdits DEF TypeOK, Phases
  <2>2. "dispatch_save" \in PCs
    BY DEF PCs, Locked, Saving
  <2> QED
    BY <1>0, <1>6, <2>1, <2>2, ContinueTypes, Zenon DEF BeginDispatch
<1>7. ASSUME NEW c \in Controllers, Unpause(c) PROVE TypeOK'
  <2>1. pc' \in [Controllers -> PCs] /\ paused' \in BOOLEAN
    BY <1>0, <1>7 DEF TypeOK, Unpause, PCs
  <2> QED
    BY <1>0, <1>7, <2>1, Zenon DEF TypeOK, Unpause, disk, locks, effects
<1>8. ASSUME NEW c \in Controllers, NEW e \in Executions, RegisterExecution(c, e) PROVE TypeOK'
  <2>1. [adm EXCEPT !.phase = "execution_registration_unknown", !.exec = e] \in Admissions
    BY <1>0, JournalEdits DEF TypeOK, Phases
  <2>2. "execution_save" \in PCs
    BY DEF PCs, Locked, Saving
  <2> QED
    BY <1>0, <1>8, <2>1, <2>2, ContinueTypes, Zenon DEF RegisterExecution
<1>17. ASSUME NEW c \in Controllers, RetainCompletion(c) PROVE TypeOK'
  <2>1. [adm EXCEPT !.phase = "completion_retention_unknown"] \in Admissions
    BY <1>0, JournalEdits DEF TypeOK, Phases
  <2>2. "retention_save" \in PCs
    BY DEF PCs, Locked, Saving
  <2> QED
    BY <1>0, <1>17, <2>1, <2>2, ContinueTypes, Zenon DEF RetainCompletion
<1> USE DEF TypeOK, vars, disk, locks, daemon, effects, Fences, FenceStates, PCs, Locked, Granted, Saving, Syncing
<1>2. ASSUME NEW c \in Controllers, RegisterLock(c) PROVE TypeOK'
  <2>1. [adm EXCEPT !.phase = "admitted"] \in Admissions
    BY <1>0, JournalEdits DEF Phases
  <2> QED
    BY <1>0, <1>2, <2>1 DEF RegisterLock
<1>4. ASSUME NEW c \in Controllers, PostEnqueue(c) PROVE TypeOK'
  BY <1>0, <1>4 DEF PostEnqueue
<1>9. ASSUME NEW c \in Controllers, FenceCreate(c) PROVE TypeOK'
  <2>1. fence' \in Fences
    BY <1>0, <1>9 DEF FenceCreate, Admissions
  <2> QED
    BY <1>0, <1>9, <2>1 DEF FenceCreate
<1>10. ASSUME NEW c \in Controllers, FenceSave(c) PROVE TypeOK'
  BY <1>0, <1>10 DEF FenceSave
<1>11. ASSUME NEW c \in Controllers, FenceSync(c) PROVE TypeOK'
  BY <1>0, <1>11, JournalEdits DEF Phases, FenceSync
<1>12. ASSUME NEW c \in Controllers, ReserveExecution(c) PROVE TypeOK'
  BY <1>0, <1>12 DEF ReserveExecution, Checked
<1>13. ASSUME NEW c \in Controllers, ReserveSave(c) PROVE TypeOK'
  BY <1>0, <1>13 DEF ReserveSave
<1>14. ASSUME NEW c \in Controllers, ReserveSync(c) PROVE TypeOK'
  BY <1>0, <1>14 DEF ReserveSync
<1>15. ASSUME NEW c \in Controllers, StartBackend(c) PROVE TypeOK'
  BY <1>15, BoundFence DEF IInv, StartBackend
<1>16. ASSUME NEW c \in Controllers, FinishBackend(c) PROVE TypeOK'
  BY <1>16, BoundFence DEF IInv, FinishBackend
<1>18. ASSUME NEW c \in Controllers, RetainFiles(c) PROVE TypeOK'
  <2>1. [adm EXCEPT !.phase = "completion_retained"] \in Admissions
    BY <1>0, JournalEdits DEF Phases
  <2>2. mem' \in [Controllers -> Admissions]
    BY <1>0, <1>18, <2>1 DEF RetainFiles
  <2>3. pc' \in [Controllers -> PCs] /\ admLock' \in Controllers \cup {NoOne}
    BY <1>0, <1>18 DEF RetainFiles
  <2> QED
    BY <1>0, <1>18, <2>2, <2>3 DEF RetainFiles
<1>19. ASSUME NEW c \in Controllers, RetainedOutput(c) PROVE TypeOK'
  BY <1>19 DEF IInv, RetainedOutput, Checked, ReceiptInv, Rank
<1>20. ASSUME NEW c \in Controllers, Save(c) PROVE TypeOK'
  BY <1>0, <1>20 DEF Save, AfterRename, Absent, Admissions, Phases
<1>21. ASSUME NEW c \in Controllers, SyncDirectory(c) PROVE TypeOK'
  BY <1>0, <1>21 DEF SyncDirectory, AfterSync
<1>22. ASSUME NEW c \in Controllers, Stop(c) PROVE TypeOK'
  BY <1>0, <1>22 DEF Stop, Absent, Admissions, Phases
<1>23. ASSUME Writeback PROVE TypeOK'
  BY <1>0, <1>23 DEF Writeback
<1>24. ASSUME PowerLoss PROVE TypeOK'
  BY <1>0, <1>24 DEF PowerLoss, Absent, Admissions, Phases
<1>25. ASSUME NEW j \in Jobs, CreateJob(j) PROVE TypeOK'
  BY <1>0, <1>25 DEF CreateJob
<1>26. ASSUME NEW j \in Jobs, Deliver(j) PROVE TypeOK'
  BY <1>0, <1>26 DEF Deliver
<1>27. ASSUME Requeue PROVE TypeOK'
  BY <1>0, <1>27 DEF Requeue
<1>28. CASE UNCHANGED vars
  BY <1>0, <1>28 DEF vars
<1>29. QED
  BY <1>1, <1>2, <1>3, <1>4, <1>5, <1>6, <1>7, <1>8, <1>9, <1>10, <1>11, <1>12, <1>13, <1>14, <1>15, <1>16, <1>17, <1>18, <1>19, <1>20, <1>21, <1>22, <1>23, <1>24, <1>25, <1>26, <1>27, <1>28 DEF Next, Controller, External

\* Every step keeps the lock discipline.
LEMMA LockStep ==
  ASSUME IInv, [Next]_vars
  PROVE  LockInv'
<1> USE NonesAssumption DEF IInv, TypeOK, vars, disk, locks, daemon, effects, LockInv, PCs, Locked, Granted, Saving, Syncing, FenceLocked
<1>1. ASSUME NEW c \in Controllers, Register(c) PROVE LockInv'
  <2>1. \A d \in Controllers : pc[d] \notin Locked
    BY <1>1, RankType, RankValues, TargetValues DEF Register, SaveInv, FenceInv, Admissions, JournalInv, Phases
  <2>2. fence.state = "absent"
    BY <1>1, RankType, RankValues, TargetValues DEF Register, FenceInv, JournalInv, Admissions
  <2> QED
    BY <1>1, <2>1 DEF Register
<1>2. ASSUME NEW c \in Controllers, RegisterLock(c) PROVE LockInv'
  BY <1>2 DEF RegisterLock
<1>3. ASSUME NEW c \in Controllers, BeginEnqueue(c) PROVE LockInv'
  BY <1>3 DEF BeginEnqueue, Continue, Checked
<1>4. ASSUME NEW c \in Controllers, PostEnqueue(c) PROVE LockInv'
  BY <1>4 DEF PostEnqueue
<1>5. ASSUME NEW c \in Controllers, NEW j \in Jobs, BindJob(c, j) PROVE LockInv'
  BY <1>5 DEF BindJob, Continue, Checked
<1>6. ASSUME NEW c \in Controllers, BeginDispatch(c) PROVE LockInv'
  BY <1>6 DEF BeginDispatch, Continue, Checked
<1>7. ASSUME NEW c \in Controllers, Unpause(c) PROVE LockInv'
  BY <1>7 DEF Unpause
<1>8. ASSUME NEW c \in Controllers, NEW e \in Executions, RegisterExecution(c, e) PROVE LockInv'
  BY <1>8 DEF RegisterExecution, Continue, Checked
<1>9. ASSUME NEW c \in Controllers, FenceCreate(c) PROVE LockInv'
  <2>1. \A d \in Controllers : pc[d] \notin FenceLocked
    BY <1>9, RankValues DEF FenceCreate, FenceInv, Fences, NoFence
  <2> QED
    BY <1>9, <2>1 DEF FenceCreate
<1>10. ASSUME NEW c \in Controllers, FenceSave(c) PROVE LockInv'
  BY <1>10 DEF FenceSave
<1>11. ASSUME NEW c \in Controllers, FenceSync(c) PROVE LockInv'
  BY <1>11 DEF FenceSync
<1>12. ASSUME NEW c \in Controllers, ReserveExecution(c) PROVE LockInv'
  BY <1>12 DEF ReserveExecution, Checked
<1>13. ASSUME NEW c \in Controllers, ReserveSave(c) PROVE LockInv'
  BY <1>13 DEF ReserveSave
<1>14. ASSUME NEW c \in Controllers, ReserveSync(c) PROVE LockInv'
  BY <1>14 DEF ReserveSync
<1>15. ASSUME NEW c \in Controllers, StartBackend(c) PROVE LockInv'
  BY <1>15 DEF StartBackend
<1>16. ASSUME NEW c \in Controllers, FinishBackend(c) PROVE LockInv'
  BY <1>16 DEF FinishBackend
<1>17. ASSUME NEW c \in Controllers, RetainCompletion(c) PROVE LockInv'
  BY <1>17 DEF RetainCompletion, Continue, Checked
<1>18. ASSUME NEW c \in Controllers, RetainFiles(c) PROVE LockInv'
  BY <1>18 DEF RetainFiles
<1>19. ASSUME NEW c \in Controllers, RetainedOutput(c) PROVE LockInv'
  BY <1>19 DEF RetainedOutput, Checked
<1>20. ASSUME NEW c \in Controllers, Save(c) PROVE LockInv'
  BY <1>20 DEF Save, AfterRename
<1>21. ASSUME NEW c \in Controllers, SyncDirectory(c) PROVE LockInv'
  BY <1>21 DEF SyncDirectory, AfterSync
<1>22. ASSUME NEW c \in Controllers, Stop(c) PROVE LockInv'
  BY <1>22 DEF Stop
<1>23. ASSUME Writeback PROVE LockInv'
  BY <1>23 DEF Writeback
<1>24. ASSUME PowerLoss PROVE LockInv'
  BY <1>24 DEF PowerLoss
<1>25. ASSUME NEW j \in Jobs, CreateJob(j) PROVE LockInv'
  BY <1>25 DEF CreateJob
<1>26. ASSUME NEW j \in Jobs, Deliver(j) PROVE LockInv'
  BY <1>26 DEF Deliver
<1>27. ASSUME Requeue PROVE LockInv'
  BY <1>27 DEF Requeue
<1>28. CASE UNCHANGED vars
  BY <1>28 DEF vars
<1>29. QED
  BY <1>1, <1>2, <1>3, <1>4, <1>5, <1>6, <1>7, <1>8, <1>9, <1>10, <1>11, <1>12, <1>13, <1>14, <1>15, <1>16, <1>17, <1>18, <1>19, <1>20, <1>21, <1>22, <1>23, <1>24, <1>25, <1>26, <1>27, <1>28 DEF Next, Controller, External

\* Every step keeps the durable journal behind the visible one.
LEMMA JournalStep ==
  ASSUME IInv, [Next]_vars
  PROVE  JournalInv'
<1> USE NonesAssumption DEF IInv, TypeOK, vars, disk, locks, daemon, effects, JournalInv, SaveInv, Admissions, Saving, Syncing
<1>1. ASSUME NEW c \in Controllers, Register(c) PROVE JournalInv'
  BY <1>1, RankType, RankValues, TargetValues DEF Register
<1>2. ASSUME NEW c \in Controllers, RegisterLock(c) PROVE JournalInv'
  BY <1>2, RankType, RankValues, TargetValues DEF RegisterLock
<1>3. ASSUME NEW c \in Controllers, BeginEnqueue(c) PROVE JournalInv'
  BY <1>3, RankType, RankValues, TargetValues DEF BeginEnqueue, Continue, Checked
<1>4. ASSUME NEW c \in Controllers, PostEnqueue(c) PROVE JournalInv'
  BY <1>4, RankType, RankValues, TargetValues DEF PostEnqueue
<1>5. ASSUME NEW c \in Controllers, NEW j \in Jobs, BindJob(c, j) PROVE JournalInv'
  BY <1>5, RankType, RankValues, TargetValues DEF BindJob, Continue, Checked
<1>6. ASSUME NEW c \in Controllers, BeginDispatch(c) PROVE JournalInv'
  BY <1>6, RankType, RankValues, TargetValues DEF BeginDispatch, Continue, Checked
<1>7. ASSUME NEW c \in Controllers, Unpause(c) PROVE JournalInv'
  BY <1>7, RankType, RankValues, TargetValues DEF Unpause
<1>8. ASSUME NEW c \in Controllers, NEW e \in Executions, RegisterExecution(c, e) PROVE JournalInv'
  BY <1>8, RankType, RankValues, TargetValues DEF RegisterExecution, Continue, Checked
<1>9. ASSUME NEW c \in Controllers, FenceCreate(c) PROVE JournalInv'
  BY <1>9, RankType, RankValues, TargetValues DEF FenceCreate
<1>10. ASSUME NEW c \in Controllers, FenceSave(c) PROVE JournalInv'
  BY <1>10, RankType, RankValues, TargetValues DEF FenceSave
<1>11. ASSUME NEW c \in Controllers, FenceSync(c) PROVE JournalInv'
  BY <1>11, RankType, RankValues, TargetValues DEF FenceSync
<1>12. ASSUME NEW c \in Controllers, ReserveExecution(c) PROVE JournalInv'
  BY <1>12, RankType, RankValues, TargetValues DEF ReserveExecution, Checked
<1>13. ASSUME NEW c \in Controllers, ReserveSave(c) PROVE JournalInv'
  BY <1>13, RankType, RankValues, TargetValues DEF ReserveSave
<1>14. ASSUME NEW c \in Controllers, ReserveSync(c) PROVE JournalInv'
  BY <1>14, RankType, RankValues, TargetValues DEF ReserveSync
<1>15. ASSUME NEW c \in Controllers, StartBackend(c) PROVE JournalInv'
  BY <1>15, RankType, RankValues, TargetValues DEF StartBackend
<1>16. ASSUME NEW c \in Controllers, FinishBackend(c) PROVE JournalInv'
  BY <1>16, RankType, RankValues, TargetValues DEF FinishBackend
<1>17. ASSUME NEW c \in Controllers, RetainCompletion(c) PROVE JournalInv'
  BY <1>17, RankType, RankValues, TargetValues DEF RetainCompletion, Continue, Checked
<1>18. ASSUME NEW c \in Controllers, RetainFiles(c) PROVE JournalInv'
  BY <1>18, RankType, RankValues, TargetValues DEF RetainFiles
<1>19. ASSUME NEW c \in Controllers, RetainedOutput(c) PROVE JournalInv'
  BY <1>19, RankType, RankValues, TargetValues DEF RetainedOutput, Checked
<1>20. ASSUME NEW c \in Controllers, Save(c) PROVE JournalInv'
  BY <1>20, RankType, RankValues, TargetValues DEF Save, AfterRename
<1>21. ASSUME NEW c \in Controllers, SyncDirectory(c) PROVE JournalInv'
  <2>1. pc[c] = "register_sync" => Rank(adm.phase) >= 2
    BY <1>21, RankValues, TargetValues DEF SyncDirectory
  <2> QED
    BY <1>21, <2>1, RankType, RankValues, TargetValues DEF SyncDirectory
<1>22. ASSUME NEW c \in Controllers, Stop(c) PROVE JournalInv'
  BY <1>22, RankType, RankValues, TargetValues DEF Stop
<1>23. ASSUME Writeback PROVE JournalInv'
  BY <1>23, RankType, RankValues, TargetValues DEF Writeback
<1>24. ASSUME PowerLoss PROVE JournalInv'
  BY <1>24, RankType, RankValues, TargetValues DEF PowerLoss
<1>25. ASSUME NEW j \in Jobs, CreateJob(j) PROVE JournalInv'
  BY <1>25, RankType, RankValues, TargetValues DEF CreateJob
<1>26. ASSUME NEW j \in Jobs, Deliver(j) PROVE JournalInv'
  BY <1>26, RankType, RankValues, TargetValues DEF Deliver
<1>27. ASSUME Requeue PROVE JournalInv'
  BY <1>27, RankType, RankValues, TargetValues DEF Requeue
<1>28. CASE UNCHANGED vars
  BY <1>28 DEF vars
<1>29. QED
  BY <1>1, <1>2, <1>3, <1>4, <1>5, <1>6, <1>7, <1>8, <1>9, <1>10, <1>11, <1>12, <1>13, <1>14, <1>15, <1>16, <1>17, <1>18, <1>19, <1>20, <1>21, <1>22, <1>23, <1>24, <1>25, <1>26, <1>27, <1>28 DEF Next, Controller, External

\* Where a call goes on once its journal is renamed, and once it is fsynced.
LEMMA RenameValues ==
  ASSUME NEW p \in Saving
  PROVE  /\ AfterRename(p) \in Syncing
         /\ Target(AfterRename(p)) = Target(p)
         /\ AfterRename(p) = "enqueue_sync" => p = "enqueue_save"
BY DEF Saving, Syncing, AfterRename, Target

LEMMA SyncValues ==
  ASSUME NEW p \in Syncing
  PROVE  /\ AfterSync(p) \in {"idle", "enqueue_granted", "dispatch_granted",
                               "fence_create", "retain_files"}
         /\ AfterSync(p) = "enqueue_granted" => p = "enqueue_sync"
         /\ AfterSync(p) = "dispatch_granted" => p = "dispatch_sync"
         /\ AfterSync(p) = "fence_create" => p = "execution_sync"
         /\ AfterSync(p) = "retain_files" => p = "retention_sync"
         /\ p = "register_sync" => AfterSync(p) = "idle"
         /\ Target(p) \in Phases /\ Rank(Target(p)) >= 2
BY DEF Syncing, AfterSync, Target, Phases, Rank

\* A rename installs the journal its call prepared; nobody else holds the lock.
LEMMA SaveFacts ==
  ASSUME IInv, NEW c \in Controllers, Save(c)
  PROVE  /\ pc[c] \in Saving
         /\ \A d \in Controllers : d # c => pc'[d] = pc[d] /\ pc[d] \notin Locked
         /\ pc'[c] = AfterRename(pc[c]) /\ pc'[c] \in Syncing
         /\ Target(pc'[c]) = Target(pc[c])
         /\ adm' = mem[c] /\ adm'.phase = Target(pc[c])
         /\ Rank(adm'.phase) = Rank(adm.phase) + 1
         /\ UNCHANGED <<admD, fence, fenceD, daemon, effects, handle>>
         /\ adm \in Admissions /\ adm' \in Admissions
         /\ \A d \in Controllers : d # c => mem'[d] = mem[d]
<1>1. pc[c] \in Saving /\ adm' = mem[c] /\ pc' = [pc EXCEPT ![c] = AfterRename(pc[c])]
      /\ mem' = [mem EXCEPT ![c] = Absent]
      /\ UNCHANGED <<admD, fence, fenceD, daemon, effects, handle>>
  BY Zenon DEF Save
<1>2. pc \in [Controllers -> PCs] /\ mem \in [Controllers -> Admissions] /\ adm \in Admissions
  BY Zenon DEF IInv, TypeOK
<1>3. pc[c] \in Locked /\ admLock = c /\ c # NoOne
  BY <1>1, NonesAssumption DEF Locked, IInv, LockInv
<1>4. \A d \in Controllers : d # c => pc[d] \notin Locked
  BY <1>3 DEF IInv, LockInv
<1>5. mem[c].phase = Target(pc[c]) /\ Rank(mem[c].phase) = Rank(adm.phase) + 1
  BY <1>1, Zenon DEF IInv, SaveInv
<1>6. pc'[c] = AfterRename(pc[c])
      /\ \A d \in Controllers : d # c => pc'[d] = pc[d] /\ mem'[d] = mem[d]
  BY <1>1, <1>2
<1> QED
  BY <1>1, <1>2, <1>4, <1>5, <1>6, RenameValues

\* A directory fsync makes the visible journal durable; nobody else holds the lock.
LEMMA SyncFacts ==
  ASSUME IInv, NEW c \in Controllers, SyncDirectory(c)
  PROVE  /\ pc[c] \in Syncing
         /\ \A d \in Controllers : d # c => pc'[d] = pc[d] /\ pc[d] \notin Locked
         /\ pc'[c] = AfterSync(pc[c])
         /\ adm.phase = Target(pc[c]) /\ adm \in Admissions
         /\ admD' = adm
         /\ UNCHANGED <<adm, fence, fenceD, mem, daemon, effects>>
<1>1. pc[c] \in Syncing /\ admD' = adm /\ pc' = [pc EXCEPT ![c] = AfterSync(pc[c])]
      /\ UNCHANGED <<adm, fence, fenceD, mem, daemon, effects>>
  BY Zenon DEF SyncDirectory
<1>2. pc \in [Controllers -> PCs] /\ adm \in Admissions
  BY Zenon DEF IInv, TypeOK
<1>3. pc[c] \in Locked /\ admLock = c
  BY <1>1 DEF Locked, IInv, LockInv
<1>4. \A d \in Controllers : d # c => pc[d] \notin Locked
  BY <1>3 DEF IInv, LockInv
<1>5. adm.phase = Target(pc[c])
  BY <1>1, Zenon DEF IInv, SaveInv
<1>6. pc'[c] = AfterSync(pc[c]) /\ \A d \in Controllers : d # c => pc'[d] = pc[d]
  BY <1>1, <1>2
<1> QED
  BY <1>1, <1>2, <1>4, <1>5, <1>6

\* Both halves of a save keep the saves in progress well-formed.
LEMMA SaveKeepsSaves ==
  ASSUME IInv, NEW c \in Controllers, Save(c) \/ SyncDirectory(c)
  PROVE  SaveInv'
<1>1. CASE Save(c)
  <2>1. adm'.phase = Target(pc'[c]) /\ pc'[c] \in Syncing
    BY <1>1, SaveFacts
  <2>2. \A d \in Controllers : d # c => pc'[d] \notin Locked
    BY <1>1, SaveFacts
  <2> QED
    BY <2>1, <2>2 DEF SaveInv, Locked, Saving, Syncing
<1>2. CASE SyncDirectory(c)
  <2>1. /\ pc[c] \in Syncing /\ pc'[c] = AfterSync(pc[c])
        /\ adm' = adm /\ admD' = adm /\ adm.phase = Target(pc[c])
    BY <1>2, SyncFacts
  <2>2. \A d \in Controllers : d # c => pc'[d] \notin Locked
    BY <1>2, SyncFacts
  <2>3. /\ pc'[c] \in {"idle", "enqueue_granted", "dispatch_granted",
                        "fence_create", "retain_files"}
        /\ pc'[c] = "fence_create" => adm.phase = "execution_registration_unknown"
        /\ pc'[c] = "retain_files" => adm.phase = "completion_retention_unknown"
    BY <2>1, SyncValues, TargetValues
  <2> QED
    BY <2>1, <2>2, <2>3 DEF SaveInv, Locked, Saving, Syncing
<1> QED
  BY <1>1, <1>2

\* Every step keeps what the calls inside a save read.
LEMMA SaveStep ==
  ASSUME IInv, [Next]_vars
  PROVE  SaveInv'
<1> USE NonesAssumption DEF IInv, TypeOK, vars, disk, locks, daemon, effects, LockInv, SaveInv, JournalInv, Admissions, Locked, Granted, Saving, Syncing
<1>1. ASSUME NEW c \in Controllers, Register(c) PROVE SaveInv'
  BY <1>1, RankType, RankValues, TargetValues DEF Register
<1>2. ASSUME NEW c \in Controllers, RegisterLock(c) PROVE SaveInv'
  BY <1>2, RankType, RankValues, TargetValues DEF RegisterLock
<1>3. ASSUME NEW c \in Controllers, BeginEnqueue(c) PROVE SaveInv'
  BY <1>3, RankType, RankValues, TargetValues DEF BeginEnqueue, Continue, Checked
<1>4. ASSUME NEW c \in Controllers, PostEnqueue(c) PROVE SaveInv'
  BY <1>4, RankType, RankValues, TargetValues DEF PostEnqueue
<1>5. ASSUME NEW c \in Controllers, NEW j \in Jobs, BindJob(c, j) PROVE SaveInv'
  BY <1>5, RankType, RankValues, TargetValues DEF BindJob, Continue, Checked
<1>6. ASSUME NEW c \in Controllers, BeginDispatch(c) PROVE SaveInv'
  BY <1>6, RankType, RankValues, TargetValues DEF BeginDispatch, Continue, Checked
<1>7. ASSUME NEW c \in Controllers, Unpause(c) PROVE SaveInv'
  BY <1>7, RankType, RankValues, TargetValues DEF Unpause
<1>8. ASSUME NEW c \in Controllers, NEW e \in Executions, RegisterExecution(c, e) PROVE SaveInv'
  BY <1>8, RankType, RankValues, TargetValues DEF RegisterExecution, Continue, Checked
<1>9. ASSUME NEW c \in Controllers, FenceCreate(c) PROVE SaveInv'
  BY <1>9, RankType, RankValues, TargetValues DEF FenceCreate
<1>10. ASSUME NEW c \in Controllers, FenceSave(c) PROVE SaveInv'
  BY <1>10, RankType, RankValues, TargetValues DEF FenceSave
<1>11. ASSUME NEW c \in Controllers, FenceSync(c) PROVE SaveInv'
  BY <1>11, RankType, RankValues, TargetValues DEF FenceSync
<1>12. ASSUME NEW c \in Controllers, ReserveExecution(c) PROVE SaveInv'
  BY <1>12, RankType, RankValues, TargetValues DEF ReserveExecution, Checked
<1>13. ASSUME NEW c \in Controllers, ReserveSave(c) PROVE SaveInv'
  BY <1>13, RankType, RankValues, TargetValues DEF ReserveSave
<1>14. ASSUME NEW c \in Controllers, ReserveSync(c) PROVE SaveInv'
  BY <1>14, RankType, RankValues, TargetValues DEF ReserveSync
<1>15. ASSUME NEW c \in Controllers, StartBackend(c) PROVE SaveInv'
  BY <1>15, RankType, RankValues, TargetValues DEF StartBackend
<1>16. ASSUME NEW c \in Controllers, FinishBackend(c) PROVE SaveInv'
  BY <1>16, RankType, RankValues, TargetValues DEF FinishBackend
<1>17. ASSUME NEW c \in Controllers, RetainCompletion(c) PROVE SaveInv'
  BY <1>17, RankType, RankValues, TargetValues DEF RetainCompletion, Continue, Checked
<1>18. ASSUME NEW c \in Controllers, RetainFiles(c) PROVE SaveInv'
  BY <1>18, RankType, RankValues, TargetValues DEF RetainFiles
<1>19. ASSUME NEW c \in Controllers, RetainedOutput(c) PROVE SaveInv'
  BY <1>19, RankType, RankValues, TargetValues DEF RetainedOutput, Checked
<1>20. ASSUME NEW c \in Controllers, Save(c) PROVE SaveInv'
  BY <1>20, SaveKeepsSaves, Zenon
<1>21. ASSUME NEW c \in Controllers, SyncDirectory(c) PROVE SaveInv'
  BY <1>21, SaveKeepsSaves, Zenon
<1>22. ASSUME NEW c \in Controllers, Stop(c) PROVE SaveInv'
  BY <1>22, RankType, RankValues, TargetValues DEF Stop
<1>23. ASSUME Writeback PROVE SaveInv'
  BY <1>23, RankType, RankValues, TargetValues DEF Writeback
<1>24. ASSUME PowerLoss PROVE SaveInv'
  BY <1>24, RankType, RankValues, TargetValues DEF PowerLoss
<1>25. ASSUME NEW j \in Jobs, CreateJob(j) PROVE SaveInv'
  BY <1>25, RankType, RankValues, TargetValues DEF CreateJob
<1>26. ASSUME NEW j \in Jobs, Deliver(j) PROVE SaveInv'
  BY <1>26, RankType, RankValues, TargetValues DEF Deliver
<1>27. ASSUME Requeue PROVE SaveInv'
  BY <1>27, RankType, RankValues, TargetValues DEF Requeue
<1>28. CASE UNCHANGED vars
  BY <1>28 DEF vars
<1>29. QED
  BY <1>1, <1>2, <1>3, <1>4, <1>5, <1>6, <1>7, <1>8, <1>9, <1>10, <1>11, <1>12, <1>13, <1>14, <1>15, <1>16, <1>17, <1>18, <1>19, <1>20, <1>21, <1>22, <1>23, <1>24, <1>25, <1>26, <1>27, <1>28 DEF Next, Controller, External

\* Both halves of a save keep the effects behind their journals.
LEMMA SaveKeepsEnqueue ==
  ASSUME IInv, NEW c \in Controllers, Save(c) \/ SyncDirectory(c)
  PROVE  EnqueueInv'
<1>0. EnqueueInv
  BY DEF IInv
<1>1. CASE Save(c)
  <2>1. /\ \A d \in Controllers : d # c => pc'[d] = pc[d] /\ pc'[d] \notin Locked
        /\ pc'[c] \in Syncing
        /\ admD' = admD /\ enqueues' = enqueues /\ paused' = paused
        /\ pc'[c] = "enqueue_sync" => pc[c] = "enqueue_save"
        /\ pc[c] \in Saving
    BY <1>1, SaveFacts, RenameValues DEF daemon, effects
  <2> QED
    BY <1>0, <2>1 DEF EnqueueInv, Locked, Saving, Syncing
<1>2. CASE SyncDirectory(c)
  <2>1. /\ \A d \in Controllers : d # c => pc'[d] = pc[d] /\ pc'[d] \notin Locked
        /\ admD' = adm /\ enqueues' = enqueues /\ paused' = paused
        /\ pc[c] \in Syncing /\ pc'[c] = AfterSync(pc[c]) /\ adm.phase = Target(pc[c])
    BY <1>2, SyncFacts DEF daemon, effects
  <2>2. /\ Rank(admD.phase) \in Nat /\ Rank(adm.phase) \in Nat
        /\ Rank(admD.phase) <= Rank(adm.phase)
    BY RankType DEF IInv, TypeOK, Admissions, JournalInv
  <2>3. /\ pc'[c] \in {"idle", "enqueue_granted", "dispatch_granted",
                        "fence_create", "retain_files"}
        /\ pc'[c] = "enqueue_granted" => pc[c] = "enqueue_sync" /\ Rank(adm.phase) = 3
        /\ pc'[c] = "dispatch_granted" => Rank(adm.phase) = 5
    BY <2>1, SyncValues, TargetValues, RankValues
  <2> QED
    BY <1>0, <2>1, <2>2, <2>3 DEF EnqueueInv, Locked, Saving, Syncing
<1> QED
  BY <1>1, <1>2

\* Every step keeps the enqueue and the queue release behind their journals.
LEMMA EnqueueStep ==
  ASSUME IInv, [Next]_vars
  PROVE  EnqueueInv'
<1> USE DEF IInv, TypeOK, vars, disk, locks, daemon, effects, LockInv, SaveInv, JournalInv, EnqueueInv, Admissions, Locked, Saving, Syncing
<1>1. ASSUME NEW c \in Controllers, Register(c) PROVE EnqueueInv'
  BY <1>1, RankType, RankValues, TargetValues DEF Register
<1>2. ASSUME NEW c \in Controllers, RegisterLock(c) PROVE EnqueueInv'
  BY <1>2, RankType, RankValues, TargetValues DEF RegisterLock
<1>3. ASSUME NEW c \in Controllers, BeginEnqueue(c) PROVE EnqueueInv'
  BY <1>3, RankType, RankValues, TargetValues DEF BeginEnqueue, Continue, Checked
<1>4. ASSUME NEW c \in Controllers, PostEnqueue(c) PROVE EnqueueInv'
  BY <1>4, RankType, RankValues, TargetValues DEF PostEnqueue
<1>5. ASSUME NEW c \in Controllers, NEW j \in Jobs, BindJob(c, j) PROVE EnqueueInv'
  BY <1>5, RankType, RankValues, TargetValues DEF BindJob, Continue, Checked
<1>6. ASSUME NEW c \in Controllers, BeginDispatch(c) PROVE EnqueueInv'
  BY <1>6, RankType, RankValues, TargetValues DEF BeginDispatch, Continue, Checked
<1>7. ASSUME NEW c \in Controllers, Unpause(c) PROVE EnqueueInv'
  BY <1>7, RankType, RankValues, TargetValues DEF Unpause
<1>8. ASSUME NEW c \in Controllers, NEW e \in Executions, RegisterExecution(c, e) PROVE EnqueueInv'
  BY <1>8, RankType, RankValues, TargetValues DEF RegisterExecution, Continue, Checked
<1>9. ASSUME NEW c \in Controllers, FenceCreate(c) PROVE EnqueueInv'
  BY <1>9, RankType, RankValues, TargetValues DEF FenceCreate
<1>10. ASSUME NEW c \in Controllers, FenceSave(c) PROVE EnqueueInv'
  BY <1>10, RankType, RankValues, TargetValues DEF FenceSave
<1>11. ASSUME NEW c \in Controllers, FenceSync(c) PROVE EnqueueInv'
  BY <1>11, RankType, RankValues, TargetValues DEF FenceSync
<1>12. ASSUME NEW c \in Controllers, ReserveExecution(c) PROVE EnqueueInv'
  BY <1>12, RankType, RankValues, TargetValues DEF ReserveExecution, Checked
<1>13. ASSUME NEW c \in Controllers, ReserveSave(c) PROVE EnqueueInv'
  BY <1>13, RankType, RankValues, TargetValues DEF ReserveSave
<1>14. ASSUME NEW c \in Controllers, ReserveSync(c) PROVE EnqueueInv'
  BY <1>14, RankType, RankValues, TargetValues DEF ReserveSync
<1>15. ASSUME NEW c \in Controllers, StartBackend(c) PROVE EnqueueInv'
  BY <1>15, RankType, RankValues, TargetValues DEF StartBackend
<1>16. ASSUME NEW c \in Controllers, FinishBackend(c) PROVE EnqueueInv'
  BY <1>16, RankType, RankValues, TargetValues DEF FinishBackend
<1>17. ASSUME NEW c \in Controllers, RetainCompletion(c) PROVE EnqueueInv'
  BY <1>17, RankType, RankValues, TargetValues DEF RetainCompletion, Continue, Checked
<1>18. ASSUME NEW c \in Controllers, RetainFiles(c) PROVE EnqueueInv'
  BY <1>18, RankType, RankValues, TargetValues DEF RetainFiles
<1>19. ASSUME NEW c \in Controllers, RetainedOutput(c) PROVE EnqueueInv'
  BY <1>19, RankType, RankValues, TargetValues DEF RetainedOutput, Checked
<1>20. ASSUME NEW c \in Controllers, Save(c) PROVE EnqueueInv'
  BY <1>20, SaveKeepsEnqueue, Zenon
<1>21. ASSUME NEW c \in Controllers, SyncDirectory(c) PROVE EnqueueInv'
  BY <1>21, SaveKeepsEnqueue, Zenon
<1>22. ASSUME NEW c \in Controllers, Stop(c) PROVE EnqueueInv'
  BY <1>22, RankType, RankValues, TargetValues DEF Stop
<1>23. ASSUME Writeback PROVE EnqueueInv'
  BY <1>23, RankType, RankValues, TargetValues DEF Writeback
<1>24. ASSUME PowerLoss PROVE EnqueueInv'
  BY <1>24, RankType, RankValues, TargetValues DEF PowerLoss
<1>25. ASSUME NEW j \in Jobs, CreateJob(j) PROVE EnqueueInv'
  BY <1>25, RankType, RankValues, TargetValues DEF CreateJob
<1>26. ASSUME NEW j \in Jobs, Deliver(j) PROVE EnqueueInv'
  BY <1>26, RankType, RankValues, TargetValues DEF Deliver
<1>27. ASSUME Requeue PROVE EnqueueInv'
  BY <1>27, RankType, RankValues, TargetValues DEF Requeue
<1>28. CASE UNCHANGED vars
  BY <1>28 DEF vars
<1>29. QED
  BY <1>1, <1>2, <1>3, <1>4, <1>5, <1>6, <1>7, <1>8, <1>9, <1>10, <1>11, <1>12, <1>13, <1>14, <1>15, <1>16, <1>17, <1>18, <1>19, <1>20, <1>21, <1>22, <1>23, <1>24, <1>25, <1>26, <1>27, <1>28 DEF Next, Controller, External

\* Both halves of a save keep the fence that of the admitted execution.
LEMMA SaveKeepsFence ==
  ASSUME IInv, NEW c \in Controllers, Save(c) \/ SyncDirectory(c)
  PROVE  FenceInv'
<1>0. FenceInv
  BY DEF IInv
<1>1. CASE Save(c)
  <2>1. /\ \A d \in Controllers : d # c => pc'[d] = pc[d]
        /\ pc[c] \in Saving /\ pc'[c] \in Syncing /\ adm' = mem[c]
        /\ UNCHANGED <<admD, fence, fenceD, starts, started>>
    BY <1>1, SaveFacts DEF effects
  <2>2. ASSUME fence.state # "absent" PROVE adm'.exec = adm.exec
    <3>1. Rank(adm.phase) >= 6
      BY <1>0, <2>2, RankType DEF IInv, TypeOK, Admissions, JournalInv, FenceInv
    <3>2. adm.exec # NoExec
      BY <3>1, RankType DEF IInv, TypeOK, Admissions, JournalInv
    <3> QED
      BY <2>1, <3>2, Zenon DEF IInv, SaveInv
  <2> QED
    BY <1>0, <2>1, <2>2 DEF FenceInv, Saving, Syncing
<1>2. CASE SyncDirectory(c)
  <2>1. /\ \A d \in Controllers : d # c => pc'[d] = pc[d]
        /\ pc[c] \in Syncing /\ pc'[c] = AfterSync(pc[c]) /\ admD' = adm
        /\ UNCHANGED <<adm, fence, fenceD, starts, started>>
    BY <1>2, SyncFacts DEF effects
  <2>2. /\ Rank(admD.phase) \in Nat /\ Rank(adm.phase) \in Nat
        /\ Rank(admD.phase) <= Rank(adm.phase)
    BY RankType DEF IInv, TypeOK, Admissions, JournalInv
  <2>3. pc'[c] \in {"idle", "enqueue_granted", "dispatch_granted",
                    "fence_create", "retain_files"}
    BY <2>1, SyncValues
  <2> QED
    BY <1>0, <2>1, <2>2, <2>3 DEF FenceInv
<1> QED
  BY <1>1, <1>2

\* Every step keeps the backend start behind the consumed fence.
LEMMA FenceStep ==
  ASSUME IInv, [Next]_vars
  PROVE  FenceInv'
<1> USE DEF IInv, TypeOK, vars, disk, locks, daemon, effects, LockInv, SaveInv, JournalInv, FenceInv, FenceLocked, Locked, Admissions, Fences, FenceStates, NoFence, Saving, Syncing
<1>1. ASSUME NEW c \in Controllers, Register(c) PROVE FenceInv'
  BY <1>1, RankType, RankValues, TargetValues DEF Register
<1>2. ASSUME NEW c \in Controllers, RegisterLock(c) PROVE FenceInv'
  BY <1>2, RankType, RankValues, TargetValues DEF RegisterLock
<1>3. ASSUME NEW c \in Controllers, BeginEnqueue(c) PROVE FenceInv'
  BY <1>3, RankType, RankValues, TargetValues DEF BeginEnqueue, Continue, Checked
<1>4. ASSUME NEW c \in Controllers, PostEnqueue(c) PROVE FenceInv'
  BY <1>4, RankType, RankValues, TargetValues DEF PostEnqueue
<1>5. ASSUME NEW c \in Controllers, NEW j \in Jobs, BindJob(c, j) PROVE FenceInv'
  BY <1>5, RankType, RankValues, TargetValues DEF BindJob, Continue, Checked
<1>6. ASSUME NEW c \in Controllers, BeginDispatch(c) PROVE FenceInv'
  BY <1>6, RankType, RankValues, TargetValues DEF BeginDispatch, Continue, Checked
<1>7. ASSUME NEW c \in Controllers, Unpause(c) PROVE FenceInv'
  BY <1>7, RankType, RankValues, TargetValues DEF Unpause
<1>8. ASSUME NEW c \in Controllers, NEW e \in Executions, RegisterExecution(c, e) PROVE FenceInv'
  BY <1>8, RankType, RankValues, TargetValues DEF RegisterExecution, Continue, Checked
<1>9. ASSUME NEW c \in Controllers, FenceCreate(c) PROVE FenceInv'
  BY <1>9, RankType, RankValues, TargetValues DEF FenceCreate
<1>10. ASSUME NEW c \in Controllers, FenceSave(c) PROVE FenceInv'
  BY <1>10, RankType, RankValues, TargetValues DEF FenceSave
<1>11. ASSUME NEW c \in Controllers, FenceSync(c) PROVE FenceInv'
  BY <1>11, RankType, RankValues, TargetValues DEF FenceSync
<1>12. ASSUME NEW c \in Controllers, ReserveExecution(c) PROVE FenceInv'
  BY <1>12, RankType, RankValues, TargetValues DEF ReserveExecution, Checked
<1>13. ASSUME NEW c \in Controllers, ReserveSave(c) PROVE FenceInv'
  BY <1>13, RankType, RankValues, TargetValues DEF ReserveSave
<1>14. ASSUME NEW c \in Controllers, ReserveSync(c) PROVE FenceInv'
  BY <1>14, RankType, RankValues, TargetValues DEF ReserveSync
<1>15. ASSUME NEW c \in Controllers, StartBackend(c) PROVE FenceInv'
  BY <1>15, RankType, RankValues, TargetValues DEF StartBackend
<1>16. ASSUME NEW c \in Controllers, FinishBackend(c) PROVE FenceInv'
  BY <1>16, RankType, RankValues, TargetValues DEF FinishBackend
<1>17. ASSUME NEW c \in Controllers, RetainCompletion(c) PROVE FenceInv'
  BY <1>17, RankType, RankValues, TargetValues DEF RetainCompletion, Continue, Checked
<1>18. ASSUME NEW c \in Controllers, RetainFiles(c) PROVE FenceInv'
  BY <1>18, RankType, RankValues, TargetValues DEF RetainFiles
<1>19. ASSUME NEW c \in Controllers, RetainedOutput(c) PROVE FenceInv'
  BY <1>19, RankType, RankValues, TargetValues DEF RetainedOutput, Checked
<1>20. ASSUME NEW c \in Controllers, Save(c) PROVE FenceInv'
  BY <1>20, SaveKeepsFence, Zenon
<1>21. ASSUME NEW c \in Controllers, SyncDirectory(c) PROVE FenceInv'
  BY <1>21, SaveKeepsFence, Zenon
<1>22. ASSUME NEW c \in Controllers, Stop(c) PROVE FenceInv'
  BY <1>22, RankType, RankValues, TargetValues DEF Stop
<1>23. ASSUME Writeback PROVE FenceInv'
  BY <1>23, RankType, RankValues, TargetValues DEF Writeback
<1>24. ASSUME PowerLoss PROVE FenceInv'
  BY <1>24, RankType, RankValues, TargetValues DEF PowerLoss
<1>25. ASSUME NEW j \in Jobs, CreateJob(j) PROVE FenceInv'
  BY <1>25, RankType, RankValues, TargetValues DEF CreateJob
<1>26. ASSUME NEW j \in Jobs, Deliver(j) PROVE FenceInv'
  BY <1>26, RankType, RankValues, TargetValues DEF Deliver
<1>27. ASSUME Requeue PROVE FenceInv'
  BY <1>27, RankType, RankValues, TargetValues DEF Requeue
<1>28. CASE UNCHANGED vars
  BY <1>28 DEF vars
<1>29. QED
  BY <1>1, <1>2, <1>3, <1>4, <1>5, <1>6, <1>7, <1>8, <1>9, <1>10, <1>11, <1>12, <1>13, <1>14, <1>15, <1>16, <1>17, <1>18, <1>19, <1>20, <1>21, <1>22, <1>23, <1>24, <1>25, <1>26, <1>27, <1>28 DEF Next, Controller, External

\* Every step keeps receipts and outputs those of the started backend.
LEMMA ReceiptStep ==
  ASSUME IInv, [Next]_vars
  PROVE  ReceiptInv'
<1> USE DEF IInv, TypeOK, vars, disk, locks, daemon, effects, SaveInv, ReceiptInv, FenceInv, JournalInv, Saving, Syncing, Admissions
<1>1. ASSUME NEW c \in Controllers, Register(c) PROVE ReceiptInv'
  BY <1>1, RankType, RankValues, TargetValues DEF Register
<1>2. ASSUME NEW c \in Controllers, RegisterLock(c) PROVE ReceiptInv'
  BY <1>2, RankType, RankValues, TargetValues DEF RegisterLock
<1>3. ASSUME NEW c \in Controllers, BeginEnqueue(c) PROVE ReceiptInv'
  BY <1>3, RankType, RankValues, TargetValues DEF BeginEnqueue, Continue, Checked
<1>4. ASSUME NEW c \in Controllers, PostEnqueue(c) PROVE ReceiptInv'
  BY <1>4, RankType, RankValues, TargetValues DEF PostEnqueue
<1>5. ASSUME NEW c \in Controllers, NEW j \in Jobs, BindJob(c, j) PROVE ReceiptInv'
  BY <1>5, RankType, RankValues, TargetValues DEF BindJob, Continue, Checked
<1>6. ASSUME NEW c \in Controllers, BeginDispatch(c) PROVE ReceiptInv'
  BY <1>6, RankType, RankValues, TargetValues DEF BeginDispatch, Continue, Checked
<1>7. ASSUME NEW c \in Controllers, Unpause(c) PROVE ReceiptInv'
  BY <1>7, RankType, RankValues, TargetValues DEF Unpause
<1>8. ASSUME NEW c \in Controllers, NEW e \in Executions, RegisterExecution(c, e) PROVE ReceiptInv'
  BY <1>8, RankType, RankValues, TargetValues DEF RegisterExecution, Continue, Checked
<1>9. ASSUME NEW c \in Controllers, FenceCreate(c) PROVE ReceiptInv'
  BY <1>9, RankType, RankValues, TargetValues DEF FenceCreate
<1>10. ASSUME NEW c \in Controllers, FenceSave(c) PROVE ReceiptInv'
  BY <1>10, RankType, RankValues, TargetValues DEF FenceSave
<1>11. ASSUME NEW c \in Controllers, FenceSync(c) PROVE ReceiptInv'
  BY <1>11, RankType, RankValues, TargetValues DEF FenceSync
<1>12. ASSUME NEW c \in Controllers, ReserveExecution(c) PROVE ReceiptInv'
  BY <1>12, RankType, RankValues, TargetValues DEF ReserveExecution, Checked
<1>13. ASSUME NEW c \in Controllers, ReserveSave(c) PROVE ReceiptInv'
  BY <1>13, RankType, RankValues, TargetValues DEF ReserveSave
<1>14. ASSUME NEW c \in Controllers, ReserveSync(c) PROVE ReceiptInv'
  BY <1>14, RankType, RankValues, TargetValues DEF ReserveSync
<1>15. ASSUME NEW c \in Controllers, StartBackend(c) PROVE ReceiptInv'
  BY <1>15, RankType, RankValues, TargetValues DEF StartBackend
<1>16. ASSUME NEW c \in Controllers, FinishBackend(c) PROVE ReceiptInv'
  BY <1>16, RankType, RankValues, TargetValues DEF FinishBackend
<1>17. ASSUME NEW c \in Controllers, RetainCompletion(c) PROVE ReceiptInv'
  BY <1>17, RankType, RankValues, TargetValues DEF RetainCompletion, Continue, Checked
<1>18. ASSUME NEW c \in Controllers, RetainFiles(c) PROVE ReceiptInv'
  BY <1>18, RankType, RankValues, TargetValues DEF RetainFiles
<1>19. ASSUME NEW c \in Controllers, RetainedOutput(c) PROVE ReceiptInv'
  BY <1>19, RankType, RankValues, TargetValues DEF RetainedOutput, Checked
<1>20. ASSUME NEW c \in Controllers, Save(c) PROVE ReceiptInv'
  BY <1>20, RankType, RankValues, TargetValues DEF Save, AfterRename
<1>21. ASSUME NEW c \in Controllers, SyncDirectory(c) PROVE ReceiptInv'
  BY <1>21, RankType, RankValues, TargetValues DEF SyncDirectory, AfterSync
<1>22. ASSUME NEW c \in Controllers, Stop(c) PROVE ReceiptInv'
  BY <1>22, RankType, RankValues, TargetValues DEF Stop
<1>23. ASSUME Writeback PROVE ReceiptInv'
  BY <1>23, RankType, RankValues, TargetValues DEF Writeback
<1>24. ASSUME PowerLoss PROVE ReceiptInv'
  BY <1>24, RankType, RankValues, TargetValues DEF PowerLoss
<1>25. ASSUME NEW j \in Jobs, CreateJob(j) PROVE ReceiptInv'
  BY <1>25, RankType, RankValues, TargetValues DEF CreateJob
<1>26. ASSUME NEW j \in Jobs, Deliver(j) PROVE ReceiptInv'
  BY <1>26, RankType, RankValues, TargetValues DEF Deliver
<1>27. ASSUME Requeue PROVE ReceiptInv'
  BY <1>27, RankType, RankValues, TargetValues DEF Requeue
<1>28. CASE UNCHANGED vars
  BY <1>28 DEF vars
<1>29. QED
  BY <1>1, <1>2, <1>3, <1>4, <1>5, <1>6, <1>7, <1>8, <1>9, <1>10, <1>11, <1>12, <1>13, <1>14, <1>15, <1>16, <1>17, <1>18, <1>19, <1>20, <1>21, <1>22, <1>23, <1>24, <1>25, <1>26, <1>27, <1>28 DEF Next, Controller, External

\* Every step keeps jobs behind the enqueue.
LEMMA JobStep ==
  ASSUME IInv, [Next]_vars
  PROVE  JobInv'
<1> USE DEF IInv, TypeOK, vars, disk, locks, daemon, effects, SaveInv, JournalInv, JobInv, Saving, Syncing, Admissions
<1>1. ASSUME NEW c \in Controllers, Register(c) PROVE JobInv'
  BY <1>1, RankType, RankValues, TargetValues DEF Register
<1>2. ASSUME NEW c \in Controllers, RegisterLock(c) PROVE JobInv'
  BY <1>2, RankType, RankValues, TargetValues DEF RegisterLock
<1>3. ASSUME NEW c \in Controllers, BeginEnqueue(c) PROVE JobInv'
  BY <1>3, RankType, RankValues, TargetValues DEF BeginEnqueue, Continue, Checked
<1>4. ASSUME NEW c \in Controllers, PostEnqueue(c) PROVE JobInv'
  BY <1>4, RankType, RankValues, TargetValues DEF PostEnqueue
<1>5. ASSUME NEW c \in Controllers, NEW j \in Jobs, BindJob(c, j) PROVE JobInv'
  BY <1>5, RankType, RankValues, TargetValues DEF BindJob, Continue, Checked
<1>6. ASSUME NEW c \in Controllers, BeginDispatch(c) PROVE JobInv'
  BY <1>6, RankType, RankValues, TargetValues DEF BeginDispatch, Continue, Checked
<1>7. ASSUME NEW c \in Controllers, Unpause(c) PROVE JobInv'
  BY <1>7, RankType, RankValues, TargetValues DEF Unpause
<1>8. ASSUME NEW c \in Controllers, NEW e \in Executions, RegisterExecution(c, e) PROVE JobInv'
  BY <1>8, RankType, RankValues, TargetValues DEF RegisterExecution, Continue, Checked
<1>9. ASSUME NEW c \in Controllers, FenceCreate(c) PROVE JobInv'
  BY <1>9, RankType, RankValues, TargetValues DEF FenceCreate
<1>10. ASSUME NEW c \in Controllers, FenceSave(c) PROVE JobInv'
  BY <1>10, RankType, RankValues, TargetValues DEF FenceSave
<1>11. ASSUME NEW c \in Controllers, FenceSync(c) PROVE JobInv'
  BY <1>11, RankType, RankValues, TargetValues DEF FenceSync
<1>12. ASSUME NEW c \in Controllers, ReserveExecution(c) PROVE JobInv'
  BY <1>12, RankType, RankValues, TargetValues DEF ReserveExecution, Checked
<1>13. ASSUME NEW c \in Controllers, ReserveSave(c) PROVE JobInv'
  BY <1>13, RankType, RankValues, TargetValues DEF ReserveSave
<1>14. ASSUME NEW c \in Controllers, ReserveSync(c) PROVE JobInv'
  BY <1>14, RankType, RankValues, TargetValues DEF ReserveSync
<1>15. ASSUME NEW c \in Controllers, StartBackend(c) PROVE JobInv'
  BY <1>15, RankType, RankValues, TargetValues DEF StartBackend
<1>16. ASSUME NEW c \in Controllers, FinishBackend(c) PROVE JobInv'
  BY <1>16, RankType, RankValues, TargetValues DEF FinishBackend
<1>17. ASSUME NEW c \in Controllers, RetainCompletion(c) PROVE JobInv'
  BY <1>17, RankType, RankValues, TargetValues DEF RetainCompletion, Continue, Checked
<1>18. ASSUME NEW c \in Controllers, RetainFiles(c) PROVE JobInv'
  BY <1>18, RankType, RankValues, TargetValues DEF RetainFiles
<1>19. ASSUME NEW c \in Controllers, RetainedOutput(c) PROVE JobInv'
  BY <1>19, RankType, RankValues, TargetValues DEF RetainedOutput, Checked
<1>20. ASSUME NEW c \in Controllers, Save(c) PROVE JobInv'
  BY <1>20, RankType, RankValues, TargetValues DEF Save, AfterRename
<1>21. ASSUME NEW c \in Controllers, SyncDirectory(c) PROVE JobInv'
  BY <1>21, RankType, RankValues, TargetValues DEF SyncDirectory, AfterSync
<1>22. ASSUME NEW c \in Controllers, Stop(c) PROVE JobInv'
  BY <1>22, RankType, RankValues, TargetValues DEF Stop
<1>23. ASSUME Writeback PROVE JobInv'
  BY <1>23, RankType, RankValues, TargetValues DEF Writeback
<1>24. ASSUME PowerLoss PROVE JobInv'
  BY <1>24, RankType, RankValues, TargetValues DEF PowerLoss
<1>25. ASSUME NEW j \in Jobs, CreateJob(j) PROVE JobInv'
  <2>1. Cardinality(jobs) \in Nat
    BY FS_CardinalityType DEF JobInv
  <2>2. IsFiniteSet(jobs')
    BY <1>25, FS_AddElement DEF CreateJob, JobInv
  <2> QED
    BY <1>25, <2>1, <2>2 DEF CreateJob
<1>26. ASSUME NEW j \in Jobs, Deliver(j) PROVE JobInv'
  BY <1>26, RankType, RankValues, TargetValues DEF Deliver
<1>27. ASSUME Requeue PROVE JobInv'
  BY <1>27, RankType, RankValues, TargetValues DEF Requeue
<1>28. CASE UNCHANGED vars
  BY <1>28 DEF vars
<1>29. QED
  BY <1>1, <1>2, <1>3, <1>4, <1>5, <1>6, <1>7, <1>8, <1>9, <1>10, <1>11, <1>12, <1>13, <1>14, <1>15, <1>16, <1>17, <1>18, <1>19, <1>20, <1>21, <1>22, <1>23, <1>24, <1>25, <1>26, <1>27, <1>28 DEF Next, Controller, External

-----------------------------------------------------------------------------
LEMMA InitInv == Init => IInv
<1> SUFFICES ASSUME Init PROVE IInv
  OBVIOUS
<1> USE NonesAssumption DEF Init, Absent, NoFence
<1>1. TypeOK
  BY DEF TypeOK, Admissions, Fences, Phases, FenceStates, PCs
<1>2. LockInv /\ SaveInv
  BY DEF LockInv, SaveInv, Locked, FenceLocked, Saving, Syncing
<1>3. JournalInv /\ EnqueueInv /\ FenceInv /\ ReceiptInv
  BY RankValues DEF JournalInv, EnqueueInv, FenceInv, ReceiptInv
<1>4. JobInv
  BY RankValues, FS_EmptySet DEF JobInv
<1> QED
  BY <1>1, <1>2, <1>3, <1>4 DEF IInv

\* The inductive invariant holds in every state of every behaviour.
THEOREM Invariance == Spec => []IInv
<1>1. Init => IInv
  BY InitInv
<1>2. IInv /\ [Next]_vars => IInv'
  BY TypeStep, LockStep, JournalStep, SaveStep, EnqueueStep, FenceStep, ReceiptStep,
     JobStep DEF IInv
<1> QED
  BY <1>1, <1>2, PTL DEF Spec

\* The journals, locks and control states keep their types.
THEOREM TypeCorrect == Spec => []TypeOK
<1>1. IInv => TypeOK
  BY DEF IInv
<1> QED
  BY <1>1, Invariance, PTL

\* One admitted request causes one enqueue and one backend start, for any
\* number of controllers, stops and power losses: admission.rs begin_enqueue,
\* execution.rs reserve_admitted.
THEOREM EffectsHappenOnce == Spec => []SingleEffects
<1>1. IInv => SingleEffects
  BY DEF IInv, EnqueueInv, FenceInv, SingleEffects
<1> QED
  BY <1>1, Invariance, PTL

\* Every effect is already UNKNOWN on the disk that a power loss leaves.
THEOREM EffectsAreRecorded == Spec => []EffectsRecorded
<1>1. IInv => EffectsRecorded
  <2> SUFFICES ASSUME IInv PROVE EffectsRecorded
    OBVIOUS
  <2>1. starts > 0 => fenceD.exec = fence.exec
    BY DEF IInv, FenceInv, NoFence
  <2> QED
    BY <2>1, RankValues DEF IInv, EnqueueInv, FenceInv, EffectsRecorded
<1> QED
  BY <1>1, Invariance, PTL

\* Output shown to an adapter is that of the one successful backend.
THEOREM OutputIsOriginal == Spec => []OutputOfOriginal
<1>1. IInv => OutputOfOriginal
  <2> SUFFICES ASSUME IInv, NEW e \in outputs
               PROVE  /\ e \in receipts
                      /\ started = {e}
                      /\ fence = [state |-> "unknown", exec |-> e]
                      /\ admD.exec = e
    BY DEF OutputOfOriginal
  <2>1. e \in receipts /\ e \in started
    BY DEF IInv, ReceiptInv
  <2>2. starts > 0 /\ started = {fence.exec} /\ fenceD.state = "unknown"
    BY <2>1 DEF IInv, FenceInv, TypeOK
  <2>3. fence.state = "unknown"
    BY <2>2, RankValues DEF IInv, FenceInv, TypeOK, Fences, FenceStates
  <2>4. fence.exec = adm.exec /\ admD.exec # NoExec
    BY <2>3, RankType DEF IInv, FenceInv, JournalInv, TypeOK, Admissions
  <2>5. admD.exec = e
    BY <2>1, <2>2, <2>4 DEF IInv, JournalInv
  <2> QED
    BY <2>1, <2>2, <2>3, <2>5 DEF IInv, TypeOK, Fences
<1> QED
  BY <1>1, Invariance, PTL

\* The durable journals never move back and never change their job or execution.
THEOREM DurableNeverBack == Spec => DurableMonotone
<1>1. IInv /\ IInv' /\ [Next]_vars =>
        [/\ Rank(admD'.phase) >= Rank(admD.phase)
         /\ FenceRank(fenceD'.state) >= FenceRank(fenceD.state)
         /\ admD.job # NoJob => admD'.job = admD.job
         /\ admD.exec # NoExec => admD'.exec = admD.exec
         /\ fenceD.exec # NoExec => fenceD'.exec = fenceD.exec]_<<admD, fenceD>>
  <2> SUFFICES ASSUME IInv, IInv', [Next]_vars
               PROVE  /\ Rank(admD'.phase) >= Rank(admD.phase)
                      /\ FenceRank(fenceD'.state) >= FenceRank(fenceD.state)
                      /\ admD.job # NoJob => admD'.job = admD.job
                      /\ admD.exec # NoExec => admD'.exec = admD.exec
                      /\ fenceD.exec # NoExec => fenceD'.exec = fenceD.exec
    OBVIOUS
  <2>1. admD' \in {admD, adm} /\ fenceD' \in {fenceD, fence}
    <3>1. CASE UNCHANGED vars
      BY <3>1, Zenon DEF vars, disk
    <3>2. CASE External
      BY <3>2, Zenon DEF External, Writeback, PowerLoss, CreateJob, Deliver, Requeue, disk
    <3>3. ASSUME NEW c \in Controllers,
                 RegisterLock(c) \/ FenceSave(c) \/ FenceSync(c) \/ ReserveSync(c)
                 \/ SyncDirectory(c)
          PROVE  admD' \in {admD, adm} /\ fenceD' \in {fenceD, fence}
      BY <3>3, Zenon DEF RegisterLock, FenceSave, FenceSync, ReserveSync, SyncDirectory
    <3>4. ASSUME NEW c \in Controllers, Controller(c),
                 ~(RegisterLock(c) \/ FenceSave(c) \/ FenceSync(c) \/ ReserveSync(c)
                   \/ SyncDirectory(c))
          PROVE  admD' = admD /\ fenceD' = fenceD
      BY <3>4, Zenon DEF Controller, Continue, Register, BeginEnqueue, PostEnqueue,
             BindJob, BeginDispatch, Unpause, RegisterExecution, FenceCreate,
             ReserveExecution, ReserveSave, StartBackend, FinishBackend,
             RetainCompletion, RetainFiles, RetainedOutput, Save, Stop, disk
    <3> QED
      BY <3>1, <3>2, <3>3, <3>4, Zenon DEF Next
  <2>2. /\ Rank(admD.phase) \in Nat /\ Rank(adm.phase) \in Nat
        /\ FenceRank(fenceD.state) \in Nat /\ FenceRank(fence.state) \in Nat
    BY RankType DEF IInv, TypeOK, Admissions, Fences
  <2> QED
    BY <2>1, <2>2 DEF IInv, JournalInv, FenceInv, NoFence
<1> QED
  BY <1>1, Invariance, PTL DEF Spec, DurableMonotone

\* The store, its journals and locks hidden, is the one-shot review.
THEOREM Refinement == Spec => ImplementsOneShot
<1>1. Init => Abstract!Init
  BY DEF Init, Abstract!Init
<1>2. IInv /\ [Next]_vars => [Abstract!Next]_Abstract!vars
  <2> SUFFICES ASSUME IInv, [Next]_vars
               PROVE  Abstract!Next \/ UNCHANGED Abstract!vars
    BY DEF Abstract!vars
  <2> USE DEF vars, disk, locks, daemon, effects, Abstract!vars
  <2>1. ASSUME NEW c \in Controllers, PostEnqueue(c)
        PROVE  Abstract!Next
    <3>1. enqueues = 0
      BY <2>1 DEF PostEnqueue, IInv, TypeOK, EnqueueInv
    <3> QED
      BY <2>1, <3>1 DEF PostEnqueue, Abstract!Next, Abstract!Enqueue
  <2>2. ASSUME NEW c \in Controllers, StartBackend(c)
        PROVE  Abstract!Next
    <3>1. starts = 0 /\ started = {}
      BY <2>2 DEF StartBackend, IInv, FenceInv
    <3>2. fence.state # "absent"
      BY <2>2, RankValues DEF StartBackend, IInv, FenceInv, NoFence
    <3>3. Rank(adm.phase) >= 6
      BY <3>2, RankType DEF IInv, FenceInv, JournalInv, TypeOK, Admissions
    <3>4. enqueues = 1
      BY <3>3, RankType DEF IInv, JobInv, EnqueueInv, TypeOK, Admissions
    <3>5. fence.exec \in Executions
      BY <2>2, BoundFence DEF StartBackend
    <3> QED
      BY <2>2, <3>1, <3>4, <3>5 DEF StartBackend, Abstract!Next, Abstract!Start
  <2>3. ASSUME NEW c \in Controllers, RetainedOutput(c)
        PROVE  Abstract!Next
    <3>1. adm.exec \in started /\ adm.exec \in Executions
      BY <2>3, RankValues DEF RetainedOutput, Checked, IInv, ReceiptInv, TypeOK
    <3> QED
      BY <2>3, <3>1 DEF RetainedOutput, Abstract!Next, Abstract!Expose
  <2>4. ASSUME NEW c \in Controllers, Controller(c),
               ~PostEnqueue(c), ~StartBackend(c), ~RetainedOutput(c)
        PROVE  UNCHANGED Abstract!vars
    BY <2>4 DEF Controller, Continue, Register, RegisterLock, BeginEnqueue, BindJob,
                BeginDispatch, Unpause, RegisterExecution, FenceCreate, FenceSave,
                FenceSync, ReserveExecution, ReserveSave, ReserveSync, FinishBackend,
                RetainCompletion, RetainFiles, Save, SyncDirectory, Stop
  <2>5. CASE External
    BY <2>5 DEF External, Writeback, PowerLoss, CreateJob, Deliver, Requeue
  <2>6. CASE UNCHANGED vars
    BY <2>6
  <2> QED
    BY <2>1, <2>2, <2>3, <2>4, <2>5, <2>6 DEF Next
<1> QED
  BY <1>1, <1>2, Invariance, PTL DEF Spec, ImplementsOneShot, Abstract!Spec
=============================================================================
