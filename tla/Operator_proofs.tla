--------------------------- MODULE Operator_proofs ---------------------------
(***************************************************************************)
(* Proofs about Operator, for any workers, stages, policies and bounds.    *)
(*                                                                         *)
(* The inductive invariant relates what the process holds in memory to     *)
(* state.json at each of its steps: which workers are listed in which of   *)
(* the two, when a stage unit may be running and who will stop it, what a  *)
(* recorded result means for the stages, and which requests were answered. *)
(* Each part is preserved by every step, given the parts before it.        *)
(***************************************************************************)
EXTENDS Operator, TLAPS

\* A run holds the lock.
Live == pc \notin {"off", "cancel"}

\* Control states of one attempt of a stage.
Attempt == {"attempt", "start", "waiting", "retry"}

-----------------------------------------------------------------------------
\* Types, by the provers they need.
Flags ==
    /\ sentinel \in BOOLEAN /\ unitOk \in BOOLEAN
    /\ rerr \in BOOLEAN /\ signal \in BOOLEAN

\* The state on disk and the one in memory.
Saved == disk \in States /\ m \in States

\* Positions, counters and requests.
Numbers ==
    /\ req \in 0 .. MaxRequests /\ at \in 1 .. StageCount + 1
    /\ issued \in 0 .. MaxRequests /\ lost \in 0 .. MaxLost /\ faults \in 0 .. MaxFaults
    /\ tried \in [Stages -> Nat]
    /\ settled \subseteq 0 .. MaxRequests /\ revoked \subseteq 0 .. MaxRequests

\* Sets of units and control.
Names ==
    /\ active \subseteq Stages /\ up \subseteq Workers
    /\ pc \in PCs
    /\ todo \subseteq Workers
    /\ exec \in {"none", "error"} \cup Phases
    /\ owned \subseteq Workers

\* During an attempt the disk and the memory agree, and name an unfinished stage.
Attempting ==
    /\ pc \in Attempt => disk = m /\ m.current = at /\ at \in Stages \ m.completed
    /\ Live => m.contract \in Contracts
    /\ pc \in {"start", "waiting"} => m.failures[at] < MaxAttempts

\* Everything typed, with what typing rests on.
Types == Flags /\ Saved /\ Numbers /\ Names /\ Attempting

\* A worker that is down for the operator is listed on disk, and in the memory of a
\* run; until the workers are down the two lists are the same.
Listed ==
    /\ owned \subseteq disk.restore
    /\ Live => owned \subseteq m.restore
    /\ pc \in {"open", "leftover", "quiesce"} => m.restore = disk.restore

\* Workers of a run's policy that are up.
Awake(s) == up \cap Quiesce[s.contract]

\* How far the preparation of the stages has come.
Prepared ==
    /\ pc = "quiesce" => ~RestoreOnly(m)
    /\ pc = "fence" => RestoreOnly(m)
    /\ pc \in {"leftover", "quiesce"} /\ ~RestoreOnly(m) => Awake(m) \subseteq todo
    /\ pc = "ready" /\ ~RestoreOnly(m) => Awake(m) = {}
    /\ pc \in {"stage"} \cup Attempt => Awake(m) = {}
    /\ pc \in {"ready", "stage"} \cup Attempt => sentinel

\* Two states name the same stage of the same run.
SameStage(s, t) == t.current = s.current /\ t.contract = s.contract /\ t.completed = s.completed

\* A stage unit runs only where a process, or the next one, is bound to stop it.
Watched ==
    active # {} =>
        /\ pc \in {"off", "open", "leftover", "waiting", "retry", "leave"}
        /\ InFlight(disk) /\ active = {disk.current}
        /\ sentinel
        /\ disk.contract \in Contracts /\ Awake(disk) = {}
        /\ Live => SameStage(disk, m)

\* A state of some run.
Ran(s) == s.phase # "none" /\ s.result # "none"

\* A run in progress, and a published fence, have a state on disk.
Named ==
    /\ Live => Ran(m)
    /\ Live /\ pc # "open" => Ran(disk)
    /\ sentinel \/ disk.phase # "none" => Ran(disk)
    /\ pc \in {"leave", "unfence", "restore"} => exec # "none"

\* A fence is published only while a request asks for it, and is down when the
\* marker is removed.
Recoverable ==
    /\ FenceHasRecovery
    /\ Live => req # 0 \/ lost > 0
    /\ pc = "cancel" => ~sentinel
    /\ pc = "restore" /\ ~rerr => ~sentinel
    /\ pc = "finish" /\ m.phase # "interrupted" => ~sentinel

\* Failures f and n faults account for t observed failures of every stage.
Covers(f, n, t) == \A k \in Stages : t[k] <= f[k] + n

\* Disk and memory each account for the failures of the run.
Counted ==
    /\ Covers(disk.failures, faults, tried)
    /\ Live => Covers(m.failures, faults, tried)

\* A stage is complete or out of budget.
Spent(s, k) == k \in s.completed \/ s.failures[k] >= MaxAttempts

\* No stage has anything left to execute.
Done(s) == \A k \in Stages : Spent(s, k)

\* A result that answers the request.
Ended(result) == result \in {"succeeded", "failed"}

\* A recorded, remembered or intended success or failure means that no stage is left;
\* the loop leaves none behind.
Honest ==
    /\ Ended(disk.result) => Done(disk)
    /\ Live /\ Ended(m.result) => Done(m)
    /\ pc \in {"leave", "unfence", "restore"} /\ Ended(exec) => Done(m)
    /\ pc \in {"stage"} \cup Attempt => \A k \in 1 .. at - 1 : Spent(m, k)

\* A request answered before is the request of this run, or of the state on disk, and
\* leaves no stage to execute.
Answered ==
    /\ issued \in Nat /\ req \in {0, issued}
    /\ settled \subseteq 1 .. issued
    /\ Live => m.request \in 1 .. issued
    /\ Live /\ pc # "open" => disk.request = m.request
    /\ Live /\ req \in settled => m.request = req
    /\ Live /\ m.request \in settled => Done(m)
    /\ req \in settled => disk.request = req /\ disk.phase # "none" /\ Done(disk)

\* The inductive invariant.
IInv ==
    /\ Types /\ Listed /\ Prepared /\ Watched /\ Named
    /\ Recoverable /\ Counted /\ Honest /\ Answered

-----------------------------------------------------------------------------
\* The work of two states is the same.
SameWork(s, t) ==
    /\ t.contract = s.contract /\ t.completed = s.completed /\ t.failures = s.failures
    /\ t.restore = s.restore

\* The recovery of s begins, with result r.
IsClosed(s, t, r) ==
    /\ SameWork(s, t) /\ t.request = s.request /\ t.phase = s.phase
    /\ t.current = 0 /\ t.restoring = TRUE /\ t.result = r

\* The outcome of s is decided.
IsFinal(s, t, p, b, r) ==
    /\ SameWork(s, t) /\ t.request = s.request /\ t.current = s.current
    /\ t.phase = p /\ t.restoring = b /\ t.result = r

\* The run of s goes on for request q.
IsResumed(s, t, q, p, r) ==
    /\ SameWork(s, t) /\ t.current = s.current /\ t.restoring = s.restoring
    /\ t.request = q /\ t.phase = p /\ t.result = r

\* What Close, Finish and Resume write.
Result == IF exec \in Terminal THEN exec ELSE "interrupted"

\* The outcome of the run.
Outcome == IF rerr \/ exec = "error" THEN "interrupted" ELSE exec

\* The phase of a resumed run.
Phase == IF RestoreOnly(disk) THEN disk.phase ELSE "running"

\* The result of a resumed run.
Standing == IF RestoreOnly(disk) THEN disk.result ELSE "running"

\* A resumed state is a state.
LEMMA ResumedRecord ==
    ASSUME NEW s \in States, NEW q \in 0 .. MaxRequests, NEW p \in Phases, NEW r \in Phases
    PROVE
         LET t == [s EXCEPT !.request = q, !.phase = p, !.result = r]
         IN t \in States /\ IsResumed(s, t, q, p, r)
<1> DEFINE t == [s EXCEPT !.request = q, !.phase = p, !.result = r]
<1>1. t \in States BY Zenon DEF States
<1>2. IsResumed(s, t, q, p, r) BY SMT DEF States, IsResumed, SameWork
<1> QED BY <1>1, <1>2

\* A state whose recovery begins is a state.
LEMMA ClosedRecord == ASSUME NEW s \in States, NEW r \in Phases
   PROVE LET t == [s EXCEPT !.current = 0, !.restoring = TRUE, !.result = r]
         IN  t \in States /\ IsClosed(s, t, r)
<1> DEFINE t == [s EXCEPT !.current = 0, !.restoring = TRUE, !.result = r]
<1>1. 0 \in 0 .. StageCount /\ TRUE \in BOOLEAN BY OperatorAssumption, SMT
<1>2. t \in States BY <1>1, Zenon DEF States
<1>3. IsClosed(s, t, r) BY SMT DEF States, IsClosed, SameWork
<1> QED BY <1>2, <1>3

\* A state whose outcome is decided is a state.
LEMMA FinalRecord == ASSUME NEW s \in States,  NEW p \in Phases, NEW r \in Phases, NEW b \in BOOLEAN
   PROVE LET t == [s EXCEPT !.phase = p, !.restoring = b, !.result = r]
         IN  t \in States /\ IsFinal(s, t, p, b, r)
<1> DEFINE t == [s EXCEPT !.phase = p, !.restoring = b, !.result = r]
<1>2. t \in States BY Zenon DEF States
<1>3. SameWork(s, t) /\ t.request = s.request /\ t.current = s.current /\ t.phase = p /\ t.result = r
  BY SMT DEF States, SameWork
<1>4. t.restoring = b BY SMT DEF States
<1>5. IsFinal(s, t, p, b, r) BY <1>3, <1>4 DEF IsFinal
<1> QED BY <1>2, <1>5

\* A cancelled state is a state.
LEMMA DecidedRecord == ASSUME NEW s \in States,  NEW p \in Phases, NEW r \in Phases
   PROVE [s EXCEPT !.phase = p, !.result = r] \in States
BY Zenon DEF States

\* A new run is a state.
LEMMA NewRunTyped == ASSUME NEW c \in Contracts \cup {NoContract} PROVE NewRun(c) \in States
BY OperatorAssumption, SMT DEF NewRun, States, Phases, Terminal, Stages

\* So is one with its request.
LEMMA RequestRecord ==
    ASSUME NEW s \in States, NEW q \in 0 .. MaxRequests
    PROVE  [s EXCEPT !.request = q] \in States
BY SMT DEF States

\* A new run for a request is a state.
LEMMA RequestedRun ==
    ASSUME NEW c \in Contracts \cup {NoContract}, NEW q \in 0 .. MaxRequests
    PROVE  [NewRun(c) EXCEPT !.request = q] \in States
BY NewRunTyped, RequestRecord, Zenon

\* Entering a stage leaves a state.
LEMMA CurrentRecord ==
    ASSUME NEW s \in States, NEW k \in Stages
    PROVE  [s EXCEPT !.current = k] \in States
<1>1. k \in 0 .. StageCount BY OperatorAssumption, SMT DEF Stages
<1> QED BY <1>1, SMT DEF States

\* No run at all is a state.
LEMMA NoStateTyped == NoState \in States
BY NewRunTyped, DecidedRecord, Zenon DEF NoState, Phases

\* Failure counts of the stages.
Failures == [Stages -> 0 .. MaxAttempts]

\* The counts of a state are such counts.
LEMMA StateFailures == ASSUME NEW s \in States PROVE s.failures \in Failures
BY SMT DEF States, Failures

\* Counts are compared with themselves.
LEMMA Reflexive == ASSUME NEW f \in Failures PROVE \A k \in Stages : f[k] <= f[k]
BY OperatorAssumption, SMT DEF Failures

-----------------------------------------------------------------------------
\* What Resume writes.
LEMMA ResumeEffect == ASSUME Types, NEW c \in Contracts, Resume(c)
  PROVE m' \in States /\ IsResumed(disk, m', req, Phase, Standing)
<1>1. Phase \in Phases /\ Standing \in Phases
  BY SMT DEF Types, Saved, States, Phase, Standing, Phases
<1>2. req \in 0 .. MaxRequests BY DEF Types, Numbers
<1> QED BY <1>1, <1>2, ResumedRecord DEF Resume, Phase, Standing, Types, Saved

\* What StartNew writes.
LEMMA StartEffect == ASSUME Types, NEW c \in Contracts, StartNew(c)
  PROVE /\ m' \in States /\ m'.contract = c
        /\ m'.completed = {} /\ m'.failures = [s \in Stages |-> 0]
        /\ m'.restore = {} /\ m'.restoring = FALSE /\ m'.current = 0
        /\ m'.request = req' /\ m'.request = Requested
        /\ m'.phase = "running" /\ m'.result = "running"
<1>1. Requested \in 0 .. MaxRequests BY SMT DEF Types, Numbers, StartNew, Requested
<1>2. m' \in States BY <1>1, RequestedRun DEF StartNew
<1>3. req' = Requested BY DEF StartNew
<1> QED BY <1>2, <1>3, SMT DEF StartNew, NewRun

\* What Close writes, and where.
LEMMA CloseEffect == ASSUME Types, Close
  PROVE \E t \in States :
     /\ IsClosed(m, t, Result)
     /\ \/ /\ disk' = t /\ m' = t /\ pc' = "unfence"
            /\ UNCHANGED <<at, todo, exec, rerr, signal, faults>>
        \/ Fault /\ disk' \in {disk, t} /\ Idle
<1> DEFINE closed == [m EXCEPT !.current = 0, !.restoring = TRUE, !.result = Result]
<1>1. Result \in Phases BY SMT DEF Types, Names, Phases, Terminal, Result
<1>2. closed \in States /\ IsClosed(m, closed, Result)
  BY <1>1, ClosedRecord DEF Types, Saved
<1>3. \/ /\ disk' = closed /\ m' = closed /\ pc' = "unfence"
         /\ UNCHANGED <<at, todo, exec, rerr, signal, faults>>
      \/ Fault /\ disk' \in {disk, closed} /\ Idle
  BY DEF Close, Result
<1> HIDE DEF closed
<1> QED BY <1>2, <1>3

\* What Finish writes, and where.
LEMMA FinishEffect == ASSUME Types, Finish
  PROVE \E t \in States :
     /\ IsFinal(m, t, Outcome, rerr, IF rerr THEN m.result ELSE Outcome)
     /\ \/ /\ disk' = t /\ m' = t /\ pc' = "finish"
            /\ UNCHANGED <<at, todo, exec, rerr, signal, faults>>
        \/ Fault /\ disk' \in {disk, t} /\ Idle
<1> DEFINE final == [m EXCEPT !.phase = Outcome, !.restoring = rerr,
                              !.result = IF rerr THEN m.result ELSE Outcome]
<1>1. Outcome \in Phases BY Zenon DEF Types, Names, Phases, Terminal, Outcome
<1>2. (IF rerr THEN m.result ELSE Outcome) \in Phases BY <1>1, SMT DEF Types, Saved, States
<1>3. final \in States /\ IsFinal(m, final, Outcome, rerr, IF rerr THEN m.result ELSE Outcome)
  BY <1>1, <1>2, FinalRecord DEF Types, Saved, Flags
<1>4. \/ /\ disk' = final /\ m' = final /\ pc' = "finish"
         /\ UNCHANGED <<at, todo, exec, rerr, signal, faults>>
      \/ Fault /\ disk' \in {disk, final} /\ Idle
  BY DEF Finish, Outcome
<1> HIDE DEF final
<1> QED BY <1>3, <1>4

\* A write of the execution: the run is the same, and no stage loses progress.
Kept(s, t) ==
    /\ t.contract = s.contract /\ t.phase = s.phase /\ t.result = s.result
    /\ t.restoring = s.restoring /\ t.request = s.request
    /\ s.completed \subseteq t.completed
    /\ \A k \in Stages : s.failures[k] <= t.failures[k]

\* The steps that save a mark of the execution.
Writes == StopLeftover \/ EnterStage \/ PersistAttempt \/ Succeed \/ FailAttempt

-----------------------------------------------------------------------------
\* Flags stay Boolean.
LEMMA FlagsNext == ASSUME Types, [Next]_vars PROVE Flags'
<1> USE DEF Types, Flags
<1>1. ASSUME NEW c \in Contracts, Begin(c) PROVE Flags' BY <1>1 DEF Begin, systemd
<1>2. CASE Open \/ Close \/ CloseFails \/ Finish \/ RemoveRequest \/ Crash
  BY <1>2, Zenon DEF Open, Close, CloseFails, Finish, RemoveRequest, Crash, Idle, systemd,
     files
<1>3. CASE Unfence
  BY <1>3, Zenon DEF Unfence, systemd
<1>31. CASE Fence \/ Ready \/ SkipStage \/ EndStages \/ GiveUp \/ StartUnit \/ StopForRetry
         \/ Interrupt \/ InterruptUnit
  BY <1>31, Zenon DEF Fence, Ready, SkipStage, EndStages, GiveUp, StartUnit, StopForRetry,
         Interrupt, InterruptUnit, systemd, files
<1>32. CASE StopLeftover \/ EnterStage \/ PersistAttempt \/ Succeed \/ FailAttempt
  BY <1>32, Zenon DEF StopLeftover, EnterStage, PersistAttempt, Succeed, FailAttempt,
     systemd, files
<1>4. ASSUME NEW w \in Workers,
             Record(w) \/ QuiesceWorker(w) \/ QuiesceFails(w) \/ RestoreWorker(w) \/ RestoreFails(w)
      PROVE  Flags'
  BY <1>4, Zenon DEF Record, QuiesceWorker, QuiesceFails, RestoreWorker, RestoreFails,
     systemd, files
<1>5. CASE ClosureError BY <1>5, Zenon DEF ClosureError, systemd, files
<1>6. CASE Cancel \/ CancelRequest \/ Signal \/ Touch \/ LoseRequest
  BY <1>6, Zenon DEF Cancel, CancelRequest, Signal, Touch, LoseRequest, systemd, process,
     files
<1>7. ASSUME NEW s \in Stages, UnitEnds(s) PROVE Flags'
  BY <1>7, Zenon DEF UnitEnds, process, files
<1>8. ASSUME NEW w \in Workers, WorkerExits(w) PROVE Flags'
  BY <1>8, Zenon DEF WorkerExits, process, files
<1>9. CASE UNCHANGED vars BY <1>9, Zenon DEF vars, files, process, systemd
<1> QED
BY <1>1, <1>2, <1>3, <1>31, <1>32, <1>4, <1>5, <1>6, <1>7, <1>8, <1>9 DEF Next, Steps,
   Errors, External

\* The states stay states.
LEMMA SavedNext == ASSUME Types, [Next]_vars PROVE Saved'
<1> USE OperatorAssumption DEF Types
<1>1. ASSUME NEW c \in Contracts, Begin(c) PROVE Saved'
  <2>1. CASE Resume(c) BY <1>1, <2>1, ResumeEffect DEF Begin, Saved
  <2>2. CASE StartNew(c) BY <1>1, <2>2, StartEffect DEF Begin, Saved
  <2> QED BY <2>1, <2>2, <1>1 DEF Begin
<1>2. CASE Open \/ RemoveRequest \/ Crash
  BY <1>2, NoStateTyped, Zenon DEF Open, RemoveRequest, Crash, Idle, files, Saved
<1>3. CASE StopLeftover BY <1>3, SMT DEF StopLeftover, Keep, Saved, States
<1>4. ASSUME NEW w \in Workers, Record(w) PROVE Saved'
  BY <1>4, SMT DEF Record, Keep, Saved, States
<1>5. CASE SkipStage
  <2>1. m.completed \subseteq Stages BY SMT DEF Saved, States
  <2> QED BY <1>5, <2>1, CurrentRecord, Zenon DEF SkipStage, Saved, files
<1>6. CASE EnterStage \/ PersistAttempt
  <2>1. at \in Stages BY <1>6, SMT DEF EnterStage, PersistAttempt, Attempting, Attempt
  <2> QED BY <1>6, <2>1, CurrentRecord, Zenon DEF EnterStage, PersistAttempt, Keep, Saved
<1>7. CASE Succeed BY <1>7, SMT DEF Succeed, Keep, Saved, States, Attempting, Attempt
<1>8. CASE FailAttempt
  BY <1>8, SMT DEF FailAttempt, Keep, Saved, States, Attempting, Attempt
<1>9. CASE Close \/ CloseFails
  <2>1. CASE Close BY <2>1, CloseEffect, NoStateTyped, Zenon DEF Idle, Saved
  <2>2. CASE CloseFails
    <3>1. [m EXCEPT !.phase = "interrupted"] \in States BY SMT DEF Saved, States, Phases
    <3> QED BY <2>2, <3>1, NoStateTyped, Zenon DEF CloseFails, Idle, Saved
  <2> QED BY <2>1, <2>2, <1>9
<1>10. ASSUME NEW w \in Workers, RestoreWorker(w) PROVE Saved'
  BY <1>10, SMT DEF RestoreWorker, Saved, States
<1>11. CASE Finish BY <1>11, FinishEffect, NoStateTyped, Zenon DEF Idle, Saved
<1>12. CASE Cancel
  <2>1. "cancelled" \in Phases BY SMT DEF Phases, Terminal
  <2> QED BY <1>12, <2>1, DecidedRecord, Zenon DEF Cancel, Saved
<1>13. CASE \/ Fence \/ Ready \/ EndStages \/ GiveUp \/ StartUnit \/ StopForRetry
            \/ Interrupt \/ InterruptUnit \/ Unfence \/ ClosureError
            \/ CancelRequest \/ Signal \/ Touch \/ LoseRequest
  BY <1>13, Zenon DEF Fence, Ready, EndStages, GiveUp, StartUnit, StopForRetry,
         Interrupt, InterruptUnit, Unfence, ClosureError, CancelRequest, Signal, Touch, LoseRequest, process, files, Saved
<1>14. ASSUME NEW w \in Workers,
              QuiesceWorker(w) \/ QuiesceFails(w) \/ RestoreFails(w) \/ WorkerExits(w)
       PROVE Saved'
  BY <1>14, Zenon DEF QuiesceWorker, QuiesceFails, RestoreFails, WorkerExits, process,
     files, Saved
<1>15. ASSUME NEW s \in Stages, UnitEnds(s) PROVE Saved'
  BY <1>15, Zenon DEF UnitEnds, process, files, Saved
<1>16. CASE UNCHANGED vars BY <1>16, Zenon DEF vars, files, process, Saved
<1> QED
BY <1>1, <1>2, <1>3, <1>4, <1>5, <1>6, <1>7, <1>8, <1>9, <1>10, <1>11, <1>12, <1>13, <1>14,
   <1>15, <1>16 DEF Next, Steps, Errors, External

\* Positions, counters and requests keep their ranges.
LEMMA NumbersNext == ASSUME Types, [Next]_vars PROVE Numbers'
<1> USE OperatorAssumption DEF Types, Numbers
<1>0. Saved' BY SavedNext
<1>1. ASSUME NEW c \in Contracts, Begin(c) PROVE Numbers'
  <2>1. CASE Resume(c) BY <1>1, <2>1, SMT DEF Begin, Resume
  <2>2. CASE StartNew(c) BY <1>1, <2>2, SMT DEF Begin, StartNew, Requested
  <2> QED BY <2>1, <2>2, <1>1 DEF Begin
<1>2. CASE Open \/ CloseFails \/ RemoveRequest \/ Crash
  BY <1>2, SMT DEF Open, CloseFails, RemoveRequest, Crash, Fault, Idle, files, systemd,
     bounds, ghosts
<1>3. CASE Close \/ Finish
  <2>1. Settle(disk') \subseteq 0 .. MaxRequests BY <1>0, SMT DEF Settle, Saved, States
  <2>2. settled' = settled \cup Settle(disk') BY <1>3, Zenon DEF Close, Finish
  <2>3. /\ req' = req /\ issued' = issued /\ lost' = lost /\ tried' = tried /\ revoked' = revoked
        /\ at' \in {at, 1}
        /\ faults' = faults \/ Fault
    BY <1>3, Zenon DEF Close, Finish, Idle
  <2>4. settled' \subseteq 0 .. MaxRequests BY <2>1, <2>2 DEF Numbers
  <2>5. at' \in 1 .. StageCount + 1 /\ faults' \in 0 .. MaxFaults BY <2>3, SMT DEF Fault
  <2> QED BY <2>3, <2>4, <2>5, Zenon
<1>4. CASE StopLeftover \/ EnterStage \/ PersistAttempt
  BY <1>4, SMT DEF StopLeftover, EnterStage, PersistAttempt, Keep, Fault, ghosts, systemd
<1>5. CASE Succeed \/ FailAttempt
  <2>1. at \in Stages BY <1>5, SMT DEF Succeed, FailAttempt, Attempting, Attempt
  <2>2. CASE Succeed
    <3>1. /\ UNCHANGED <<req, issued, lost, tried, settled, revoked>>
          /\ at' \in {at, at + 1}
          /\ faults' = faults \/ Fault
      BY <2>2, Zenon DEF Succeed, Keep, ghosts
    <3>2. at' \in 1 .. StageCount + 1 BY <2>1, <3>1, SMT DEF Stages
    <3>3. faults' \in 0 .. MaxFaults BY <3>1, SMT DEF Fault
    <3> QED BY <3>1, <3>2, <3>3, Zenon
  <2>3. CASE FailAttempt
    <3>1. tried' \in [Stages -> Nat] BY <2>1, <2>3, SMT DEF FailAttempt
    <3>2. faults' \in 0 .. MaxFaults BY <2>3, SMT DEF FailAttempt, Keep, Fault
    <3> QED BY <2>3, <3>1, <3>2, Zenon DEF FailAttempt
  <2> QED BY <1>5, <2>2, <2>3
<1>6. CASE SkipStage \/ GiveUp
  <2>1. at \in Stages BY <1>6, SMT DEF SkipStage, GiveUp, Attempting, Attempt, Saved, States
  <2> QED BY <1>6, <2>1, SMT DEF SkipStage, GiveUp, files, systemd, bounds, ghosts, Stages
<1>7. CASE Fence \/ EndStages \/ StartUnit \/ StopForRetry \/ Interrupt \/ InterruptUnit
  BY <1>7, Zenon DEF Fence, EndStages, StartUnit, StopForRetry,
         Interrupt, InterruptUnit, files, bounds, ghosts
<1>8. CASE Ready \/ Unfence \/ ClosureError
  <2>1. /\ UNCHANGED <<req, issued, lost, tried, settled, revoked>>
        /\ at' \in {at, 1}
        /\ faults' = faults \/ Fault
    BY <1>8, Zenon DEF Ready, Unfence, ClosureError, files, bounds, ghosts
  <2>2. at' \in 1 .. StageCount + 1 /\ faults' \in 0 .. MaxFaults BY <2>1, SMT DEF Fault
  <2> QED BY <2>1, <2>2, Zenon
<1>9. CASE Cancel \/ CancelRequest \/ Signal \/ Touch \/ LoseRequest
  BY <1>9, SMT DEF Cancel, CancelRequest, Signal, Touch, LoseRequest, files, process,
     bounds, ghosts
<1>10. ASSUME NEW w \in Workers,
              Record(w) \/ QuiesceWorker(w) \/ QuiesceFails(w) \/ RestoreWorker(w) \/ RestoreFails(w)
       PROVE Numbers'
  BY <1>10, SMT DEF Record, QuiesceWorker, QuiesceFails, RestoreWorker, RestoreFails, Keep,
     Fault, files, bounds, ghosts
<1>11. ASSUME NEW w \in Workers, WorkerExits(w) PROVE Numbers'
  BY <1>11, SMT DEF WorkerExits, files, process, bounds, ghosts
<1>12. ASSUME NEW s \in Stages, UnitEnds(s) PROVE Numbers'
  BY <1>12, SMT DEF UnitEnds, files, process, bounds, ghosts
<1>13. CASE UNCHANGED vars BY <1>13, SMT DEF vars, files, process, bounds, ghosts
<1> QED
BY <1>1, <1>2, <1>3, <1>4, <1>5, <1>6, <1>7, <1>8, <1>9, <1>10, <1>11, <1>12, <1>13
   DEF Next, Steps, Errors, External

\* Sets of units and control keep their types.
LEMMA NamesNext == ASSUME Types, [Next]_vars PROVE Names'
<1> USE DEF Types, Names
<1>1. ASSUME NEW c \in Contracts, Begin(c) PROVE Names'
  BY <1>1, SMT DEF Begin, systemd, PCs
<1>2. CASE Open
  <2>1. Quiesce[m.contract] \subseteq Workers
    BY <1>2, OperatorAssumption, SMT DEF Open, Attempting, Live
  <2> QED BY <1>2, <2>1, SMT DEF Open, Idle, systemd, ghosts, PCs
<1>3. CASE Close \/ CloseFails \/ Finish \/ RemoveRequest \/ Crash
  BY <1>3, SMT DEF Close, CloseFails, Finish, RemoveRequest, Crash, Idle, systemd, ghosts,
     PCs
<1>4. CASE StopLeftover \/ EnterStage \/ PersistAttempt \/ Succeed \/ FailAttempt
  BY <1>4, SMT DEF StopLeftover, EnterStage, PersistAttempt, Succeed, FailAttempt, Keep,
     Leave, ghosts, systemd, PCs
<1>5. CASE Ready \/ EndStages
  <2>1. m.result \in Phases BY SMT DEF Saved, States
  <2>2. "succeeded" \in Phases /\ "failed" \in Phases BY SMT DEF Phases, Terminal
  <2> QED BY <1>5, <2>1, <2>2, SMT DEF Ready, EndStages, Leave, systemd, ghosts, PCs
<1>6. CASE SkipStage \/ GiveUp \/ Fence \/ StartUnit \/ StopForRetry
  <2>1. at \in Stages \/ pc # "start" BY SMT DEF Attempting, Attempt
  <2> QED
    BY <1>6, <2>1, SMT DEF SkipStage, GiveUp, Fence, StartUnit, StopForRetry, systemd,
       ghosts, PCs
<1>7. CASE Interrupt \/ InterruptUnit \/ ClosureError
  <2>1. "interrupted" \in Phases BY SMT DEF Phases
  <2> QED
    BY <1>7, <2>1, SMT DEF Interrupt, InterruptUnit, ClosureError, Leave, systemd, ghosts,
       PCs
<1>8. CASE Unfence
  <2>1. m.restore \subseteq Workers BY SMT DEF Saved, States
  <2> QED BY <1>8, <2>1, SMT DEF Unfence, systemd, ghosts, PCs
<1>9. CASE Cancel \/ CancelRequest \/ Signal \/ Touch \/ LoseRequest
  BY <1>9, SMT DEF Cancel, CancelRequest, Signal, Touch, LoseRequest, systemd, process,
     ghosts, PCs
<1>10. ASSUME NEW w \in Workers,
              Record(w) \/ QuiesceWorker(w) \/ QuiesceFails(w) \/ RestoreWorker(w) \/ RestoreFails(w)
       PROVE Names'
  BY <1>10, SMT DEF Record, QuiesceWorker, QuiesceFails, RestoreWorker, RestoreFails, Keep,
     Leave, TakeDown, systemd, ghosts, PCs
<1>11. ASSUME NEW w \in Workers, WorkerExits(w) PROVE Names'
  BY <1>11, SMT DEF WorkerExits, process, ghosts
<1>12. ASSUME NEW s \in Stages, UnitEnds(s) PROVE Names'
  BY <1>12, SMT DEF UnitEnds, process, ghosts
<1>13. CASE UNCHANGED vars BY <1>13, SMT DEF vars, systemd, process, ghosts
<1> QED
BY <1>1, <1>2, <1>3, <1>4, <1>5, <1>6, <1>7, <1>8, <1>9, <1>10, <1>11, <1>12, <1>13
   DEF Next, Steps, Errors, External

\* An attempt is always on disk as it is in memory.
LEMMA AttemptingNext == ASSUME Types, [Next]_vars PROVE Attempting'
<1> USE DEF Types, Attempting, Attempt, Live
<1>1. ASSUME NEW c \in Contracts, Begin(c) PROVE Attempting'
  <2>1. CASE Resume(c) BY <1>1, <2>1, SMT DEF Begin, Resume, Saved, States
  <2>2. CASE StartNew(c)
    <3>1. m'.contract = c BY <2>2, SMT DEF StartNew, NewRun
    <3> QED BY <1>1, <3>1, SMT DEF Begin
  <2> QED BY <2>1, <2>2, <1>1 DEF Begin
<1>2. CASE Open \/ CloseFails \/ RemoveRequest \/ Crash
  BY <1>2, SMT DEF Open, CloseFails, RemoveRequest, Crash, Idle
<1>3. CASE StopLeftover BY <1>3, SMT DEF StopLeftover, Keep, Leave, Saved, States
<1>4. CASE EnterStage \/ PersistAttempt
  <2>1. at \in Stages \ m.completed BY <1>4, SMT DEF EnterStage, PersistAttempt
  <2>2. /\ m' = [m EXCEPT !.current = at] /\ at' = at
        /\ \/ pc' = "leave"
           \/ disk' = m' /\ pc' = "attempt"
           \/ disk' = m' /\ pc' = "start" /\ m.failures[at] < MaxAttempts
    <3>1. CASE EnterStage BY <3>1 DEF EnterStage, Keep, Leave
    <3>2. CASE PersistAttempt BY <3>2 DEF PersistAttempt, Keep, Leave
    <3> QED BY <1>4, <3>1, <3>2
  <2>3. m'.current = at /\ m'.contract = m.contract /\ m'.completed = m.completed /\ m'.failures = m.failures
    BY <2>2, SMT DEF Saved, States
  <2>4. m.contract \in Contracts BY <1>4, SMT DEF EnterStage, PersistAttempt
  <2> QED BY <2>1, <2>2, <2>3, <2>4, SMT
<1>5. CASE Succeed \/ FailAttempt
  <2>1. m'.contract = m.contract
    BY <1>5, SMT DEF Succeed, FailAttempt, Keep, Saved, States
  <2>2. CASE Succeed BY <2>1, <2>2, SMT DEF Succeed, Keep, Leave
  <2>3. CASE FailAttempt
    <3>1. m'.current = m.current /\ m'.completed = m.completed
       BY <2>3, SMT DEF FailAttempt, Keep, Saved, States
    <3> QED BY <2>1, <2>3, <3>1, SMT DEF FailAttempt, Keep, Leave
  <2> QED BY <1>5, <2>2, <2>3
<1>6. CASE SkipStage BY <1>6, SMT DEF SkipStage, Saved, States
<1>7. CASE GiveUp \/ Fence \/ Ready \/ EndStages \/ StartUnit \/ StopForRetry
         \/ Interrupt \/ InterruptUnit \/ Unfence \/ ClosureError
  BY <1>7, Zenon DEF GiveUp, Fence, Ready, EndStages, StartUnit, StopForRetry,
         Interrupt, InterruptUnit, Unfence, ClosureError, Leave, files
<1>8. CASE Close BY <1>8, CloseEffect, Zenon DEF Idle, IsClosed, SameWork, Close
<1>9. CASE Finish BY <1>9, FinishEffect, Zenon DEF Idle, IsFinal, SameWork, Finish
<1>10. ASSUME NEW w \in Workers, Record(w) \/ RestoreWorker(w) PROVE Attempting'
  BY <1>10, SMT DEF Record, RestoreWorker, Keep, Leave, Saved, States
<1>11. ASSUME NEW w \in Workers, QuiesceWorker(w) \/ QuiesceFails(w) \/ RestoreFails(w) \/ WorkerExits(w)
       PROVE Attempting'
  BY <1>11, SMT DEF QuiesceWorker, QuiesceFails, RestoreFails, WorkerExits, Leave, files,
     process
<1>12. CASE Cancel \/ CancelRequest \/ Signal \/ Touch \/ LoseRequest
  BY <1>12, SMT DEF Cancel, CancelRequest, Signal, Touch, LoseRequest, files, process
<1>13. ASSUME NEW s \in Stages, UnitEnds(s) PROVE Attempting'
  BY <1>13, SMT DEF UnitEnds, files, process
<1>14. CASE UNCHANGED vars BY <1>14, SMT DEF vars, files, process
<1> QED
BY <1>1, <1>2, <1>3, <1>4, <1>5, <1>6, <1>7, <1>8, <1>9, <1>10, <1>11, <1>12, <1>13, <1>14
   DEF Next, Steps, Errors, External

\* Type correctness.
LEMMA TypesNext == ASSUME Types, [Next]_vars PROVE Types'
BY FlagsNext, SavedNext, NumbersNext, NamesNext, AttemptingNext DEF Types

-----------------------------------------------------------------------------
\* What a mark of the execution leaves on disk, in memory and in control.
LEMMA WriteEffect == ASSUME Types, Writes
  PROVE /\ Kept(m, m')
        /\ \/ disk' = m' /\ pc' # "leave" /\ exec' = exec /\ faults' = faults
           \/ Fault /\ disk' \in {disk, m'} /\ pc' = "leave" /\ exec' = "error"
<1> USE DEF Types
<1>1. CASE StopLeftover
  <2>1. Kept(m, m') BY <1>1, SMT DEF StopLeftover, Keep, Saved, States, Kept
  <2> QED BY <1>1, <2>1, Zenon DEF StopLeftover, Keep, Leave
<1>2. CASE EnterStage
  <2>1. Kept(m, m') BY <1>2, SMT DEF EnterStage, Keep, Saved, States, Kept
  <2> QED BY <1>2, <2>1, Zenon DEF EnterStage, Keep, Leave
<1>3. CASE PersistAttempt
  <2>1. Kept(m, m') BY <1>3, SMT DEF PersistAttempt, Keep, Saved, States, Kept
  <2> QED BY <1>3, <2>1, Zenon DEF PersistAttempt, Keep, Leave
<1>4. CASE Succeed
  <2>1. Kept(m, m') BY <1>4, SMT DEF Succeed, Keep, Saved, States, Kept
  <2> QED BY <1>4, <2>1, Zenon DEF Succeed, Keep, Leave
<1>5. CASE FailAttempt
  <2>1. Kept(m, m') BY <1>5, SMT DEF FailAttempt, Keep, Saved, States, Kept
  <2> QED BY <1>5, <2>1, Zenon DEF FailAttempt, Keep, Leave
<1> QED BY <1>1, <1>2, <1>3, <1>4, <1>5 DEF Writes

\* What recording a worker leaves.
LEMMA RecordEffect == ASSUME Types, NEW w \in Workers, Record(w)
  PROVE /\ Kept(m, m') /\ m'.current = m.current
        /\ m'.completed = m.completed /\ m'.failures = m.failures
        /\ \/ UNCHANGED <<disk, m, pc, exec, faults>>
           \/ disk' = m' /\ UNCHANGED <<pc, exec, faults>>
           \/ Fault /\ disk' \in {disk, m'} /\ pc' = "leave" /\ exec' = "error"
<1>1. /\ Kept(m, m') /\ m'.current = m.current
      /\ m'.completed = m.completed /\ m'.failures = m.failures
  BY SMT DEF Record, Keep, Types, Saved, States, Kept
<1>2. \/ UNCHANGED <<disk, m, pc, exec, faults>>
      \/ disk' = m' /\ UNCHANGED <<pc, exec, faults>>
      \/ Fault /\ disk' \in {disk, m'} /\ pc' = "leave" /\ exec' = "error"
  <2>1. CASE w \in up BY <2>1 DEF Record, Keep, Leave
  <2>2. CASE w \notin up BY <2>2 DEF Record
  <2> QED BY <2>1, <2>2
<1> QED BY <1>1, <1>2

\* What passing a completed stage leaves.
LEMMA SkipEffect == ASSUME Types, SkipStage
  PROVE /\ Kept(m, m') /\ m'.current = at /\ m'.restore = m.restore
        /\ m'.completed = m.completed /\ m'.failures = m.failures
BY SMT DEF SkipStage, Types, Saved, States, Kept

\* A mark does not change what is left of the run.
LEMMA KeptCleanup ==
    ASSUME NEW s, NEW t, Kept(s, t)
    PROVE  (RestoreOnly(t) <=> RestoreOnly(s)) /\ t.contract = s.contract
BY Zenon DEF Kept, RestoreOnly

\* The same stage is in flight in both.
LEMMA SameFlight == ASSUME NEW s, NEW t, SameStage(s, t)
  PROVE (InFlight(t) <=> InFlight(s)) /\ Awake(t) = Awake(s) /\ SameStage(t, s)
BY SMT DEF SameStage, InFlight, Awake

-----------------------------------------------------------------------------
\* No step loses a worker: it is recorded before it is stopped, and dropped from the
\* list after it was started.
LEMMA ListedNext == ASSUME Types, Listed, [Next]_vars PROVE Listed'
<1> USE DEF Listed, Live
<1>1. ASSUME NEW c \in Contracts, Begin(c) PROVE Listed'
  <2>1. CASE Resume(c)
    <3>1. m'.restore = disk.restore BY <2>1, ResumeEffect DEF IsResumed, SameWork
    <3> QED BY <1>1, <3>1, SMT DEF Begin
  <2>2. CASE StartNew(c)
    <3>1. m'.restore = {} BY <2>2, StartEffect
    <3> QED BY <1>1, <2>2, <3>1, SMT DEF Begin, StartNew, Unrecovered
  <2> QED BY <2>1, <2>2, <1>1 DEF Begin
<1>2. CASE Open \/ RemoveRequest \/ Crash
  BY <1>2, SMT DEF Open, RemoveRequest, Crash, Idle, files, ghosts
<1>3. CASE StopLeftover \/ EnterStage \/ PersistAttempt \/ Succeed \/ FailAttempt
  BY <1>3, SMT DEF StopLeftover, EnterStage, PersistAttempt, Succeed, FailAttempt,
     Attempting, Attempt,
                    Types, Keep, Leave, Saved, States, ghosts
<1>4. ASSUME NEW w \in Workers, Record(w) PROVE Listed'
  BY <1>4, SMT DEF Record, Keep, Leave, Types, Saved, States, ghosts
<1>5. ASSUME NEW w \in Workers, QuiesceWorker(w) \/ QuiesceFails(w) PROVE Listed'
  BY <1>5, SMT DEF QuiesceWorker, QuiesceFails, TakeDown, Leave, files
<1>6. CASE SkipStage BY <1>6, SMT DEF SkipStage, Types, Saved, States, files, ghosts
<1>7. CASE GiveUp \/ Fence \/ Ready \/ EndStages \/ StartUnit \/ StopForRetry
         \/ Interrupt \/ InterruptUnit \/ Unfence \/ ClosureError
  BY <1>7, Zenon DEF GiveUp, Fence, Ready, EndStages, StartUnit, StopForRetry,
         Interrupt, InterruptUnit, Unfence, ClosureError, Leave, files, ghosts
<1>8. CASE Close
  <2>1. owned' = owned BY <1>8 DEF Close
  <2> QED BY <1>8, <2>1, CloseEffect, Zenon DEF Idle, IsClosed, SameWork, Close
<1>9. CASE CloseFails BY <1>9, SMT DEF CloseFails, Idle, Types, Saved, States, ghosts
<1>10. CASE Finish
  <2>1. owned' = owned BY <1>10 DEF Finish
  <2> QED BY <1>10, <2>1, FinishEffect, Zenon DEF Idle, IsFinal, SameWork, Finish
<1>11. ASSUME NEW w \in Workers, RestoreWorker(w) PROVE Listed'
  BY <1>11, SMT DEF RestoreWorker, Types, Saved, States
<1>12. CASE Cancel
  <2>1. owned' = owned BY <1>12 DEF Cancel
  <2>2. disk'.restore = disk.restore BY <1>12, SMT DEF Cancel, Types, Saved, States
  <2> QED BY <1>12, <2>1, <2>2, SMT DEF Cancel
<1>13. CASE CancelRequest \/ Signal \/ Touch \/ LoseRequest
  BY <1>13, SMT DEF CancelRequest, Signal, Touch, LoseRequest, files, process, ghosts
<1>14. ASSUME NEW w \in Workers, RestoreFails(w) \/ WorkerExits(w) PROVE Listed'
  BY <1>14, SMT DEF RestoreFails, WorkerExits, files, process, ghosts
<1>15. ASSUME NEW s \in Stages, UnitEnds(s) PROVE Listed'
  BY <1>15, SMT DEF UnitEnds, files, process, ghosts
<1>16. CASE UNCHANGED vars BY <1>16, SMT DEF vars, files, process, ghosts
<1> QED
BY <1>1, <1>2, <1>3, <1>4, <1>5, <1>6, <1>7, <1>8, <1>9, <1>10, <1>11, <1>12, <1>13, <1>14,
   <1>15, <1>16 DEF Next, Steps, Errors, External

\* Stages begin with the fence published and the policy's workers down.
LEMMA PreparedNext == ASSUME Types, Prepared, [Next]_vars PROVE Prepared'
<1> USE DEF Prepared
<1>1. ASSUME NEW c \in Contracts, Begin(c) PROVE Prepared'
  BY <1>1, SMT DEF Begin, Attempt
<1>2. CASE Open \/ CloseFails \/ RemoveRequest \/ Crash
  <2>1. CASE Open
    <3>1. CASE pc' = "off" BY <3>1, SMT DEF Attempt
    <3>2. CASE pc' # "off"
      <4>1. /\ m' = m /\ up' = up /\ todo' = (IF RestoreOnly(m) THEN {} ELSE Quiesce[m.contract])
            /\ pc' = IF InFlight(m) THEN "leftover" ELSE IF RestoreOnly(m) THEN "fence" ELSE "quiesce"
        BY <2>1, <3>2 DEF Open, Idle, systemd
      <4> QED BY <4>1, SMT DEF Attempt, Awake, RestoreOnly
    <3> QED BY <3>1, <3>2
  <2>2. CASE CloseFails \/ RemoveRequest \/ Crash
    BY <2>2, SMT DEF CloseFails, RemoveRequest, Crash, Idle, Attempt
  <2> QED BY <1>2, <2>1, <2>2
<1>3. CASE Writes
  <2>1. (RestoreOnly(m') <=> RestoreOnly(m)) /\ m'.contract = m.contract
    BY <1>3, WriteEffect, KeptCleanup
  <2>2. up' = up /\ todo' = todo /\ sentinel' = sentinel
    BY <1>3, Zenon DEF Writes, StopLeftover, EnterStage, PersistAttempt, Succeed,
       FailAttempt, systemd
  <2>3. \/ pc' = "leave"
        \/ pc = "leftover" /\ pc' = IF RestoreOnly(m) THEN "fence" ELSE "quiesce"
        \/ pc \in {"stage"} \cup Attempt /\ pc' \in {"stage"} \cup Attempt
    <3>1. CASE StopLeftover BY <3>1 DEF StopLeftover, Keep, Leave
    <3>2. CASE EnterStage \/ PersistAttempt \/ Succeed \/ FailAttempt
      BY <3>2, SMT DEF EnterStage, PersistAttempt, Succeed, FailAttempt, Keep, Leave,
         Attempt
    <3> QED BY <1>3, <3>1, <3>2 DEF Writes
  <2> QED BY <2>1, <2>2, <2>3, Zenon DEF Awake, Attempt
<1>4. ASSUME NEW w \in Workers, Record(w) PROVE Prepared'
  <2>1. (RestoreOnly(m') <=> RestoreOnly(m)) /\ m'.contract = m.contract
    BY <1>4, RecordEffect, KeptCleanup
  <2>2. /\ up' = up /\ sentinel' = sentinel /\ pc = "quiesce"
        /\ pc' \in {"quiesce", "leave"}
        /\ todo' = todo \/ (w \notin up /\ todo' = todo \ {w})
    BY <1>4 DEF Record, systemd, Keep, Leave
  <2> QED BY <2>1, <2>2, SMT DEF Awake, Attempt
<1>5. ASSUME NEW w \in Workers, QuiesceWorker(w) PROVE Prepared'
  BY <1>5, SMT DEF QuiesceWorker, TakeDown, Awake, Attempt, files
<1>6. CASE SkipStage
  <2>1. m'.contract = m.contract BY <1>6, SkipEffect DEF Kept
  <2> QED BY <1>6, <2>1, Zenon DEF SkipStage, Awake, Attempt, systemd, files
<1>7. CASE Fence
  BY <1>7, SMT DEF Fence, Awake, Attempt, systemd
<1>8. CASE Ready BY <1>8, Zenon DEF Ready, Leave, Awake, Attempt, systemd, files
<1>9. CASE GiveUp \/ StartUnit \/ StopForRetry
  BY <1>9, Zenon DEF GiveUp, StartUnit, StopForRetry, Awake, Attempt, systemd, files
<1>10. CASE EndStages \/ Interrupt \/ InterruptUnit \/ ClosureError \/ Unfence
  BY <1>10, Zenon DEF EndStages, Interrupt, InterruptUnit, ClosureError, Unfence, Leave,
     Attempt
<1>11. CASE Close \/ Finish
  <2>1. pc' \in {"off", "unfence", "finish"}
    BY <1>11, CloseEffect, FinishEffect, Zenon DEF Idle
  <2> QED BY <2>1, Zenon DEF Attempt
<1>12. ASSUME NEW w \in Workers,
              QuiesceFails(w) \/ RestoreWorker(w) \/ RestoreFails(w)
       PROVE  Prepared'
  BY <1>12, Zenon DEF QuiesceFails, RestoreWorker, RestoreFails, Leave, Attempt, process
<1>13. CASE Cancel \/ CancelRequest
  BY <1>13, Zenon DEF Cancel, CancelRequest, Attempt
<1>14. CASE Signal \/ Touch \/ LoseRequest
  BY <1>14, Zenon DEF Signal, Touch, LoseRequest, systemd, process, Awake, files
<1>15. ASSUME NEW w \in Workers, WorkerExits(w) PROVE Prepared'
  BY <1>15, SMT DEF WorkerExits, files, process, Awake
<1>16. ASSUME NEW s \in Stages, UnitEnds(s) PROVE Prepared'
  BY <1>16, Zenon DEF UnitEnds, files, process, Awake
<1>17. CASE UNCHANGED vars BY <1>17, Zenon DEF vars, files, systemd, process, Awake
<1> QED
BY <1>1, <1>2, <1>3, <1>4, <1>5, <1>6, <1>7, <1>8, <1>9, <1>10, <1>11, <1>12, <1>13, <1>14,
   <1>15, <1>16, <1>17 DEF Writes, Next, Steps, Errors, External

\* A running unit is named on disk until it was stopped.
LEMMA WatchedNext == ASSUME Types, Prepared, Watched, [Next]_vars PROVE Watched'
<1> USE DEF Watched, Live
<1>1. ASSUME NEW c \in Contracts, Begin(c) PROVE Watched'
  <2>1. CASE Resume(c)
    <3>1. SameStage(disk, m') BY <2>1, ResumeEffect DEF IsResumed, SameWork, SameStage
    <3> QED BY <1>1, <3>1, Zenon DEF Begin, systemd, Awake, SameStage, InFlight
  <2>2. CASE StartNew(c)
    <3>1. disk.current = 0 BY <2>2 DEF StartNew, Unrecovered
    <3>2. active = {} BY <3>1 DEF InFlight
    <3>3. active' = {} BY <1>1, <3>2 DEF Begin, systemd
    <3> QED BY <3>3
  <2> QED BY <2>1, <2>2, <1>1 DEF Begin
<1>2. CASE Open
  <2> SUFFICES ASSUME active' # {} PROVE Watched' OBVIOUS
  <2>1. active' = active /\ up' = up /\ sentinel' = sentinel BY <1>2 DEF Open, systemd
  <2>2. SameStage(disk, m) /\ InFlight(m) BY <1>2, <2>1, SameFlight DEF Open
  <2>3. SameStage(disk, disk') /\ pc' \in {"off", "leftover"} /\ (pc' = "leftover" => disk' = m')
    BY <1>2, <2>2 DEF Open, Idle, SameStage
  <2>4. /\ InFlight(disk') /\ (Awake(disk))' = Awake(disk)
        /\ disk'.current = disk.current /\ disk'.contract = disk.contract
    BY <2>1, <2>3, Zenon DEF SameStage, InFlight, Awake
  <2> QED BY <2>1, <2>3, <2>4, Zenon DEF SameStage
<1>3. CASE StopLeftover
  <2>1. active' = {} BY <1>3, SMT DEF StopLeftover, SameStage
  <2> QED BY <2>1
<1>4. CASE EnterStage \/ PersistAttempt \/ Succeed
  <2>1. active' = {}
    BY <1>4, SMT DEF EnterStage, PersistAttempt, Succeed, systemd, Types, Attempting,
       Attempt
  <2> QED BY <2>1
<1>5. CASE FailAttempt
  <2>1. SameStage(m, m') /\ m = disk
    BY <1>5, SMT DEF FailAttempt, Keep, Types, Saved, States, SameStage, Attempting, Attempt
  <2>2. /\ active' = active /\ up' = up /\ sentinel' = sentinel
        /\ pc' \in {"leave", "retry"} /\ disk' \in {disk, m'}
    BY <1>5 DEF FailAttempt, Keep, Leave, systemd
  <2> QED BY <2>1, <2>2, Zenon DEF SameStage, InFlight, Awake
<1>6. ASSUME NEW w \in Workers,
             Record(w) \/ QuiesceWorker(w) \/ QuiesceFails(w) \/ RestoreWorker(w) \/ RestoreFails(w)
      PROVE Watched'
  <2>1. active' = {}
    BY <1>6, Zenon DEF Record, QuiesceWorker, QuiesceFails, RestoreWorker, RestoreFails,
       systemd
  <2> QED BY <2>1
<1>7. CASE \/ Fence \/ Ready \/ SkipStage \/ EndStages \/ GiveUp \/ Interrupt \/ Unfence
           \/ RemoveRequest \/ CancelRequest
  <2>1. CASE CancelRequest \/ RemoveRequest
    BY <2>1, Zenon DEF CancelRequest, RemoveRequest, Idle, systemd, Awake, InFlight
  <2>2. CASE Fence \/ Ready \/ SkipStage \/ EndStages \/ GiveUp \/ Interrupt \/ Unfence
    <3>1. active' = {}
      BY <2>2, Zenon DEF Fence, Ready, SkipStage, EndStages, GiveUp, Interrupt, Unfence,
         systemd
    <3> QED BY <3>1
  <2> QED BY <1>7, <2>1, <2>2
<1>8. CASE StartUnit
  <2>1. /\ disk = m /\ m.current = at /\ at \in Stages \ m.completed /\ m.contract \in Contracts
        /\ Awake(m) = {} /\ sentinel /\ active = {}
    BY <1>8, Zenon DEF StartUnit, Types, Attempting, Attempt, Prepared
  <2>2. at # 0 BY <2>1, SMT DEF Stages
  <2>3. InFlight(m) BY <2>1, <2>2 DEF InFlight
  <2>4. active' = {at} BY <1>8, <2>1, SMT DEF StartUnit
  <2> QED BY <1>8, <2>1, <2>3, <2>4, Zenon DEF StartUnit, files, Awake, InFlight, SameStage
<1>9. CASE StopForRetry
  <2>1. active' = {} BY <1>9, SMT DEF StopForRetry, Types, Attempting, Attempt
  <2> QED BY <2>1
<1>10. CASE InterruptUnit \/ ClosureError
  <2> SUFFICES ASSUME active' # {} PROVE Watched' OBVIOUS
  <2>1. active' = active
    <3>1. active' \subseteq active
      BY <1>10, SMT DEF InterruptUnit, ClosureError
    <3> QED BY <3>1, Zenon
  <2>2. disk' = disk /\ m' = m /\ up' = up /\ pc' = "leave" /\ (sentinel => sentinel')
    BY <1>10, Zenon DEF InterruptUnit, ClosureError, Leave, files
  <2>3. pc \notin {"off", "cancel"} BY <1>10, Zenon DEF InterruptUnit, ClosureError
  <2> QED BY <2>1, <2>2, <2>3, Zenon DEF Awake, InFlight, SameStage
<1>11. CASE Close
  <2>1. active' = {} BY <1>11, SMT DEF Close, SameStage, InFlight
  <2> QED BY <2>1
<1>12. CASE CloseFails
  <2> SUFFICES ASSUME active' # {} PROVE Watched' OBVIOUS
  <2>1. active' \subseteq active BY <1>12, SMT DEF CloseFails
  <2>2. active' = active BY <2>1, Zenon
  <2>3. SameStage(disk, disk')
    BY <1>12, <2>2, SMT DEF CloseFails, Types, Saved, States, SameStage
  <2> QED BY <1>12, <2>2, <2>3, Zenon DEF CloseFails, Idle, Awake, InFlight, SameStage
<1>13. CASE Finish
  <2>1. active' = {} BY <1>13 DEF Finish, systemd
  <2> QED BY <2>1
<1>14. CASE Cancel
  <2>1. active' = {} BY <1>14, SMT DEF Cancel, systemd, Unrecovered, InFlight
  <2> QED BY <2>1
<1>15. CASE Crash \/ Signal \/ Touch \/ LoseRequest
  BY <1>15, Zenon DEF Crash, Signal, Touch, LoseRequest, Idle, files, systemd, process,
     Awake, InFlight, SameStage
<1>16. ASSUME NEW w \in Workers, WorkerExits(w) PROVE Watched'
  <2>1. (Awake(disk))' \subseteq Awake(disk) BY <1>16, SMT DEF WorkerExits, files, Awake
  <2> QED BY <1>16, <2>1, Zenon DEF WorkerExits, files, process, InFlight, SameStage
<1>17. ASSUME NEW s \in Stages, UnitEnds(s) PROVE Watched'
  <2>1. active' = {} BY <1>17, SMT DEF UnitEnds
  <2> QED BY <2>1
<1>18. CASE UNCHANGED vars
  BY <1>18, Zenon DEF vars, files, systemd, process, Awake, InFlight, SameStage
<1> QED
BY <1>1, <1>2, <1>3, <1>4, <1>5, <1>6, <1>7, <1>8, <1>9, <1>10, <1>11, <1>12, <1>13, <1>14,
   <1>15, <1>16, <1>17, <1>18 DEF Next, Steps, Errors, External

-----------------------------------------------------------------------------
\* No step leaves a run in progress, or a fence, without a state.
LEMMA NamedNext == ASSUME Types, Named, [Next]_vars PROVE Named'
<1> USE DEF Named, Live, Ran
<1>1. ASSUME NEW c \in Contracts, Begin(c) PROVE Named'
  <2>1. CASE Resume(c)
    <3>1. IsResumed(disk, m', req, Phase, Standing) BY <2>1, ResumeEffect
    <3>2. Ran(disk) BY <2>1 DEF Resume, Resumable
    <3>3. Ran(m') BY <3>1, <3>2, Zenon DEF IsResumed, Phase, Standing
    <3> QED BY <1>1, <3>3, Zenon DEF Begin
  <2>2. CASE StartNew(c)
    <3>1. Ran(m') BY <2>2, StartEffect, Zenon
    <3> QED BY <1>1, <3>1, Zenon DEF Begin
  <2> QED BY <2>1, <2>2, <1>1 DEF Begin
<1>2. CASE Open
  <2>1. \/ disk' = m /\ m' = m /\ pc' \in {"leftover", "fence", "quiesce"}
        \/ disk' \in {disk, m} /\ pc' = "off"
    BY <1>2 DEF Open, Idle
  <2>2. sentinel' = sentinel /\ pc = "open" BY <1>2 DEF Open
  <2> QED BY <2>1, <2>2, Zenon
<1>3. CASE Writes
  <2>1. sentinel' = sentinel
    BY <1>3, Zenon DEF Writes, StopLeftover, EnterStage, PersistAttempt, Succeed,
       FailAttempt
  <2>2. pc \in {"leftover", "stage", "attempt", "start", "waiting"}
    BY <1>3, Zenon DEF Writes, StopLeftover, EnterStage, PersistAttempt, Succeed,
       FailAttempt
  <2>3. pc' = "leave" \/ pc' \in {"fence", "quiesce", "attempt", "start", "stage", "retry"}
    BY <1>3, Zenon DEF Writes, StopLeftover, EnterStage, PersistAttempt, Succeed,
       FailAttempt, Keep, Leave
  <2> QED BY <1>3, <2>1, <2>2, <2>3, WriteEffect, Zenon DEF Kept
<1>4. ASSUME NEW w \in Workers, Record(w) PROVE Named'
  <2>1. sentinel' = sentinel /\ pc = "quiesce" BY <1>4 DEF Record
  <2> QED BY <1>4, <2>1, RecordEffect, Zenon DEF Kept
<1>5. ASSUME NEW w \in Workers, QuiesceWorker(w) \/ QuiesceFails(w) \/ RestoreFails(w) \/ WorkerExits(w)
      PROVE Named'
  <2>1. disk' = disk /\ m' = m /\ sentinel' = sentinel
    BY <1>5, Zenon DEF QuiesceWorker, QuiesceFails, RestoreFails, WorkerExits, files,
       process
  <2>2. (pc' = pc /\ exec' = exec) \/ (pc = "quiesce" /\ pc' = "leave" /\ exec' = "error")
    BY <1>5, Zenon DEF QuiesceWorker, QuiesceFails, RestoreFails, WorkerExits, Leave,
       process
  <2> QED BY <2>1, <2>2, Zenon
<1>6. ASSUME NEW w \in Workers, RestoreWorker(w) PROVE Named'
  <2>1. m'.phase = m.phase /\ m'.result = m.result
    BY <1>6, SMT DEF RestoreWorker, Types, Saved, States
  <2>2. disk' \in {disk, m'} /\ sentinel' = sentinel /\ pc = "restore" /\ pc' = pc /\ exec' = exec
    BY <1>6 DEF RestoreWorker
  <2> QED BY <2>1, <2>2, Zenon
<1>7. CASE SkipStage
  <2>1. Kept(m, m') BY <1>7, SkipEffect
  <2> QED BY <1>7, <2>1, Zenon DEF SkipStage, Kept, files
<1>8. CASE GiveUp \/ Fence \/ StartUnit \/ StopForRetry \/ Unfence
  BY <1>8, Zenon DEF GiveUp, Fence, StartUnit, StopForRetry, Unfence, files
<1>9. CASE Ready \/ EndStages \/ Interrupt \/ InterruptUnit \/ ClosureError
  BY <1>9, Zenon DEF Ready, EndStages, Interrupt, InterruptUnit, ClosureError, Leave, files
<1>10. CASE Close
  <2>1. Result # "none" BY Zenon DEF Result, Terminal
  <2>2. sentinel' = sentinel /\ pc = "leave" BY <1>10 DEF Close
  <2> QED BY <1>10, <2>1, <2>2, CloseEffect, Zenon DEF Idle, IsClosed
<1>11. CASE CloseFails
  <2>1. disk'.phase \in {disk.phase, "interrupted"} /\ disk'.result \in {disk.result, m.result}
     BY <1>11, SMT DEF CloseFails, Types, Saved, States
  <2> QED BY <1>11, <2>1, Zenon DEF CloseFails, Idle
<1>12. CASE Finish
  <2>1. Outcome # "none" BY <1>12, Zenon DEF Outcome, Finish
  <2>2. sentinel' = sentinel /\ pc = "restore" BY <1>12 DEF Finish
  <2> QED BY <1>12, <2>1, <2>2, FinishEffect, Zenon DEF Idle, IsFinal
<1>13. CASE Cancel
  <2>1. disk'.phase = "cancelled" /\ disk'.result = "cancelled"
    BY <1>13, SMT DEF Cancel, Types, Saved, States
  <2> QED BY <1>13, <2>1, Zenon DEF Cancel
<1>14. CASE RemoveRequest \/ CancelRequest \/ Crash \/ Signal \/ Touch \/ LoseRequest
  <2>1. disk' = disk /\ sentinel' = sentinel
    BY <1>14, Zenon DEF RemoveRequest, CancelRequest, Crash, Signal, Touch, LoseRequest,
       files
  <2>2. pc' = "off" \/ (pc' = pc /\ m' = m /\ exec' = exec)
    BY <1>14, Zenon DEF RemoveRequest, CancelRequest, Crash, Signal, Touch, LoseRequest,
       Idle, process
  <2> QED BY <2>1, <2>2, Zenon
<1>15. ASSUME NEW s \in Stages, UnitEnds(s) PROVE Named'
  BY <1>15, Zenon DEF UnitEnds, files, process
<1>16. CASE UNCHANGED vars BY <1>16, Zenon DEF vars, files, process
<1> QED
BY <1>1, <1>2, <1>3, <1>4, <1>5, <1>6, <1>7, <1>8, <1>9, <1>10, <1>11, <1>12, <1>13, <1>14,
   <1>15, <1>16 DEF Writes, Next, Steps, Errors, External

\* No step leaves a fence without a marker, unless somebody else removed the marker.
LEMMA RecoverableNext == ASSUME Types, Named, Recoverable, [Next]_vars PROVE Recoverable'
<1> USE DEF Recoverable, FenceHasRecovery, Live
<1>1. ASSUME NEW c \in Contracts, Begin(c) PROVE Recoverable'
  <2>1. req' # 0
    <3>1. CASE Resume(c) BY <3>1, Zenon DEF Resume, Resumable
    <3>2. CASE StartNew(c) BY <3>2, SMT DEF StartNew, Requested, Types, Numbers
    <3> QED BY <1>1, <3>1, <3>2 DEF Begin
  <2> QED BY <1>1, <2>1, Zenon DEF Begin
<1>2. CASE Writes \/ (\E w \in Workers : Record(w) \/ QuiesceWorker(w) \/ QuiesceFails(w))
  <2>1. req' = req /\ lost' = lost /\ sentinel' = sentinel
    BY <1>2, Zenon DEF Writes, StopLeftover, EnterStage, PersistAttempt, Succeed,
       FailAttempt,
                       Record, QuiesceWorker, QuiesceFails, files, bounds
  <2>2. pc \notin {"off", "cancel"} /\ pc' \notin {"off", "cancel", "restore", "finish"}
    BY <1>2, Zenon DEF Writes, StopLeftover, EnterStage, PersistAttempt, Succeed,
       FailAttempt,
                       Record, QuiesceWorker, QuiesceFails, Keep, Leave
  <2> QED BY <2>1, <2>2, Zenon
<1>3. CASE Open \/ Ready \/ SkipStage \/ EndStages \/ GiveUp \/ StartUnit \/ StopForRetry
         \/ Interrupt \/ InterruptUnit
  <2>1. req' = req /\ lost' = lost /\ sentinel' = sentinel
    BY <1>3, Zenon DEF Open, Ready, SkipStage, EndStages, GiveUp, StartUnit, StopForRetry,
                       Interrupt, InterruptUnit, files, bounds
  <2>2. pc \notin {"off", "cancel"} /\ pc' \notin {"cancel", "restore", "finish"}
    BY <1>3, Zenon DEF Open, Ready, SkipStage, EndStages, GiveUp, StartUnit, StopForRetry,
                       Interrupt, InterruptUnit, Leave, Idle
  <2> QED BY <2>1, <2>2, Zenon
<1>4. CASE Fence \/ ClosureError
  <2>1. /\ req' = req /\ lost' = lost
        /\ pc \notin {"off", "cancel"} /\ pc' \in {"ready", "leave"}
    BY <1>4, Zenon DEF Fence, ClosureError, Leave, bounds
  <2> QED BY <2>1, Zenon
<1>5. CASE Close \/ CloseFails
  <2>1. req' = req /\ lost' = lost /\ sentinel' = sentinel /\ pc = "leave"
    BY <1>5, Zenon DEF Close, CloseFails
  <2>2. pc' \in {"off", "unfence"} BY <1>5, Zenon DEF Close, CloseFails, Idle
  <2> QED BY <2>1, <2>2, Zenon
<1>6. CASE Unfence BY <1>6, Zenon DEF Unfence
<1>7. ASSUME NEW w \in Workers, RestoreWorker(w) \/ RestoreFails(w) PROVE Recoverable'
  <2>1. /\ req' = req /\ lost' = lost /\ sentinel' = sentinel /\ pc = "restore" /\ pc' = pc
        /\ rerr' = rerr \/ rerr' = TRUE
    BY <1>7, Zenon DEF RestoreWorker, RestoreFails, files, process
  <2> QED BY <2>1, Zenon
<1>8. CASE Finish
  <2>1. req' = req /\ lost' = lost /\ sentinel' = sentinel /\ pc = "restore"
    BY <1>8, Zenon DEF Finish
  <2>2. pc' = "off" \/ (pc' = "finish" /\ m'.phase = Outcome)
    BY <1>8, FinishEffect, Zenon DEF Idle, IsFinal
  <2> QED BY <2>1, <2>2, Zenon DEF Outcome
<1>9. CASE RemoveRequest
  BY <1>9, Zenon DEF RemoveRequest, Idle, bounds
<1>10. CASE Cancel BY <1>10, Zenon DEF Cancel, bounds
<1>11. CASE CancelRequest
  <2>1. ~sentinel BY <1>11, Zenon DEF CancelRequest, Named, Ran
  <2> QED BY <1>11, <2>1, Zenon DEF CancelRequest
<1>12. CASE Crash BY <1>12, Zenon DEF Crash, Idle, files
<1>13. CASE Touch
  <2>1. req' # 0 BY <1>13, SMT DEF Touch, Types, Numbers
  <2> QED BY <1>13, <2>1, Zenon DEF Touch, process
<1>14. CASE LoseRequest
  <2>1. lost' > 0 BY <1>14, SMT DEF LoseRequest, Types, Numbers
  <2> QED BY <1>14, <2>1, Zenon DEF LoseRequest, process
<1>15. CASE Signal BY <1>15, Zenon DEF Signal, files, bounds
<1>16. CASE (\E s \in Stages : UnitEnds(s)) \/ (\E w \in Workers : WorkerExits(w))
  <2>1. UNCHANGED <<req, sentinel, pc, m, rerr, lost>>
    BY <1>16, Zenon DEF UnitEnds, WorkerExits, files, process, bounds
  <2> QED BY <2>1, Zenon
<1>17. CASE UNCHANGED vars BY <1>17, Zenon DEF vars, files, process, bounds
<1> QED
BY <1>1, <1>2, <1>3, <1>4, <1>5, <1>6, <1>7, <1>8, <1>9, <1>10, <1>11, <1>12, <1>13, <1>14,
   <1>15, <1>16, <1>17 DEF Writes, Next, Steps, Errors, External

-----------------------------------------------------------------------------
\* More failures recorded, or more faults, account for at least as much.
LEMMA Grown == ASSUME NEW f \in Failures, NEW g \in Failures, NEW n \in Nat, NEW o \in Nat, n <= o,
                      \A k \in Stages : f[k] <= g[k],
                      NEW t \in [Stages -> Nat], Covers(f, n, t)
               PROVE  Covers(g, o, t)
BY OperatorAssumption, SMT DEF Covers, Failures

\* A step that observes no failure keeps the account.
LEMMA CountedStep ==
    ASSUME Types, Saved', Numbers', Counted,
           tried' = tried, faults' = faults \/ Fault,
           \/ disk'.failures = disk.failures
           \/ Live /\ (\A k \in Stages : m.failures[k] <= disk'.failures[k]),
           Live' => Live /\ (\A k \in Stages : m.failures[k] <= m'.failures[k])
    PROVE  Counted'
<1>1. faults \in Nat /\ faults' \in Nat /\ faults <= faults'
  BY SMT DEF Types, Numbers, Fault
<1>2. /\ disk.failures \in Failures /\ m.failures \in Failures
      /\ disk'.failures \in Failures /\ m'.failures \in Failures
  BY StateFailures DEF Types, Saved
<1>3. tried \in [Stages -> Nat] BY DEF Types, Numbers
<1>4. Covers(disk'.failures, faults', tried)
  BY <1>1, <1>2, <1>3, Grown, Reflexive, Zenon DEF Counted
<1>5. Live' => Covers(m'.failures, faults', tried)
  BY <1>1, <1>2, <1>3, Grown, Zenon DEF Counted
<1> QED BY <1>4, <1>5 DEF Counted

\* Every observed failure is recorded, or its fault is counted.
LEMMA CountedNext == ASSUME Types, Counted, [Next]_vars PROVE Counted'
<1>0. Saved' /\ Numbers' BY SavedNext, NumbersNext
<1>r. \A k \in Stages : m.failures[k] <= m.failures[k]
  BY StateFailures, Reflexive DEF Types, Saved
<1>1. ASSUME NEW c \in Contracts, Begin(c) PROVE Counted'
  <2>1. CASE Resume(c)
    <3>1. m'.failures = disk.failures BY <2>1, ResumeEffect DEF IsResumed, SameWork
    <3>2. tried' = tried /\ faults' = faults /\ disk' = disk BY <1>1, <2>1 DEF Begin, Resume
    <3> QED BY <3>1, <3>2 DEF Counted
  <2>2. CASE StartNew(c)
    <3>1. tried' = [s \in Stages |-> 0] /\ faults' = faults /\ disk' = disk
      BY <1>1, <2>2 DEF Begin, StartNew
    <3>2. disk'.failures \in Failures /\ m'.failures \in Failures
      BY <1>0, StateFailures DEF Saved
    <3> QED
      BY <1>0, <3>1, <3>2, OperatorAssumption, SMT DEF Counted, Covers, Failures, Numbers
  <2> QED BY <2>1, <2>2, <1>1 DEF Begin
<1>2. CASE Open
  <2>1. /\ tried' = tried /\ (faults' = faults \/ Fault) /\ Live
        /\ disk' \in {disk, m}
        /\ m' = m \/ pc' = "off"
    BY <1>2, Zenon DEF Open, Idle, ghosts, Live
  <2> QED BY <2>1, <1>0, <1>r, CountedStep, Zenon DEF Live
<1>3. CASE StopLeftover \/ EnterStage \/ PersistAttempt \/ Succeed
  <2>1. Kept(m, m') /\ disk' \in {disk, m'} /\ (faults' = faults \/ Fault)
    BY <1>3, WriteEffect, Zenon DEF Writes
  <2>2. tried' = tried
    BY <1>3, Zenon DEF StopLeftover, EnterStage, PersistAttempt, Succeed, ghosts
  <2>3. Live BY <1>3, Zenon DEF StopLeftover, EnterStage, PersistAttempt, Succeed, Live
  <2> QED BY <2>1, <2>2, <2>3, <1>0, CountedStep, Zenon DEF Kept
<1>4. CASE FailAttempt
  <2>1. at \in Stages /\ disk = m BY <1>4, SMT DEF FailAttempt, Types, Attempting, Attempt
  <2>2. m'.failures = [m.failures EXCEPT ![at] = @ + 1]
    BY <1>4, SMT DEF FailAttempt, Keep, Types, Saved, States
  <2>3. tried' = [tried EXCEPT ![at] = @ + 1] BY <1>4 DEF FailAttempt
  <2>4. (disk' = m' /\ faults' = faults) \/ (disk' \in {disk, m'} /\ Fault)
    BY <1>4 DEF FailAttempt, Keep
  <2>5. /\ disk.failures \in Failures /\ m.failures \in Failures /\ tried \in [Stages -> Nat]
        /\ faults \in Nat /\ faults' \in Nat
    BY <1>0, StateFailures, SMT DEF Types, Saved, Numbers
  <2>6. Covers(m.failures, faults, tried) BY <2>1 DEF Counted
  <2>7. Covers(m'.failures, faults, tried')
    BY <2>1, <2>2, <2>3, <2>5, <2>6, OperatorAssumption, SMT DEF Covers, Failures
  <2>8. Covers(m.failures, faults + 1, tried') /\ Covers(m'.failures, faults + 1, tried')
    BY <2>1, <2>2, <2>3, <2>5, <2>6, OperatorAssumption, SMT DEF Covers, Failures
  <2> QED BY <2>1, <2>4, <2>7, <2>8, Zenon DEF Counted, Fault
<1>5. ASSUME NEW w \in Workers, Record(w) PROVE Counted'
  <2>1. Kept(m, m') /\ disk' \in {disk, m'} /\ (faults' = faults \/ Fault)
    BY <1>5, RecordEffect, Zenon
  <2>2. tried' = tried /\ Live BY <1>5 DEF Record, ghosts, Live
  <2> QED BY <2>1, <2>2, <1>0, CountedStep, Zenon DEF Kept
<1>6. ASSUME NEW w \in Workers, RestoreWorker(w) PROVE Counted'
  <2>1. m'.failures = m.failures BY <1>6, SMT DEF RestoreWorker, Types, Saved, States
  <2>2. tried' = tried /\ Live /\ disk' \in {disk, m'} /\ (faults' = faults \/ Fault)
    BY <1>6 DEF RestoreWorker, Live
  <2> QED BY <2>1, <2>2, <1>0, <1>r, CountedStep, Zenon
<1>7. CASE SkipStage
  <2>1. Kept(m, m') BY <1>7, SkipEffect
  <2>2. tried' = tried /\ Live /\ disk' = disk /\ faults' = faults
    BY <1>7 DEF SkipStage, Live, files, bounds, ghosts
  <2> QED BY <2>1, <2>2, <1>0, CountedStep, Zenon DEF Kept
<1>8. CASE Close
  <2>1. tried' = tried /\ Live BY <1>8 DEF Close, Live
  <2> QED
    BY <1>8, <2>1, CloseEffect, <1>0, <1>r, CountedStep, Zenon DEF IsClosed, SameWork, Idle,
       Live
<1>9. CASE Finish
  <2>1. tried' = tried /\ Live BY <1>9 DEF Finish, Live
  <2> QED
    BY <1>9, <2>1, FinishEffect, <1>0, <1>r, CountedStep, Zenon DEF IsFinal, SameWork, Idle,
       Live
<1>10. CASE CloseFails
  <2>1. disk'.failures = disk.failures \/ disk'.failures = m.failures
    BY <1>10, SMT DEF CloseFails, Types, Saved, States
  <2>2. tried' = tried /\ Live /\ Fault /\ pc' = "off"
    BY <1>10 DEF CloseFails, Live, ghosts, Idle
  <2> QED BY <2>1, <2>2, <1>0, <1>r, CountedStep, Zenon DEF Live
<1>11. CASE Cancel
  <2>1. disk'.failures = disk.failures BY <1>11, SMT DEF Cancel, Types, Saved, States
  <2>2. tried' = tried /\ faults' = faults /\ pc' = "cancel" BY <1>11 DEF Cancel, bounds
  <2> QED BY <2>1, <2>2, <1>0, CountedStep, Zenon DEF Live
<1>12. CASE \/ Fence \/ Ready \/ EndStages \/ GiveUp \/ StartUnit \/ StopForRetry
            \/ Interrupt \/ InterruptUnit \/ ClosureError \/ Unfence
            \/ \E w \in Workers : QuiesceWorker(w) \/ QuiesceFails(w) \/ RestoreFails(w)
  <2>1. disk' = disk /\ m' = m /\ tried' = tried /\ (faults' = faults \/ Fault)
    BY <1>12, Zenon DEF Fence, Ready, EndStages, GiveUp, StartUnit, StopForRetry, Interrupt,
       InterruptUnit,
       ClosureError, Unfence, QuiesceWorker, QuiesceFails, RestoreFails, files, bounds, ghosts
  <2>2. Live
    BY <1>12, Zenon DEF Fence, Ready, EndStages, GiveUp, StartUnit, StopForRetry, Interrupt,
       InterruptUnit,
       ClosureError, Unfence, QuiesceWorker, QuiesceFails, RestoreFails, Live
  <2> QED BY <2>1, <2>2, <1>0, <1>r, CountedStep, Zenon
<1>13. CASE RemoveRequest \/ CancelRequest \/ Crash
  <2>1. disk' = disk /\ tried' = tried /\ (faults' = faults \/ Fault) /\ pc' = "off"
    BY <1>13, Zenon DEF RemoveRequest, CancelRequest, Crash, Idle, files, bounds, ghosts
  <2> QED BY <2>1, <1>0, CountedStep, Zenon DEF Live
<1>14. CASE \/ Signal \/ Touch \/ LoseRequest \/ (\E w \in Workers : WorkerExits(w))
            \/ (\E s \in Stages : UnitEnds(s)) \/ UNCHANGED vars
  <2>1. disk' = disk /\ m' = m /\ pc' = pc /\ tried' = tried /\ faults' = faults
    BY <1>14, Zenon DEF Signal, Touch, LoseRequest, WorkerExits, UnitEnds, vars, files,
       process, bounds, ghosts
  <2> QED BY <2>1, <1>0, <1>r, CountedStep, Zenon DEF Live
<1> QED
BY <1>1, <1>2, <1>3, <1>4, <1>5, <1>6, <1>7, <1>8, <1>9, <1>10, <1>11, <1>12, <1>13, <1>14
   DEF Next, Steps, Errors, External

-----------------------------------------------------------------------------
\* A mark leaves a spent stage spent.
LEMMA KeptSpent ==
    ASSUME NEW s \in States, NEW t \in States, Kept(s, t), NEW k \in Stages, Spent(s, k)
    PROVE  Spent(t, k)
<1>1. s.failures[k] \in Nat /\ t.failures[k] \in Nat
  BY StateFailures, OperatorAssumption, SMT DEF Failures
<1> QED BY <1>1, OperatorAssumption, SMT DEF Kept, Spent

\* A mark leaves a finished run finished.
LEMMA KeptDone ==
    ASSUME NEW s \in States, NEW t \in States, Kept(s, t), Done(s)
    PROVE  Done(t)
BY KeptSpent DEF Done

\* Whether stages are left depends on the work alone.
LEMMA SameDone == ASSUME NEW s, NEW t, SameWork(s, t) PROVE Done(t) <=> Done(s)
BY SMT DEF Done, Spent, SameWork

\* Success and failure are recorded only when no stage is left.
LEMMA HonestNext == ASSUME Types, Honest, [Next]_vars PROVE Honest'
<1> USE DEF Honest, Live, Ended
<1>0. disk \in States /\ m \in States /\ disk' \in States /\ m' \in States
  BY SavedNext DEF Types, Saved
<1>1. ASSUME NEW c \in Contracts, Begin(c) PROVE Honest'
  <2>0. disk' = disk /\ pc' = "open" BY <1>1 DEF Begin
  <2>1. CASE Resume(c)
    <3>1. IsResumed(disk, m', req, Phase, Standing) BY <2>1, ResumeEffect
    <3>2. Done(m') <=> Done(disk) BY <3>1, SameDone DEF IsResumed
    <3>3. Ended(m'.result) => Ended(disk.result) BY <3>1, Zenon DEF IsResumed, Standing
    <3> QED BY <2>0, <3>2, <3>3, Zenon DEF Attempt
  <2>2. CASE StartNew(c)
    <3>1. m'.result = "running" BY <2>2, StartEffect
    <3> QED BY <2>0, <3>1, Zenon DEF Attempt
  <2> QED BY <2>1, <2>2, <1>1 DEF Begin
<1>2. CASE Open
  <2>1. \/ disk' = m /\ m' = m /\ pc' \in {"leftover", "fence", "quiesce"}
        \/ disk' \in {disk, m} /\ pc' = "off"
    BY <1>2 DEF Open, Idle
  <2>2. pc = "open" BY <1>2 DEF Open
  <2> QED BY <2>1, <2>2, Zenon DEF Attempt
<1>3. CASE Writes
  <2>1. Kept(m, m') /\ (Done(m) => Done(m')) /\ disk' \in {disk, m'}
    BY <1>3, <1>0, WriteEffect, KeptDone, Zenon
  <2>2. Live /\ (pc' = "leave" => exec' = "error")
    BY <1>3, WriteEffect, Zenon DEF Writes, StopLeftover, EnterStage, PersistAttempt,
       Succeed, FailAttempt
  <2>3. pc' \in {"stage"} \cup Attempt => \A k \in 1 .. at' - 1 : Spent(m', k)
    <3>1. CASE StopLeftover BY <3>1, Zenon DEF StopLeftover, Keep, Leave, Attempt
    <3>2. CASE EnterStage \/ PersistAttempt \/ FailAttempt
      <4>1. at' = at /\ pc \in {"stage"} \cup Attempt
        BY <3>2, Zenon DEF EnterStage, PersistAttempt, FailAttempt, Attempt
      <4>2. \A k \in 1 .. at - 1 : k \in Stages
        BY OperatorAssumption, SMT DEF Types, Numbers, Stages
      <4> QED BY <4>1, <4>2, <2>1, <1>0, KeptSpent, Zenon
    <3>3. CASE Succeed
      <4>1. at \in Stages /\ pc \in Attempt
        BY <3>3, SMT DEF Succeed, Types, Attempting, Attempt
      <4>2. m'.completed = m.completed \cup {at}
        BY <3>3, SMT DEF Succeed, Keep, Types, Saved, States
      <4>3. \A k \in 1 .. at - 1 : k \in Stages /\ Spent(m', k)
        <5>1. \A k \in 1 .. at - 1 : k \in Stages
          BY OperatorAssumption, SMT DEF Types, Numbers, Stages
        <5> QED BY <4>1, <5>1, <2>1, <1>0, KeptSpent, Zenon
      <4>4. Spent(m', at) BY <4>2 DEF Spent
      <4>5. at' \in {at, at + 1} BY <3>3 DEF Succeed
      <4>6. \A k \in 1 .. at' - 1 : k = at \/ k \in 1 .. at - 1
        <5>1. at \in Nat BY SMT DEF Types, Numbers
        <5>2. CASE at' = at BY <5>2
        <5>3. CASE at' = at + 1 BY <5>1, <5>3, SMT
        <5> QED BY <4>5, <5>2, <5>3
      <4> QED BY <4>3, <4>4, <4>6
    <3> QED BY <1>3, <3>1, <3>2, <3>3 DEF Writes
  <2>4. pc' \notin {"unfence", "restore"}
    BY <1>3, Zenon DEF Writes, StopLeftover, EnterStage, PersistAttempt, Succeed,
       FailAttempt, Keep, Leave
  <2> QED BY <2>1, <2>2, <2>3, <2>4, Zenon DEF Kept
<1>4. ASSUME NEW w \in Workers, Record(w) PROVE Honest'
  <2>1. (Done(m) => Done(m')) /\ m'.result = m.result /\ disk' \in {disk, m'}
     BY <1>4, <1>0, RecordEffect, KeptDone, Zenon DEF Kept
  <2>2. pc = "quiesce" /\ (pc' = pc \/ (pc' = "leave" /\ exec' = "error"))
    BY <1>4 DEF Record, Keep, Leave
  <2> QED BY <2>1, <2>2, Zenon DEF Attempt
<1>5. ASSUME NEW w \in Workers, RestoreWorker(w) PROVE Honest'
  <2>1. Kept(m, m')
    BY <1>5, StateFailures, Reflexive, SMT DEF RestoreWorker, Types, Saved, States, Kept
  <2>2. (Done(m) => Done(m')) /\ m'.result = m.result BY <2>1, <1>0, KeptDone DEF Kept
  <2>3. disk' \in {disk, m'} /\ pc = "restore" /\ pc' = pc /\ exec' = exec
    BY <1>5 DEF RestoreWorker
  <2> QED BY <2>2, <2>3, Zenon DEF Attempt
<1>6. CASE SkipStage
  <2>1. at \in m.completed /\ pc = "stage" /\ pc' = pc /\ at' = at + 1 /\ disk' = disk
    BY <1>6 DEF SkipStage, files
  <2>2. m'.completed = m.completed /\ m'.failures = m.failures /\ m'.result = m.result
    BY <1>6, SkipEffect DEF Kept
  <2>3. at \in Nat BY SMT DEF Types, Numbers
  <2>4. \A k \in 1 .. at' - 1 : k = at \/ k \in 1 .. at - 1 BY <2>1, <2>3, SMT
  <2>5. \A k \in 1 .. at' - 1 : Spent(m', k) BY <2>1, <2>2, <2>4 DEF Spent
  <2>6. Done(m') <=> Done(m) BY <2>2 DEF Done, Spent
  <2> QED BY <2>1, <2>2, <2>5, <2>6, Zenon
<1>7. CASE GiveUp
  <2>1. /\ pc = "attempt" /\ pc' = "stage" /\ at' = at + 1 /\ disk' = disk /\ m' = m
        /\ m.failures[at] >= MaxAttempts
    BY <1>7 DEF GiveUp, files
  <2>2. at \in Nat BY SMT DEF Types, Numbers
  <2>3. \A k \in 1 .. at' - 1 : k = at \/ k \in 1 .. at - 1 BY <2>1, <2>2, SMT
  <2>4. \A k \in 1 .. at' - 1 : Spent(m', k) BY <2>1, <2>3 DEF Spent, Attempt
  <2> QED BY <2>1, <2>4, Zenon
<1>8. CASE EndStages
  <2>1. /\ pc = "stage" /\ pc' = "leave" /\ at = StageCount + 1 /\ disk' = disk /\ m' = m
    BY <1>8 DEF EndStages, Leave, files
  <2>2. 1 .. at - 1 = Stages BY <2>1, OperatorAssumption, SMT DEF Stages
  <2>3. Done(m) BY <2>1, <2>2 DEF Done
  <2> QED BY <2>1, <2>3, Zenon DEF Attempt
<1>9. CASE Ready
  <2>1. disk' = disk /\ m' = m /\ pc = "ready" BY <1>9 DEF Ready, files
  <2>2. (pc' = "leave" /\ exec' = m.result) \/ (pc' = "stage" /\ at' = 1)
    BY <1>9, Zenon DEF Ready, Leave
  <2>3. at' = 1 => \A k \in 1 .. at' - 1 : Spent(m', k) BY SMT
  <2> QED BY <2>1, <2>2, <2>3, Zenon DEF Attempt
<1>10. CASE StartUnit \/ StopForRetry
  BY <1>10, Zenon DEF StartUnit, StopForRetry, files, Attempt
<1>11. CASE Fence \/ Interrupt \/ InterruptUnit \/ ClosureError \/ (\E w \in Workers : QuiesceFails(w))
  <2>1. disk' = disk /\ m' = m /\ Live
    BY <1>11, Zenon DEF Fence, Interrupt, InterruptUnit, ClosureError, QuiesceFails, files
  <2>2. pc' = "ready" \/ (pc' = "leave" /\ exec' \in {"interrupted", "error"})
    BY <1>11, Zenon DEF Fence, Interrupt, InterruptUnit, ClosureError, QuiesceFails, Leave
  <2> QED BY <2>1, <2>2, Zenon DEF Attempt
<1>12. CASE Close
  <2>1. PICK t \in States : /\ IsClosed(m, t, Result)
                            /\ \/ disk' = t /\ m' = t /\ pc' = "unfence" /\ exec' = exec
                               \/ disk' \in {disk, t} /\ pc' = "off"
    BY <1>12, CloseEffect, Zenon DEF Idle
  <2>2. (Done(t) <=> Done(m)) /\ t.result = Result BY <2>1, SameDone DEF IsClosed
  <2>3. pc = "leave" BY <1>12 DEF Close
  <2>4. Ended(Result) => Ended(exec) BY Zenon DEF Result
  <2> QED BY <2>1, <2>2, <2>3, <2>4, Zenon DEF Attempt
<1>13. CASE Finish
  <2>1. PICK t \in States : /\ IsFinal(m, t, Outcome, rerr, IF rerr THEN m.result ELSE Outcome)
                            /\ \/ disk' = t /\ m' = t /\ pc' = "finish"
                               \/ disk' \in {disk, t} /\ pc' = "off"
    BY <1>13, FinishEffect, Zenon DEF Idle
  <2>2. (Done(t) <=> Done(m)) /\ t.result \in {m.result, Outcome}
    BY <2>1, SameDone, Zenon DEF IsFinal
  <2>3. pc = "restore" BY <1>13 DEF Finish
  <2>4. Ended(Outcome) => Ended(exec) BY Zenon DEF Outcome
  <2> QED BY <2>1, <2>2, <2>3, <2>4, Zenon DEF Attempt
<1>14. CASE CloseFails
  <2>1. disk' = disk \/ (SameWork(m, disk') /\ disk'.result = m.result)
    BY <1>14, SMT DEF CloseFails, Types, Saved, States, SameWork
  <2>2. pc' = "off" /\ pc = "leave" BY <1>14 DEF CloseFails, Idle
  <2> QED BY <2>1, <2>2, SameDone, Zenon DEF Attempt
<1>15. CASE Unfence \/ (\E w \in Workers : QuiesceWorker(w) \/ RestoreFails(w))
  BY <1>15, Zenon DEF Unfence, QuiesceWorker, RestoreFails, files, Attempt
<1>16. CASE Cancel
  <2>1. disk'.result = "cancelled" /\ pc' = "cancel"
    BY <1>16, SMT DEF Cancel, Types, Saved, States
  <2> QED BY <2>1, Zenon DEF Attempt
<1>17. CASE RemoveRequest \/ CancelRequest \/ Crash
  <2>1. disk' = disk /\ pc' = "off"
    BY <1>17, Zenon DEF RemoveRequest, CancelRequest, Crash, Idle, files
  <2> QED BY <2>1, Zenon DEF Attempt
<1>18. CASE \/ Signal \/ Touch \/ LoseRequest \/ (\E w \in Workers : WorkerExits(w))
            \/ (\E s \in Stages : UnitEnds(s)) \/ UNCHANGED vars
  <2>1. disk' = disk /\ m' = m /\ pc' = pc /\ exec' = exec /\ at' = at
    BY <1>18, Zenon DEF Signal, Touch, LoseRequest, WorkerExits, UnitEnds, vars, files,
       process
  <2> QED BY <2>1, Zenon
<1> QED
BY <1>1, <1>2, <1>3, <1>4, <1>5, <1>6, <1>7, <1>8, <1>9, <1>10, <1>11, <1>12, <1>13, <1>14,
   <1>15, <1>16, <1>17, <1>18 DEF Writes, Next, Steps, Errors, External

-----------------------------------------------------------------------------
\* A state of the same request with at least as much done.
Advances(s, t) ==
    /\ t.request = s.request
    /\ Done(s) => Done(t)
    /\ s.phase # "none" => t.phase # "none"

\* A step that settles nothing keeps what was answered.
LEMMA AnsweredStep ==
    ASSUME Named, Answered, Live, pc # "open",
           UNCHANGED <<req, issued, settled>>,
           disk' = disk \/ Advances(m, disk'),
           Live' => pc' # "open" /\ Advances(m, m')
    PROVE  Answered'
<1> USE DEF Answered
<1>1. m.phase # "none" BY DEF Named, Ran
<1>2. disk'.request = m.request BY Zenon DEF Advances
<1>3. Live' => m'.request = m.request /\ (Done(m) => Done(m')) BY Zenon DEF Advances
<1>4. req \in settled => disk'.phase # "none" /\ Done(disk') BY <1>1, Zenon DEF Advances
<1> QED BY <1>2, <1>3, <1>4, Zenon

\* A step that records a result settles the run's own request.
LEMMA SettledStep ==
    ASSUME Named, Answered, Honest', Live, pc # "open",
           UNCHANGED <<req, issued>>,
           settled' = settled \cup Settle(disk'),
           NEW t, Advances(m, t), disk' \in {disk, t},
           Live' => pc' # "open" /\ disk' = t /\ m' = t
    PROVE  Answered'
<1> USE DEF Answered
<1>1. m.phase # "none" /\ disk.phase # "none" BY DEF Named, Ran
<1>2. disk'.request = m.request /\ t.request = m.request BY Zenon DEF Advances
<1>3. \A q \in settled' : q \in settled \/ (q = m.request /\ Done(disk'))
  BY <1>2, Zenon DEF Settle, Honest, Ended
<1>4. settled' \subseteq 1 .. issued BY <1>3, Zenon
<1>5. disk'.phase # "none" BY <1>1, Zenon DEF Advances
<1>6. req \in settled' => req = m.request /\ Done(disk')
  <2>1. CASE req \in settled BY <2>1, Zenon DEF Advances
  <2>2. CASE req \notin settled BY <2>2, <1>3
  <2> QED BY <2>1, <2>2
<1>7. m.request \in settled' => Done(t) \/ disk' # t
  <2>1. CASE m.request \in settled BY <2>1 DEF Advances
  <2>2. CASE m.request \notin settled BY <2>2, <1>3
  <2> QED BY <2>1, <2>2
<1> QED BY <1>2, <1>4, <1>5, <1>6, <1>7, Zenon

\* A mark advances the run.
LEMMA KeptAdvances ==
    ASSUME NEW s \in States, NEW t \in States, Kept(s, t)
    PROVE  Advances(s, t)
BY KeptDone, Zenon DEF Kept, Advances

\* An answered request has nothing left to execute.
LEMMA AnsweredNext == ASSUME Types, Named, Honest, Answered, [Next]_vars PROVE Answered'
<1>0. disk \in States /\ m \in States /\ disk' \in States /\ m' \in States
  BY SavedNext DEF Types, Saved
<1>h. Honest' BY HonestNext
<1>1. ASSUME NEW c \in Contracts, Begin(c) PROVE Answered'
  <2>0. /\ disk' = disk /\ pc' = "open" /\ settled' = settled
        /\ issued \in Nat /\ req \in {0, issued} /\ settled \subseteq 1 .. issued
    BY <1>1 DEF Begin, Answered
  <2>1. CASE Resume(c)
    <3>1. IsResumed(disk, m', req, Phase, Standing) BY <2>1, ResumeEffect
    <3>2. Done(m') <=> Done(disk) BY <3>1, SameDone DEF IsResumed
    <3>3. req' = req /\ issued' = issued /\ m'.request = req
      BY <2>1, <3>1 DEF Resume, IsResumed
    <3>4. req # 0 BY <2>1 DEF Resume, Resumable
    <3>5. req \in 1 .. issued BY <2>0, <3>4, SMT
    <3> QED BY <2>0, <3>2, <3>3, <3>5, Zenon DEF Answered, Live
  <2>2. CASE StartNew(c)
    <3>1. m'.request = req' /\ req' = Requested BY <2>2, StartEffect
    <3>2. req \notin settled
      <4>1. req # 0 => Resumable \/ ~(disk.phase # "none" /\ disk.request = req)
        <5>1. disk.phase \in Phases BY <1>0, SMT DEF States
        <5> QED BY <5>1, Zenon DEF Resumable, Phases, Terminal
      <4>2. 0 \notin settled BY <2>0, SMT
      <4> QED BY <2>2, <4>1, <4>2, Zenon DEF StartNew, Answered
    <3>3. issued' \in Nat /\ req' = issued' /\ req' \notin settled /\ settled \subseteq 1 .. issued'
          /\ req' \in 1 .. issued'
      <4>1. CASE req = 0
        <5>1. req' = issued + 1 /\ issued' = issued + 1
          BY <2>2, <4>1 DEF StartNew, Requested
        <5> QED BY <2>0, <5>1, SMT
      <4>2. CASE req # 0
        <5>1. req' = req /\ issued' = issued BY <2>2, <4>2 DEF StartNew, Requested
        <5> QED BY <2>0, <3>2, <4>2, <5>1, SMT
      <4> QED BY <4>1, <4>2
    <3> QED BY <2>0, <3>1, <3>3, Zenon DEF Answered, Live
  <2> QED BY <2>1, <2>2, <1>1 DEF Begin
<1>2. CASE Open
  <2>1. \/ disk' = m /\ m' = m /\ pc' \in {"leftover", "fence", "quiesce"}
        \/ disk' \in {disk, m} /\ pc' = "off"
    BY <1>2 DEF Open, Idle
  <2>2. UNCHANGED <<req, issued, settled>> /\ pc = "open" BY <1>2 DEF Open, ghosts
  <2>3. m.phase # "none" BY <2>2, Zenon DEF Named, Live, Ran
  <2> QED BY <2>1, <2>2, <2>3, Zenon DEF Answered, Live
<1>3. CASE Writes
  <2>1. Advances(m, m') /\ disk' \in {disk, m'}
    BY <1>3, <1>0, WriteEffect, KeptAdvances, Zenon
  <2>2. UNCHANGED <<req, issued, settled>> /\ Live /\ pc # "open" /\ pc' # "open"
    BY <1>3, Zenon DEF Writes, StopLeftover, EnterStage, PersistAttempt, Succeed,
       FailAttempt,
                       Keep, Leave, Live, ghosts
  <2> QED BY <2>1, <2>2, AnsweredStep, Zenon
<1>4. ASSUME NEW w \in Workers, Record(w) PROVE Answered'
  <2>1. Advances(m, m') /\ (disk' = disk \/ disk' = m') /\ pc' \in {"quiesce", "leave"}
    <3>1. Kept(m, m') BY <1>4, RecordEffect
    <3>2. disk' = disk \/ disk' = m' BY <1>4, RecordEffect, Zenon
    <3>3. pc' \in {"quiesce", "leave"} BY <1>4 DEF Record, Keep, Leave
    <3> QED BY <1>0, <3>1, <3>2, <3>3, KeptAdvances
  <2>2. UNCHANGED <<req, issued, settled>> /\ pc = "quiesce" BY <1>4 DEF Record, ghosts
  <2> QED BY <2>1, <2>2, AnsweredStep, Zenon DEF Live
<1>5. ASSUME NEW w \in Workers, RestoreWorker(w) PROVE Answered'
  <2>1. Kept(m, m')
    BY <1>5, StateFailures, Reflexive, SMT DEF RestoreWorker, Types, Saved, States, Kept
  <2>2. Advances(m, m') BY <1>0, <2>1, KeptAdvances
  <2>3. UNCHANGED <<req, issued, settled>> /\ disk' \in {disk, m'} /\ pc = "restore" /\ pc' = pc
    BY <1>5 DEF RestoreWorker
  <2> QED BY <2>2, <2>3, AnsweredStep, Zenon DEF Live
<1>6. CASE SkipStage
  <2>1. Advances(m, m') BY <1>0, <1>6, SkipEffect, KeptAdvances
  <2>2. UNCHANGED <<req, issued, settled>> /\ disk' = disk /\ pc = "stage" /\ pc' = pc
    BY <1>6 DEF SkipStage, files, bounds, ghosts
  <2> QED BY <2>1, <2>2, AnsweredStep, Zenon DEF Live
<1>7. CASE \/ Fence \/ Ready \/ EndStages \/ GiveUp \/ StartUnit \/ StopForRetry
           \/ Interrupt \/ InterruptUnit \/ ClosureError \/ Unfence
           \/ \E w \in Workers : QuiesceWorker(w) \/ QuiesceFails(w) \/ RestoreFails(w)
  <2>1. disk' = disk /\ m' = m /\ UNCHANGED <<req, issued, settled>>
    BY <1>7, Zenon DEF Fence, Ready, EndStages, GiveUp, StartUnit, StopForRetry, Interrupt,
       InterruptUnit,
       ClosureError, Unfence, QuiesceWorker, QuiesceFails, RestoreFails, files, bounds, ghosts
  <2>2. Live /\ pc # "open"
    BY <1>7, Zenon DEF Fence, Ready, EndStages, GiveUp, StartUnit, StopForRetry, Interrupt,
       InterruptUnit,
       ClosureError, Unfence, QuiesceWorker, QuiesceFails, RestoreFails, Live
  <2>3. pc' # "open"
    BY <1>7, <2>2, Zenon DEF Fence, Ready, EndStages, GiveUp, StartUnit, StopForRetry,
       Interrupt, InterruptUnit,
       ClosureError, Unfence, QuiesceWorker, QuiesceFails, RestoreFails, Leave, process
  <2> QED BY <2>1, <2>2, <2>3, AnsweredStep, Zenon DEF Advances
<1>8. CASE Close
  <2>1. PICK t \in States : /\ IsClosed(m, t, Result)
                            /\ \/ disk' = t /\ m' = t /\ pc' = "unfence"
                               \/ disk' \in {disk, t} /\ pc' = "off"
    BY <1>8, CloseEffect, Zenon DEF Idle
  <2>2. Advances(m, t) BY <2>1, SameDone DEF IsClosed, Advances
  <2>3. UNCHANGED <<req, issued>> /\ settled' = settled \cup Settle(disk') /\ pc = "leave"
    BY <1>8 DEF Close
  <2> QED BY <1>h, <2>1, <2>2, <2>3, SettledStep, Zenon DEF Live
<1>9. CASE Finish
  <2>1. PICK t \in States : /\ IsFinal(m, t, Outcome, rerr, IF rerr THEN m.result ELSE Outcome)
                            /\ \/ disk' = t /\ m' = t /\ pc' = "finish"
                               \/ disk' \in {disk, t} /\ pc' = "off"
    BY <1>9, FinishEffect, Zenon DEF Idle
  <2>2. Outcome # "none" BY <1>9, Zenon DEF Outcome, Finish, Named
  <2>3. Advances(m, t) BY <2>1, <2>2, SameDone DEF IsFinal, Advances
  <2>4. UNCHANGED <<req, issued>> /\ settled' = settled \cup Settle(disk') /\ pc = "restore"
    BY <1>9 DEF Finish, bounds
  <2> QED BY <1>h, <2>1, <2>3, <2>4, SettledStep, Zenon DEF Live
<1>10. CASE CloseFails
  <2>1. disk' = disk \/ (SameWork(m, disk') /\ disk'.request = m.request /\ disk'.phase = "interrupted")
    BY <1>10, SMT DEF CloseFails, Types, Saved, States, SameWork
  <2>2. UNCHANGED <<req, issued, settled>> /\ pc = "leave" /\ pc' = "off"
    BY <1>10 DEF CloseFails, ghosts, Idle
  <2>3. disk' = disk \/ Advances(m, disk') BY <2>1, SameDone, Zenon DEF Advances
  <2> QED BY <2>2, <2>3, AnsweredStep, Zenon DEF Live
<1>11. CASE Cancel
  <2>1. SameWork(disk, disk') /\ disk'.request = disk.request /\ disk'.phase = "cancelled"
    BY <1>11, SMT DEF Cancel, Types, Saved, States, SameWork
  <2>2. UNCHANGED <<req, issued, settled>> /\ pc' = "cancel" BY <1>11 DEF Cancel, bounds
  <2>3. Done(disk') <=> Done(disk) BY <2>1, SameDone
  <2> QED BY <2>1, <2>2, <2>3, Zenon DEF Answered, Live
<1>12. CASE RemoveRequest \/ CancelRequest \/ Crash
  <2>1. disk' = disk /\ settled' = settled /\ issued' = issued /\ req' \in {req, 0} /\ pc' = "off"
    BY <1>12, Zenon DEF RemoveRequest, CancelRequest, Crash, Idle, files, bounds, ghosts
  <2>2. 0 \notin settled BY SMT DEF Answered
  <2> QED BY <2>1, <2>2, Zenon DEF Answered, Live
<1>13. CASE Touch \/ LoseRequest
  <2>1. disk' = disk /\ m' = m /\ pc' = pc /\ settled' = settled
    BY <1>13, Zenon DEF Touch, LoseRequest, process, ghosts
  <2>2. /\ issued' \in Nat /\ req' \in {0, issued'} /\ req' \notin settled /\ settled \subseteq 1 .. issued'
        /\ Live => m.request \in 1 .. issued'
    BY <1>13, SMT DEF Touch, LoseRequest, Answered
  <2> QED BY <2>1, <2>2, Zenon DEF Answered, Live
<1>14. CASE \/ Signal \/ (\E w \in Workers : WorkerExits(w))
            \/ (\E s \in Stages : UnitEnds(s)) \/ UNCHANGED vars
  <2>1. disk' = disk /\ m' = m /\ pc' = pc /\ UNCHANGED <<req, issued, settled>>
    BY <1>14, Zenon DEF Signal, WorkerExits, UnitEnds, vars, files, process, bounds, ghosts
  <2> QED BY <2>1, Zenon DEF Answered, Live
<1> QED
BY <1>1, <1>2, <1>3, <1>4, <1>5, <1>6, <1>7, <1>8, <1>9, <1>10, <1>11, <1>12, <1>13, <1>14
   DEF Writes, Next, Steps, Errors, External

\* Units start only where the checkpoints on disk call for it.
LEMMA JustifiedStep == ASSUME Types, Answered, [Next]_vars
  PROVE \A s \in active' \ active : /\ s \notin disk.completed
                                    /\ disk.failures[s] < MaxAttempts
                                    /\ m.request \notin settled
<1>1. CASE StartUnit
  <2>1. /\ disk = m /\ at \in Stages \ m.completed /\ m.failures[at] < MaxAttempts /\ Live
    BY <1>1, Zenon DEF StartUnit, Types, Attempting, Attempt, Live
  <2>2. m.failures[at] \in Nat
    BY <2>1, StateFailures, OperatorAssumption, SMT DEF Types, Saved, Failures
  <2>3. ~Done(m) BY <2>1, <2>2, OperatorAssumption, SMT DEF Done, Spent
  <2>4. m.request \notin settled BY <2>1, <2>3 DEF Answered
  <2>5. active' \ active \subseteq {at} BY <1>1 DEF StartUnit
  <2> QED BY <2>1, <2>4, <2>5
<1>2. CASE ~StartUnit
  <2>1. active' \subseteq active
    <3>1. CASE \E c \in Contracts : Begin(c) BY <3>1 DEF Begin, systemd
    <3>2. CASE StopLeftover \/ StopForRetry \/ Close \/ CloseFails \/ InterruptUnit \/ ClosureError
      BY <3>2, SMT DEF StopLeftover, StopForRetry, Close, CloseFails, InterruptUnit,
         ClosureError
    <3>3. CASE \E w \in Workers : Record(w) \/ QuiesceWorker(w) \/ QuiesceFails(w)
                                 \/ RestoreWorker(w) \/ RestoreFails(w) \/ WorkerExits(w)
      BY <3>3, Zenon DEF Record, QuiesceWorker, QuiesceFails, RestoreWorker, RestoreFails,
         WorkerExits, systemd
    <3>4. CASE Open \/ Fence \/ Ready \/ SkipStage \/ EndStages \/ EnterStage \/ GiveUp
            \/ PersistAttempt \/ Interrupt \/ Succeed \/ FailAttempt \/ Unfence \/ Finish \/ RemoveRequest
      BY <3>4, Zenon DEF Open, Fence, Ready, SkipStage, EndStages, EnterStage, GiveUp,
         PersistAttempt,
                         Interrupt, Succeed, FailAttempt, Unfence, Finish, RemoveRequest, systemd
    <3>5. CASE Cancel \/ CancelRequest \/ Crash \/ Signal \/ Touch \/ LoseRequest \/ UNCHANGED vars
      BY <3>5, Zenon DEF Cancel, CancelRequest, Crash, Signal, Touch, LoseRequest, vars,
         systemd
    <3>6. CASE \E s \in Stages : UnitEnds(s) BY <3>6, SMT DEF UnitEnds
    <3> QED BY <1>2, <3>1, <3>2, <3>3, <3>4, <3>5, <3>6 DEF Next, Steps, Errors, External
  <2> QED BY <2>1
<1> QED BY <1>1, <1>2

-----------------------------------------------------------------------------
\* The invariant holds at first.
LEMMA InitInv == Init => IInv
<1> SUFFICES ASSUME Init PROVE IInv OBVIOUS
<1>1. Types
  <2>1. Flags BY Zenon DEF Init, Flags
  <2>2. Saved BY NoStateTyped DEF Init, Saved
  <2>3. Numbers BY OperatorAssumption, SMT DEF Init, Numbers
  <2>4. Names BY SMT DEF Init, Names, PCs
  <2>5. Attempting BY SMT DEF Init, Attempting, Attempt, Live
  <2> QED BY <2>1, <2>2, <2>3, <2>4, <2>5 DEF Types
<1>2. ~Live /\ pc = "off" BY DEF Init, Live
<1>3. NoState.phase = "none" /\ NoState.result = "none" BY SMT DEF NoState, NewRun
<1>4. Listed BY <1>2, SMT DEF Init, Listed
<1>5. Prepared BY <1>2, SMT DEF Prepared, Attempt
<1>6. Watched BY DEF Init, Watched
<1>7. Named BY <1>2, <1>3, Zenon DEF Init, Named
<1>8. Recoverable BY <1>2, Zenon DEF Init, Recoverable, FenceHasRecovery
<1>9. Counted
  <2>1. disk.failures \in Failures BY <1>1, StateFailures DEF Types, Saved
  <2> QED BY <1>2, <2>1, OperatorAssumption, SMT DEF Init, Counted, Covers, Failures
<1>10. Honest BY <1>2, <1>3, Zenon DEF Init, Honest, Ended, Attempt
<1>11. Answered BY <1>2, SMT DEF Init, Answered
<1> QED BY <1>1, <1>4, <1>5, <1>6, <1>7, <1>8, <1>9, <1>10, <1>11 DEF IInv

\* Every step preserves it.
LEMMA Preserved == IInv /\ [Next]_vars => IInv'
BY TypesNext, ListedNext, PreparedNext, WatchedNext, NamedNext, RecoverableNext,
   CountedNext, HonestNext, AnsweredNext DEF IInv

\* The inductive invariant holds.
LEMMA Inductive == Spec => []IInv
BY InitInv, Preserved, PTL DEF Spec

-----------------------------------------------------------------------------
\* state.json, the memory of the process and everything it drives keep their types.
THEOREM TypeCorrect == Spec => []TypeOK
<1>1. IInv => TypeOK BY DEF IInv, Types, Flags, Saved, Numbers, Names, TypeOK
<1> QED BY Inductive, <1>1, PTL

\* Wherever run_with_ready (src/operator.rs) stops, crashes or fails, every worker it
\* took down and has not restored is listed in state.json.
THEOREM WorkersKept == Spec => []WorkersRemembered
<1>1. IInv => WorkersRemembered BY DEF IInv, Listed, WorkersRemembered
<1> QED BY Inductive, <1>1, PTL

\* A stage unit, watched or left behind, runs under the published fence, beside no
\* worker of its policy, and is the one that state.json names.
THEOREM NoWorkerBesideStage == Spec => []StageExclusion
<1>1. IInv => StageExclusion
  <2>1. IInv /\ active # {} => disk.contract # NoContract
    BY OperatorAssumption, Zenon DEF IInv, Watched
  <2> QED BY <2>1, Zenon DEF IInv, Watched, Awake, StageExclusion
<1> QED BY Inductive, <1>1, PTL

\* A published fence always has a marker that brings the operator back, unless
\* somebody else removed it.
THEOREM FenceRecovers == Spec => []FenceHasRecovery
<1>1. IInv => FenceHasRecovery BY DEF IInv, Recoverable
<1> QED BY Inductive, <1>1, PTL

\* The retry budget holds across interruptions: only crashes and failed saves can add
\* an attempt, one each.
THEOREM BudgetKept == Spec => []BudgetAcrossCrashes
<1>1. ASSUME IInv PROVE BudgetAcrossCrashes
  <2>1. disk.failures \in Failures /\ tried \in [Stages -> Nat] /\ faults \in Nat
    BY <1>1, StateFailures, SMT DEF IInv, Types, Saved, Numbers
  <2>2. Covers(disk.failures, faults, tried) BY <1>1 DEF IInv, Counted
  <2> QED BY <2>1, <2>2, OperatorAssumption, SMT DEF Covers, Failures, BudgetAcrossCrashes
<1> QED BY Inductive, <1>1, PTL

\* A stage starts only when the checkpoints on disk call for it, and never for a
\* request whose run already recorded success or failure.
THEOREM StartsJustified == Spec => StartJustified
<1>1. IInv /\ [Next]_vars =>
         [\A s \in active' \ active :
              /\ s \notin disk.completed
              /\ disk.failures[s] < MaxAttempts
              /\ m.request \notin settled]_vars
  BY JustifiedStep DEF IInv
<1> QED BY Inductive, <1>1, PTL DEF Spec, StartJustified
=============================================================================
