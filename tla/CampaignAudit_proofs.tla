------------------------ MODULE CampaignAudit_proofs -----------------------
(***************************************************************************)
(* Theorems about the audits of a packet.  A fingerprint is compared for   *)
(* equality only, and what it was computed from may recur; the generations *)
(* in it do not.  The inductive invariant says what each record that may   *)
(* come back later, an input, a report, an audit, knows of the changes     *)
(* observed when it was made.                                              *)
(***************************************************************************)
EXTENDS CampaignAudit, TLAPS

States == {"OPEN"} \cup Closed

Types ==
    /\ DOMAIN ps = DOMAIN NewJournal
    /\ forge \in [PRs -> [state : States, text : Texts, checks : Checks]]
    /\ prs \in [PRs -> [state : States, text : Texts, checks : Checks, generation : Nat]]
    /\ handoff \in Evidence \cup {None}
    /\ epoch \in [PRs -> Nat] /\ losses \in Nat
    /\ ps.observed \in [PRs -> Feedbacks \cup {None}]

\* Generations count what was observed; a collected record has none.
GenerationInv ==
    /\ \A p \in PRs : epoch[p] = IF ps.observed[p] = None THEN 0 ELSE ps.observed[p].generation
    /\ \A p \in PRs : prs[p].generation <= epoch[p]
    /\ ps.lossGeneration = losses

\* An observation that shows what b knows.
Shows(obs, b) ==
    /\ b \in Bases
    /\ \A p \in PRs : obs.prs[p].feedback.generation = b.epoch[p]
    /\ obs.generation = b.losses /\ obs.evidence = b.evidence

Basis == [epoch |-> epoch, losses |-> losses, evidence |-> ps.obs.evidence]

\* The journal, once it was refreshed.
JournalInv ==
    \/ ps.version = None /\ ps.delivered = None /\ ps.pending = None
    \/ /\ Shows(ps.obs, Basis) /\ ps.version.obs = ps.obs
       /\ ps.dependencyVersion = [evidence |-> ps.obs.evidence, generation |-> losses]

\* An input, a delivered one and a report show what they were based on.
InputInv ==
    /\ ps.pending # None => ps.pending.version.obs = ps.pending.obs
    /\ ps.delivered # None => ps.delivered.obs = ps.deliveredObs
    /\ \A input \in posted : Shows(input.version.obs, input.basis)
    /\ report # None => Shows(report.event.obs, report.basis)

\* A historical audit may be of a record that was collected and not yet refreshed,
\* and so be older than what it is based on, never newer.
HistoryInv ==
    audit # None =>
        /\ audit.pr \in PRs /\ audit.basis \in Bases
        /\ audit.feedback.generation \in Nat
        /\ audit.feedback.generation <= audit.basis.epoch[audit.pr]
        /\ audit.basis.epoch[audit.pr] <= epoch[audit.pr]
        /\ audit.dependencies =
              [evidence |-> audit.basis.evidence, generation |-> audit.basis.losses]

\* What is audited is what the adopted audit knew.
AuditedInv ==
    /\ basis \in [PRs -> Bases \cup {None}]
    /\ \A p \in PRs :
        /\ ps.auditedFeedback[p] # None =>
              basis[p] # None /\ basis[p].epoch[p] = ps.auditedFeedback[p].generation
        /\ HasProducers /\ ps.auditedDependencies[p] # None =>
              /\ basis[p].losses = ps.auditedDependencies[p].generation
              /\ basis[p].evidence = ps.auditedDependencies[p].evidence

\* A waiting report that was adopted is still the status.
WaitingInv ==
    /\ owed => Waiting(ps.status)
    /\ ps.terminal => ~Waiting(ps.status)

IInv == /\ Types /\ GenerationInv /\ JournalInv /\ InputInv
        /\ HistoryInv /\ AuditedInv /\ WaitingInv

-----------------------------------------------------------------------------
(* What the operators do.                                                  *)

\* The journal's pull request is the one collected, with a generation of its own.
LEMMA RetainedFacts ==
  ASSUME Types, GenerationInv, NEW p \in PRs
  PROVE  LET now == Retained(p)
         IN  /\ now \in [state : States, text : Texts, checks : Checks, generation : Nat]
             /\ now.state = prs[p].state /\ now.text = prs[p].text
             /\ now.generation >= epoch[p]
             /\ now.generation = IF ps.observed[p] # None /\ ps.observed[p].raw # Raw(prs[p])
                                 THEN epoch[p] + 1 ELSE epoch[p]
<1> DEFINE g == IF ps.observed[p] = None THEN 0
                ELSE IF ps.observed[p].raw # Raw(prs[p]) THEN ps.observed[p].generation + 1
                ELSE ps.observed[p].generation
<1>1. epoch[p] \in Nat /\ ps.observed[p] \in Feedbacks \cup {None}
      /\ epoch[p] = IF ps.observed[p] = None THEN 0 ELSE ps.observed[p].generation
  BY DEF Types, GenerationInv
<1>2. prs[p] \in [state : States, text : Texts, checks : Checks, generation : Nat]
  BY DEF Types
<1>3. g \in Nat /\ g = IF ps.observed[p] # None /\ ps.observed[p].raw # Raw(prs[p])
                       THEN epoch[p] + 1 ELSE epoch[p]
  BY <1>1
<1>4. Retained(p) = [prs[p] EXCEPT !.generation = g]
  BY DEF Retained
<1> HIDE DEF g
<1> QED
  BY <1>1, <1>2, <1>3, <1>4

LEMMA RefreshDoes ==
  ASSUME Types, Refresh
  PROVE  /\ DOMAIN ps' = DOMAIN NewJournal
         /\ ps'.obs = Observation /\ ps'.version.obs = Observation
         /\ ps'.lossGeneration = LossGeneration /\ ps'.dependencyVersion = DependencyVersion
         /\ ps'.pending = ps.pending /\ ps'.delivered = ps.delivered
         /\ ps'.deliveredObs = ps.deliveredObs
         /\ ps'.recovery = ps.recovery /\ ps'.recheck = ps.recheck
         /\ ps'.rechecked = ps.rechecked /\ ps'.idle = ps.idle
         /\ ps'.generation = ps.generation
         /\ ps'.version = EventVersion(Observation, ps'.progress, ps.recovery, ps.recheck)
         /\ ps'.progress = IF ReportCurrent /\ Complete /\ report.status = "ready_for_work"
                           THEN report.id ELSE ps.progress
         /\ ps'.status = IF ReportCurrent THEN report ELSE ps.status
         /\ ps'.terminal => ~Waiting(ps'.status)
<1> USE DEF Types, NewJournal
<1>1. ps' = Refreshed
  BY DEF Refresh
<1>2. DOMAIN Refreshed = DOMAIN NewJournal
  BY DEF Refreshed
<1>3. Refreshed.obs = Observation
  BY DEF Refreshed
<1>4. Refreshed.version.obs = Observation
  BY DEF Refreshed, EventVersion
<1>5. Refreshed.lossGeneration = LossGeneration /\ Refreshed.dependencyVersion = DependencyVersion
  BY DEF Refreshed
<1>6. /\ Refreshed.pending = ps.pending /\ Refreshed.delivered = ps.delivered
      /\ Refreshed.deliveredObs = ps.deliveredObs
  BY DEF Refreshed
<1>7. Refreshed.status = IF ReportCurrent THEN report ELSE ps.status
  BY DEF Refreshed
<1>9. /\ Refreshed.recovery = ps.recovery /\ Refreshed.recheck = ps.recheck
      /\ Refreshed.rechecked = ps.rechecked /\ Refreshed.idle = ps.idle
      /\ Refreshed.generation = ps.generation
  BY DEF Refreshed
<1>10. Refreshed.progress = IF ReportCurrent /\ Complete /\ report.status = "ready_for_work"
                            THEN report.id ELSE ps.progress
  BY DEF Refreshed
<1>11. Refreshed.version =
          EventVersion(Observation, Refreshed.progress, ps.recovery, ps.recheck)
  BY <1>10 DEF Refreshed
<1>8. Refreshed.terminal => ~Waiting(Refreshed.status)
  BY DEF Refreshed, OwesReport
<1> HIDE DEF Types, NewJournal
<1> QED
  BY <1>1, <1>2, <1>3, <1>4, <1>5, <1>6, <1>7, <1>8, <1>9, <1>10, <1>11


Adopted(p) == ReportAudits(p) \/ HistoricalAudits(p)

LEMMA RefreshAudits ==
  ASSUME Types, Refresh, NEW p \in PRs
  PROVE  /\ ps'.observed[p] = [raw |-> Raw(Retained(p)), generation |-> Retained(p).generation]
         /\ ps'.auditedFeedback[p] = IF Adopted(p) THEN Feedback(Retained(p))
                                     ELSE ps.auditedFeedback[p]
         /\ Adopted(p) => ps'.auditedDependencies[p] = DependencyVersion
         /\ ~Adopted(p) => ps'.auditedDependencies[p] \in {ps.auditedDependencies[p], None}
         /\ prs'[p] = Retained(p)
         /\ epoch'[p] = IF ps.observed[p] # None /\ ps.observed[p].raw # Raw(prs[p])
                        THEN epoch[p] + 1 ELSE epoch[p]
         /\ basis'[p] = IF HistoricalAudits(p) THEN audit.basis
                        ELSE IF ReportAudits(p) THEN report.basis ELSE basis[p]
<1> USE DEF Types, NewJournal
<1>1. ps' = Refreshed
  BY DEF Refresh
<1>2. /\ Refreshed.observed =
             [q \in PRs |-> [raw |-> Raw(Retained(q)), generation |-> Retained(q).generation]]
  BY DEF Refreshed
<1>3. Refreshed.auditedFeedback =
         [q \in PRs |-> IF Adopted(q) THEN Feedback(Retained(q)) ELSE ps.auditedFeedback[q]]
  BY DEF Refreshed, Adopted
<1>4. Refreshed.auditedDependencies =
         [q \in PRs |-> IF Adopted(q) THEN DependencyVersion
                        ELSE IF Complete THEN ps.auditedDependencies[q] ELSE None]
  BY DEF Refreshed, Adopted
<1>5. /\ prs'[p] = Retained(p)
      /\ epoch'[p] = IF ps.observed[p] # None /\ ps.observed[p].raw # Raw(prs[p])
                     THEN epoch[p] + 1 ELSE epoch[p]
      /\ basis'[p] = IF HistoricalAudits(p) THEN audit.basis
                     ELSE IF ReportAudits(p) THEN report.basis ELSE basis[p]
  BY DEF Refresh
<1> HIDE DEF Types, NewJournal
<1> QED
  BY <1>1, <1>2, <1>3, <1>4, <1>5


\* What a refresh observes, it shows.
LEMMA RefreshShows ==
  ASSUME Types, GenerationInv, Refresh
  PROVE  /\ Types' /\ GenerationInv' /\ Shows(Observation, Basis')
         /\ DependencyVersion = [evidence |-> handoff, generation |-> losses']
         /\ \A p \in PRs : epoch'[p] \in Nat /\ epoch'[p] >= epoch[p] /\ epoch'[p] = Retained(p).generation
<1>1. losses' = LossGeneration /\ losses' \in Nat
  BY DEF Refresh, LossGeneration, GenerationInv, Types
<1>2. ASSUME NEW p \in PRs
      PROVE  /\ ps'.observed[p] = [raw |-> Raw(Retained(p)), generation |-> Retained(p).generation]
             /\ ps'.observed[p] \in Feedbacks /\ ps'.observed[p] # None
             /\ ps'.observed[p].generation = epoch'[p]
             /\ prs'[p] = Retained(p)
             /\ Retained(p) \in [state : States, text : Texts, checks : Checks, generation : Nat]
             /\ epoch'[p] \in Nat /\ epoch'[p] >= epoch[p] /\ epoch'[p] = Retained(p).generation
  <2>1. Retained(p) \in [state : States, text : Texts, checks : Checks, generation : Nat]
        /\ epoch'[p] = Retained(p).generation /\ epoch'[p] \in Nat /\ epoch'[p] >= epoch[p]
    <3>1. epoch[p] \in Nat
      BY DEF Types
    <3> QED
      BY <3>1, RetainedFacts, RefreshAudits
  <2>2. ps'.observed[p] = [raw |-> Raw(Retained(p)), generation |-> Retained(p).generation]
        /\ prs'[p] = Retained(p)
    BY RefreshAudits
  <2>3. Raw(Retained(p)) \in [state : {"OPEN"} \cup Closed, text : Texts]
    BY <2>1 DEF Raw, States
  <2>4. ps'.observed[p] \in Feedbacks
    BY <2>1, <2>2, <2>3 DEF Feedbacks
  <2> QED
    BY <2>1, <2>2, <2>4, NoneAssumption
<1>3. Types'
  <2>1. UNCHANGED <<forge, handoff>> /\ DOMAIN ps' = DOMAIN NewJournal
    BY RefreshDoes DEF Refresh, external
  <2>2. prs' \in [PRs -> [state : States, text : Texts, checks : Checks, generation : Nat]]
    BY <1>2 DEF Refresh
  <2>3. epoch' \in [PRs -> Nat]
    BY <1>2 DEF Refresh
  <2>4. ps'.observed \in [PRs -> Feedbacks \cup {None}]
    <3>1. ps'.observed =
             [q \in PRs |-> [raw |-> Raw(Retained(q)), generation |-> Retained(q).generation]]
      BY DEF Refresh, Refreshed, Types, NewJournal
    <3> QED
      BY <1>2, <3>1
  <2> QED
    BY <1>1, <2>1, <2>2, <2>3, <2>4 DEF Types
<1>4. GenerationInv'
  <2>1. ASSUME NEW p \in PRs PROVE prs'[p].generation <= epoch'[p]
    <3>1. prs'[p].generation = epoch'[p] /\ epoch'[p] \in Nat
      BY <1>2
    <3> QED
      BY <3>1
  <2> QED
    BY <1>1, <1>2, <2>1, RefreshDoes DEF GenerationInv
<1>5. Shows(Observation, Basis')
  <2>1. Basis' = [epoch |-> epoch', losses |-> losses', evidence |-> handoff]
    BY RefreshDoes DEF Basis, Observation
  <2>2. Basis' \in Bases
    BY <1>1, <1>3, <2>1 DEF Types, Bases, Refresh, external
  <2>3. ASSUME NEW p \in PRs PROVE Observation.prs[p].feedback.generation = epoch'[p]
    BY <1>2 DEF Observation, Event, Feedback
  <2>4. Observation.generation = losses' /\ Observation.evidence = handoff
    BY <1>1 DEF Observation
  <2> QED
    BY <2>1, <2>2, <2>3, <2>4 DEF Shows
<1> QED
  BY <1>1, <1>2, <1>3, <1>4, <1>5 DEF DependencyVersion


\* A current report knows all that is observed now.
LEMMA CurrentReport ==
  ASSUME IInv, Refresh, ReportCurrent
  PROVE  Shows(Observation, report.basis)
<1>1. report # None /\ ps.delivered # None /\ report.event = ps.delivered
      /\ ps.deliveredObs = Observation
  BY DEF ReportCurrent
<1> QED
  BY <1>1 DEF IInv, InputInv

\* So does a historical audit: the generation in it is not behind the one it was
\* based on unless it is behind now.
LEMMA CurrentAudit ==
  ASSUME IInv, Refresh, NEW p \in PRs, HistoricalAudits(p)
  PROVE  /\ audit.basis \in Bases /\ audit.basis.epoch[p] = epoch'[p]
         /\ HasProducers => audit.basis.losses = losses' /\ audit.basis.evidence = handoff
<1>1. /\ audit # None /\ audit.pr = p /\ audit.feedback = Feedback(Retained(p))
      /\ HasProducers => audit.dependencies = DependencyVersion
  BY DEF HistoricalAudits
<1>2. /\ audit.basis \in Bases /\ audit.feedback.generation \in Nat
      /\ audit.feedback.generation <= audit.basis.epoch[p] /\ audit.basis.epoch[p] <= epoch[p]
      /\ audit.dependencies =
            [evidence |-> audit.basis.evidence, generation |-> audit.basis.losses]
  BY <1>1 DEF IInv, HistoryInv
<1>3. /\ epoch'[p] \in Nat /\ epoch'[p] >= epoch[p] /\ epoch'[p] = Retained(p).generation
      /\ DependencyVersion = [evidence |-> handoff, generation |-> losses']
  BY RefreshShows DEF IInv
<1>4. audit.feedback.generation = epoch'[p]
  BY <1>1, <1>3 DEF Feedback
<1>5. audit.basis.epoch[p] \in Nat /\ epoch[p] \in Nat
  BY <1>2 DEF Bases, IInv, Types
<1>6. audit.basis.epoch[p] = epoch'[p]
  BY <1>2, <1>3, <1>4, <1>5
<1>7. HasProducers => audit.basis.losses = losses' /\ audit.basis.evidence = handoff
  <2> SUFFICES ASSUME HasProducers
               PROVE  audit.basis.losses = losses' /\ audit.basis.evidence = handoff
    OBVIOUS
  <2>1. [evidence |-> audit.basis.evidence, generation |-> audit.basis.losses]
        = [evidence |-> handoff, generation |-> losses']
    BY <1>1, <1>2, <1>3
  <2> QED
    BY <2>1
<1> QED
  BY <1>2, <1>6, <1>7

LEMMA RefreshAudited ==
  ASSUME IInv, Refresh
  PROVE  AuditedInv'
<1>1. ASSUME NEW p \in PRs, Adopted(p)
      PROVE  /\ basis'[p] \in Bases /\ basis'[p].epoch[p] = epoch'[p]
             /\ HasProducers => basis'[p].losses = losses' /\ basis'[p].evidence = handoff
  <2>1. CASE HistoricalAudits(p)
    <3>1. basis'[p] = audit.basis
      BY <2>1, RefreshAudits DEF IInv
    <3> QED
      BY <2>1, <3>1, CurrentAudit
  <2>2. CASE ~HistoricalAudits(p) /\ ReportAudits(p)
    <3>1. basis'[p] = report.basis
      BY <2>2, RefreshAudits DEF IInv
    <3>2. Shows(Observation, report.basis)
      BY <2>2, CurrentReport DEF ReportAudits
    <3>3. Observation.prs[p].feedback.generation = epoch'[p]
          /\ Observation.generation = losses' /\ Observation.evidence = handoff
      <4>1. Shows(Observation, Basis')
        BY RefreshShows DEF IInv
      <4>2. Basis'.epoch = epoch' /\ Basis'.losses = losses' /\ Basis'.evidence = ps'.obs.evidence
        BY DEF Basis
      <4>3. ps'.obs = Observation /\ Observation.evidence = handoff
        BY RefreshDoes DEF IInv, Observation
      <4> QED
        BY <4>1, <4>2, <4>3 DEF Shows
    <3> QED
      BY <3>1, <3>2, <3>3 DEF Shows
  <2> QED
    BY <1>1, <2>1, <2>2 DEF Adopted
<1>2. ASSUME NEW p \in PRs, ~Adopted(p) PROVE basis'[p] = basis[p]
  BY <1>2, RefreshAudits DEF Adopted, IInv
<1>3. basis' \in [PRs -> Bases \cup {None}]
  <2>1. ASSUME NEW p \in PRs PROVE basis'[p] \in Bases \cup {None}
    BY <1>1, <1>2 DEF IInv, AuditedInv
  <2>2. basis' = [p \in PRs |-> basis'[p]]
    BY DEF Refresh
  <2> QED
    BY <2>1, <2>2
<1>4. ASSUME NEW p \in PRs, ps'.auditedFeedback[p] # None
      PROVE  basis'[p] # None /\ basis'[p].epoch[p] = ps'.auditedFeedback[p].generation
  <2>1. CASE Adopted(p)
    <3>1. ps'.auditedFeedback[p].generation = epoch'[p]
      <4>1. ps'.auditedFeedback[p] = Feedback(Retained(p))
        BY <2>1, RefreshAudits DEF IInv
      <4>2. epoch'[p] = Retained(p).generation
        BY RefreshShows DEF IInv
      <4> QED
        BY <4>1, <4>2 DEF Feedback
    <3> QED
      BY <1>1, <2>1, <3>1, NoneAssumption
  <2>2. CASE ~Adopted(p)
    <3>1. ps'.auditedFeedback[p] = ps.auditedFeedback[p]
      BY <2>2, RefreshAudits DEF IInv
    <3> QED
      BY <1>2, <1>4, <2>2, <3>1 DEF IInv, AuditedInv
  <2> QED
    BY <2>1, <2>2
<1>5. ASSUME NEW p \in PRs, HasProducers, ps'.auditedDependencies[p] # None
      PROVE  /\ basis'[p].losses = ps'.auditedDependencies[p].generation
             /\ basis'[p].evidence = ps'.auditedDependencies[p].evidence
  <2>1. CASE Adopted(p)
    <3>1. ps'.auditedDependencies[p] = [evidence |-> handoff, generation |-> losses']
      BY <2>1, RefreshAudits, RefreshShows DEF IInv
    <3> QED
      BY <1>1, <1>5, <2>1, <3>1
  <2>2. CASE ~Adopted(p)
    <3>1. ps'.auditedDependencies[p] = ps.auditedDependencies[p]
      BY <1>5, <2>2, RefreshAudits DEF IInv
    <3> QED
      BY <1>2, <1>5, <2>2, <3>1 DEF IInv, AuditedInv
  <2> QED
    BY <2>1, <2>2
<1> QED
  BY <1>3, <1>4, <1>5 DEF AuditedInv

LEMMA RefreshStep == ASSUME IInv, Refresh PROVE IInv'
<1>1. Types' /\ GenerationInv' /\ Shows(Observation, Basis')
      /\ DependencyVersion = [evidence |-> handoff, generation |-> losses']
      /\ \A p \in PRs : epoch'[p] \in Nat /\ epoch'[p] >= epoch[p]
  BY RefreshShows DEF IInv
<1>2. UNCHANGED <<handoff, report, audit, posted>>
  BY DEF Refresh, external
<1>3. JournalInv'
  <2>1. ps'.dependencyVersion = [evidence |-> handoff, generation |-> losses']
        /\ ps'.obs = Observation /\ ps'.version.obs = Observation
    BY <1>1, RefreshDoes DEF IInv
  <2>2. Observation.evidence = handoff
    BY DEF Observation
  <2> QED
    BY <1>1, <2>1, <2>2 DEF JournalInv
<1>4. InputInv'
  <2>1. /\ ps'.pending = ps.pending /\ ps'.delivered = ps.delivered
        /\ ps'.deliveredObs = ps.deliveredObs
    BY RefreshDoes DEF IInv
  <2> QED
    BY <1>2, <2>1 DEF IInv, InputInv, Shows
<1>5. HistoryInv'
  <2> SUFFICES ASSUME audit # None PROVE audit.basis.epoch[audit.pr] <= epoch'[audit.pr]
    BY <1>2 DEF IInv, HistoryInv
  <2>1. /\ audit.pr \in PRs /\ audit.basis.epoch[audit.pr] <= epoch[audit.pr]
        /\ audit.basis.epoch[audit.pr] \in Nat /\ epoch[audit.pr] \in Nat
    BY DEF IInv, HistoryInv, Bases, Types
  <2> QED
    BY <1>1, <2>1
<1>6. WaitingInv'
  <2>1. /\ ps'.status = (IF ReportCurrent THEN report ELSE ps.status)
        /\ ps'.terminal => ~Waiting(ps'.status)
    BY RefreshDoes DEF IInv
  <2>2. owed' = IF ps'.status # ps.status THEN Waiting(report) ELSE owed
    BY DEF Refresh
  <2>3. owed' => Waiting(ps'.status)
    BY <2>1, <2>2, Zenon DEF IInv, WaitingInv
  <2> QED
    BY <2>1, <2>3 DEF WaitingInv
<1> QED
  BY <1>1, <1>3, <1>4, <1>5, <1>6, RefreshAudited DEF IInv


-----------------------------------------------------------------------------
(* The other steps.                                                        *)

\* A journal record whose other fields moved.
SameJournal ==
    /\ DOMAIN ps' = DOMAIN NewJournal
    /\ ps'.observed = ps.observed /\ ps'.lossGeneration = ps.lossGeneration /\ ps'.obs = ps.obs
    /\ ps'.dependencyVersion = ps.dependencyVersion
    /\ ps'.auditedFeedback = ps.auditedFeedback /\ ps'.auditedDependencies = ps.auditedDependencies
    /\ ps'.status = ps.status /\ ps'.terminal = ps.terminal /\ ps'.progress = ps.progress

LEMMA SameStep ==
  ASSUME IInv, SameJournal, UNCHANGED <<forge, handoff, prs, audit, epoch, losses, basis, owed>>,
         JournalInv', InputInv'
  PROVE  IInv'
<1>1. Types' /\ GenerationInv'
  BY DEF IInv, SameJournal, Types, GenerationInv
<1>2. HistoryInv' /\ AuditedInv' /\ WaitingInv'
  BY DEF IInv, SameJournal, HistoryInv, AuditedInv, WaitingInv
<1> QED
  BY <1>1, <1>2 DEF IInv

\* The input prepared and attempted is of the version of now.
LEMMA AdmitDoes ==
  ASSUME Types, Admit
  PROVE  /\ DOMAIN ps' = DOMAIN NewJournal
         /\ ps'.pending.version = ps.version /\ ps'.pending.obs = ps.obs
         /\ ps'.generation = ps.generation + 1
         /\ \A x \in DOMAIN NewJournal \ {"pending", "generation"} : ps'[x] = ps[x]
<1>1. /\ ps.pending = None
      /\ ps' = [Prepare("owner", ps, "text", None) EXCEPT !.pending.attempt = turns]
  BY DEF Admit, NeedsWake
<1> DEFINE f == Fresh("owner", ps, "text", None)
           g == [f EXCEPT !.attempt = turns]
           q == [ps EXCEPT !.pending = f, !.generation = @ + 1]
<1>2. Prepare("owner", ps, "text", None) = q
  BY <1>1 DEF Prepare
<1>3. g.version = ps.version /\ g.obs = ps.obs
  BY DEF Fresh
<1>4. /\ DOMAIN q = DOMAIN NewJournal /\ q.pending = f /\ q.generation = ps.generation + 1
      /\ \A x \in DOMAIN NewJournal \ {"pending", "generation"} : q[x] = ps[x]
  BY DEF Types, NewJournal
<1>5. ps' = [q EXCEPT !.pending = [q.pending EXCEPT !.attempt = turns]]
  BY <1>1, <1>2
<1> HIDE DEF f, q
<1>6. /\ DOMAIN ps' = DOMAIN NewJournal /\ ps'.pending = g /\ ps'.generation = q.generation
      /\ \A x \in DOMAIN NewJournal \ {"pending", "generation"} : ps'[x] = ps[x]
  BY <1>4, <1>5 DEF NewJournal
<1> HIDE DEF g
<1> QED
  BY <1>3, <1>4, <1>6

LEMMA AdmitStep == ASSUME IInv, Admit PROVE IInv' /\ SameJournal
<1> USE DEF IInv
<1>1. ps.pending = None /\ ps.version # ps.delivered
  BY DEF Admit, NeedsWake
<1>2. /\ Shows(ps.obs, Basis) /\ ps.version.obs = ps.obs
      /\ ps.dependencyVersion = [evidence |-> ps.obs.evidence, generation |-> losses]
  BY <1>1 DEF JournalInv
<1>3. /\ DOMAIN ps' = DOMAIN NewJournal
      /\ ps'.pending.version = ps.version /\ ps'.pending.obs = ps.obs
      /\ \A x \in DOMAIN NewJournal \ {"pending", "generation"} : ps'[x] = ps[x]
  BY AdmitDoes
<1>4. /\ SameJournal /\ ps'.version = ps.version /\ ps'.delivered = ps.delivered
      /\ ps'.deliveredObs = ps.deliveredObs
  BY <1>3 DEF SameJournal, NewJournal
<1>5. /\ UNCHANGED <<forge, handoff, prs, audit, report, epoch, losses, basis, owed>>
      /\ posted' = posted \cup {[version |-> ps.version,
                                 basis |-> [epoch |-> epoch, losses |-> losses,
                                            evidence |-> ps.obs.evidence]]}
  BY DEF Admit
<1>6. JournalInv'
  <2>1. Basis' = Basis /\ ps'.obs = ps.obs
    BY <1>4, <1>5 DEF Basis, SameJournal
  <2> QED
    BY <1>2, <1>4, <1>5, <2>1 DEF JournalInv, SameJournal
<1>7. InputInv'
  <2>1. ASSUME NEW input \in posted' PROVE Shows(input.version.obs, input.basis)
    <3>1. input \in posted \/ input = [version |-> ps.version, basis |-> Basis]
      BY <1>5 DEF Basis
    <3>2. CASE input \in posted
      BY <3>2 DEF InputInv
    <3>3. CASE input = [version |-> ps.version, basis |-> Basis]
      <4>1. input.version.obs = ps.obs /\ input.basis = Basis
        BY <1>2, <3>3
      <4> QED
        BY <1>2, <4>1
    <3> QED
      BY <3>1, <3>2, <3>3
  <2>2. ps'.pending.version.obs = ps'.pending.obs
    BY <1>2, <1>3
  <2>3. /\ ps'.delivered # None => ps'.delivered.obs = ps'.deliveredObs
        /\ report' # None => Shows(report'.event.obs, report'.basis)
    BY <1>4, <1>5 DEF InputInv
  <2> QED
    BY <2>1, <2>2, <2>3 DEF InputInv, Shows
<1> QED
  BY <1>4, <1>5, <1>6, <1>7, SameStep

LEMMA ReceiveStep == ASSUME IInv, Receive PROVE IInv' /\ SameJournal
<1> USE DEF IInv
<1>1. ps.pending # None /\ ps' = Acknowledge(ps) /\ UNCHANGED <<external, prs, posted, ghosts>>
  BY DEF Receive
<1>2. /\ SameJournal /\ ps'.version = ps.version /\ ps'.pending = None
      /\ ps'.delivered = ps.pending.version /\ ps'.deliveredObs = ps.pending.obs
  BY <1>1 DEF Acknowledge, SameJournal, Types, NewJournal
<1>3. UNCHANGED <<forge, handoff, prs, audit, report, posted, epoch, losses, basis, owed>>
  BY <1>1 DEF external, ghosts
<1>4. /\ Shows(ps.obs, Basis) /\ ps.version.obs = ps.obs
      /\ ps.dependencyVersion = [evidence |-> ps.obs.evidence, generation |-> losses]
  BY <1>1 DEF JournalInv
<1>5. JournalInv'
  <2>1. Basis' = Basis /\ ps'.obs = ps.obs
    BY <1>2, <1>3 DEF Basis, SameJournal
  <2> QED
    BY <1>2, <1>3, <1>4, <2>1 DEF JournalInv, SameJournal
<1>6. InputInv'
  BY <1>1, <1>2, <1>3 DEF InputInv, Shows
<1> QED
  BY <1>2, <1>3, <1>5, <1>6, SameStep

LEMMA ReconsiderStep == ASSUME IInv, Reconsider PROVE IInv' /\ SameJournal
<1> USE DEF IInv
<1> DEFINE next == Rechecked(Recovered)
<1>1. /\ ps.version # None /\ UNCHANGED <<external, prs, posted, ghosts>>
      /\ ps' = [next EXCEPT !.version =
                   IF next.recovery # ps.recovery \/ next.recheck # ps.recheck
                   THEN EventVersion(next.obs, next.progress, next.recovery, next.recheck)
                   ELSE ps.version]
  BY DEF Reconsider
<1>2. /\ DOMAIN Recovered = DOMAIN NewJournal
      /\ \A x \in DOMAIN NewJournal \ {"idle", "recovery"} : Recovered[x] = ps[x]
  BY DEF Recovered, Types, NewJournal
<1>3. /\ DOMAIN next = DOMAIN NewJournal
      /\ \A x \in DOMAIN NewJournal \ {"idle", "recovery", "rechecked", "recheck"} : next[x] = ps[x]
  <2>1. PICK r : r = Recovered
    OBVIOUS
  <2>2. DOMAIN Rechecked(r) = DOMAIN r
        /\ \A x \in DOMAIN r \ {"rechecked", "recheck"} : Rechecked(r)[x] = r[x]
    BY <1>2, <2>1 DEF Rechecked, NewJournal
  <2> QED
    BY <1>2, <2>1, <2>2
<1> HIDE DEF next
<1>4. /\ DOMAIN ps' = DOMAIN NewJournal
      /\ \A x \in DOMAIN NewJournal \ {"idle", "recovery", "rechecked", "recheck", "version"} :
            ps'[x] = ps[x]
      /\ ps'.version = ps.version \/ ps'.version.obs = ps.obs
  BY <1>1, <1>3 DEF NewJournal, EventVersion
<1>5. /\ SameJournal /\ ps'.pending = ps.pending /\ ps'.delivered = ps.delivered
      /\ ps'.deliveredObs = ps.deliveredObs
  BY <1>4 DEF SameJournal, NewJournal
<1>6. UNCHANGED <<forge, handoff, prs, audit, report, posted, epoch, losses, basis, owed>>
  BY <1>1 DEF external, ghosts
<1>7. JournalInv'
  <2>1. Basis' = Basis /\ ps'.obs = ps.obs
    BY <1>5, <1>6 DEF Basis, SameJournal
  <2> QED
    BY <1>1, <1>4, <1>5, <1>6, <2>1 DEF JournalInv, SameJournal
<1>8. InputInv'
  BY <1>5, <1>6 DEF InputInv, Shows
<1> QED
  BY <1>5, <1>6, <1>7, <1>8, SameStep

LEMMA CollectStep ==
  ASSUME IInv, NEW p \in PRs, Collect(p)
  PROVE  IInv'
<1> USE DEF IInv
<1> DEFINE native == [state |-> forge[p].state, text |-> forge[p].text,
                      checks |-> forge[p].checks, generation |-> 0]
<1>1. /\ prs' = [prs EXCEPT ![p] = native]
      /\ UNCHANGED <<external, ps, posted, ghosts>>
  BY DEF Collect
<1>2. UNCHANGED <<forge, handoff, audit, report, posted, epoch, losses, basis, owed>>
  BY <1>1 DEF external, ghosts
<1>3. native \in [state : States, text : Texts, checks : Checks, generation : Nat]
  <2>1. forge[p] \in [state : States, text : Texts, checks : Checks]
    BY DEF Types
  <2> QED
    BY <2>1
<1>4. native.generation = 0
  OBVIOUS
<1> HIDE DEF native
<1>5. Types'
  BY <1>1, <1>2, <1>3 DEF Types
<1>6. GenerationInv'
  <2>1. ASSUME NEW q \in PRs PROVE prs'[q].generation <= epoch[q]
    <3>1. prs'[q] = IF q = p THEN native ELSE prs[q]
      BY <1>1 DEF Types
    <3>2. epoch[q] \in Nat /\ prs[q].generation <= epoch[q]
      BY DEF Types, GenerationInv
    <3> QED
      BY <1>4, <3>1, <3>2
  <2> QED
    BY <1>1, <1>2, <2>1 DEF GenerationInv
<1>7. Basis' = Basis
  BY <1>1, <1>2 DEF Basis
<1>8. JournalInv' /\ InputInv'
  BY <1>1, <1>2, <1>7 DEF JournalInv, InputInv, Shows
<1>9. HistoryInv' /\ AuditedInv' /\ WaitingInv'
  BY <1>1, <1>2 DEF HistoryInv, AuditedInv, WaitingInv
<1> QED
  BY <1>5, <1>6, <1>8, <1>9

\* A step outside the journal.
LEMMA OutsideStep ==
  ASSUME IInv, UNCHANGED <<prs, ps, posted, epoch, losses, basis, owed>>,
         forge' \in [PRs -> [state : States, text : Texts, checks : Checks]],
         handoff' \in Evidence \cup {None},
         report' # None => Shows(report'.event.obs, report'.basis),
         HistoryInv'
  PROVE  IInv'
<1>1. Types' /\ GenerationInv'
  BY DEF IInv, Types, GenerationInv
<1>2. Basis' = Basis
  BY DEF Basis
<1>3. JournalInv' /\ InputInv'
  BY <1>2 DEF IInv, JournalInv, InputInv, Shows
<1>4. AuditedInv' /\ WaitingInv'
  BY DEF IInv, AuditedInv, WaitingInv
<1> QED
  BY <1>1, <1>3, <1>4 DEF IInv

LEMMA ForgeStep ==
  ASSUME IInv, NEW p \in PRs, ForgeChange(p)
  PROVE  IInv'
<1>1. UNCHANGED <<handoff, report, audit, prs, ps, posted, epoch, losses, basis, owed>>
  BY DEF ForgeChange, ghosts
<1>2. forge' \in [PRs -> [state : States, text : Texts, checks : Checks]]
  <2>1. forge \in [PRs -> [state : States, text : Texts, checks : Checks]]
    BY DEF IInv, Types
  <2>2. \/ \E t \in Texts : forge' = [forge EXCEPT ![p].text = t]
        \/ \E c \in Checks : forge' = [forge EXCEPT ![p].checks = c]
        \/ \E s \in Closed : forge' = [forge EXCEPT ![p].state = s]
        \/ forge' = [forge EXCEPT ![p].state = "OPEN"]
    BY DEF ForgeChange
  <2>3. CASE \E t \in Texts : forge' = [forge EXCEPT ![p].text = t]
    BY <2>1, <2>3
  <2>4. CASE \E c \in Checks : forge' = [forge EXCEPT ![p].checks = c]
    BY <2>1, <2>4
  <2>5. CASE \E s \in States : forge' = [forge EXCEPT ![p].state = s]
    BY <2>1, <2>5
  <2> QED
    BY <2>2, <2>3, <2>4, <2>5 DEF States
<1>3. HistoryInv'
  BY <1>1 DEF IInv, HistoryInv
<1> QED
  BY <1>1, <1>2, <1>3, OutsideStep DEF IInv, Types, InputInv

LEMMA HandoffStep == ASSUME IInv, Handoff PROVE IInv'
<1>1. /\ UNCHANGED <<forge, report, audit, prs, ps, posted, epoch, losses, basis, owed>>
      /\ handoff' \in Evidence \cup {None}
  BY DEF Handoff, ghosts
<1>2. HistoryInv'
  BY <1>1 DEF IInv, HistoryInv
<1> QED
  BY <1>1, <1>2, OutsideStep DEF IInv, Types, InputInv

\* A report is based on an input it got.
LEMMA WriteStep ==
  ASSUME IInv, NEW input \in posted, NEW status, NEW audited, WriteReport(input, status, audited),
         UNCHANGED <<forge, handoff, audit, prs, ps, posted, epoch, losses, basis, owed>>
  PROVE  IInv'
<1>1. report'.event = input.version /\ report'.basis = input.basis
  BY DEF WriteReport
<1>2. Shows(input.version.obs, input.basis)
  BY DEF IInv, InputInv
<1>3. HistoryInv'
  BY DEF IInv, HistoryInv
<1> QED
  BY <1>1, <1>2, <1>3, OutsideStep DEF IInv, Types

LEMMA ReportStep == ASSUME IInv, Report PROVE IInv'
<1>1. PICK input \in posted, status \in {"waiting", "ready_for_work", "complete"},
           audited \in SUBSET PRs : WriteReport(input, status, audited)
  BY Zenon DEF Report
<1>2. UNCHANGED <<forge, handoff, audit, prs, ps, posted, epoch, losses, basis, owed>>
  BY DEF Report
<1> QED
  BY <1>1, <1>2, WriteStep

LEMMA CompleteReportStep ==
  ASSUME IInv, NEW input \in posted, CompleteReport(input)
  PROVE  IInv'
<1>1. /\ WriteReport(input, "complete", PRs)
      /\ UNCHANGED <<forge, handoff, audit, prs, ps, posted, epoch, losses, basis, owed>>
  BY DEF CompleteReport
<1> QED
  BY <1>1, WriteStep

\* An audit is written from the journal, once it was refreshed.
LEMMA AuditStep ==
  ASSUME IInv, NEW p \in PRs, Audit(p)
  PROVE  IInv'
<1>1. /\ ps.version # None
      /\ audit' = [pr |-> p, feedback |-> Feedback(prs[p]), dependencies |-> ps.dependencyVersion,
                   basis |-> [epoch |-> epoch, losses |-> losses, evidence |-> ps.obs.evidence]]
      /\ UNCHANGED <<forge, handoff, report, prs, ps, posted, epoch, losses, basis, owed>>
  BY DEF Audit, ghosts
<1>2. /\ Basis \in Bases
      /\ ps.dependencyVersion = [evidence |-> ps.obs.evidence, generation |-> losses]
  BY <1>1 DEF IInv, JournalInv, Shows
<1>3. /\ audit'.pr = p /\ audit'.basis = Basis /\ audit'.feedback.generation = prs[p].generation
      /\ audit'.dependencies = ps.dependencyVersion
  BY <1>1 DEF Basis, Feedback
<1>4. prs[p].generation \in Nat /\ epoch[p] \in Nat /\ prs[p].generation <= epoch[p]
  BY DEF IInv, Types, GenerationInv
<1>5. Basis.epoch = epoch /\ Basis.losses = losses /\ Basis.evidence = ps.obs.evidence
  BY DEF Basis
<1>6. HistoryInv'
  BY <1>1, <1>2, <1>3, <1>4, <1>5 DEF HistoryInv
<1> QED
  BY <1>1, <1>6, OutsideStep DEF IInv, Types, InputInv

LEMMA EndTurnStep == ASSUME IInv, EndTurn PROVE IInv'
<1>1. UNCHANGED <<forge, handoff, report, audit, prs, ps, posted, epoch, losses, basis, owed>>
  BY DEF EndTurn, ghosts
<1>2. HistoryInv'
  BY <1>1 DEF IInv, HistoryInv
<1> QED
  BY <1>1, <1>2, OutsideStep DEF IInv, Types, InputInv


-----------------------------------------------------------------------------
(* The theorems.                                                           *)

LEMMA InitIInv == Init => IInv
<1> SUFFICES ASSUME Init PROVE IInv
  OBVIOUS
<1>1. /\ DOMAIN ps = DOMAIN NewJournal
      /\ ps.observed = [p \in PRs |-> None] /\ ps.lossGeneration = 0
      /\ ps.version = None /\ ps.delivered = None /\ ps.pending = None
      /\ ps.auditedFeedback = NoAudit /\ ps.auditedDependencies = NoAudit
      /\ ps.status = None /\ ps.terminal = FALSE
  BY DEF Init, NewJournal
<1>2. forge \in [PRs -> [state : States, text : Texts, checks : Checks]]
  <2>1. Initially \subseteq States
    BY AuditAssumption DEF States, Closed
  <2>2. forge \in [PRs -> [state : Initially, text : Texts, checks : Checks]]
    BY DEF Init
  <2> QED
    BY <2>1, <2>2
<1>3. prs \in [PRs -> [state : States, text : Texts, checks : Checks, generation : Nat]]
      /\ \A p \in PRs : prs[p].generation = 0
  <2>1. prs = [p \in PRs |-> [state |-> forge[p].state, text |-> forge[p].text,
                              checks |-> forge[p].checks, generation |-> 0]]
    BY DEF Init
  <2>2. ASSUME NEW p \in PRs
        PROVE  forge[p].state \in States /\ forge[p].text \in Texts /\ forge[p].checks \in Checks
    BY <1>2
  <2> QED
    BY <2>1, <2>2
<1>4. /\ handoff \in Evidence \cup {None} /\ report = None /\ audit = None /\ posted = {}
      /\ epoch = [p \in PRs |-> 0] /\ losses = 0 /\ basis = NoAudit /\ owed = FALSE
  BY DEF Init
<1>5. Types
  BY <1>1, <1>2, <1>3, <1>4 DEF Types
<1>6. GenerationInv
  BY <1>1, <1>3, <1>4 DEF GenerationInv
<1>7. JournalInv /\ InputInv /\ HistoryInv
  BY <1>1, <1>4 DEF JournalInv, InputInv, HistoryInv
<1>8. AuditedInv /\ WaitingInv
  BY <1>1, <1>4 DEF AuditedInv, WaitingInv, NoAudit, Waiting
<1> QED
  BY <1>5, <1>6, <1>7, <1>8 DEF IInv

LEMMA StutterStep == ASSUME IInv, UNCHANGED vars PROVE IInv'
<1>1. UNCHANGED <<forge, handoff, report, audit, prs, ps, posted, epoch, losses, basis, owed>>
  BY DEF vars, external, ghosts
<1>2. HistoryInv'
  BY <1>1 DEF IInv, HistoryInv
<1> QED
  BY <1>1, <1>2, OutsideStep DEF IInv, Types, InputInv

LEMMA NextIInv == IInv /\ [Next]_vars => IInv'
<1> SUFFICES ASSUME IInv, [Next]_vars PROVE IInv'
  OBVIOUS
<1>1. CASE Admit
  BY <1>1, AdmitStep
<1>2. CASE Receive
  BY <1>2, ReceiveStep
<1>3. CASE Reconsider
  BY <1>3, ReconsiderStep
<1>4. CASE Refresh
  BY <1>4, RefreshStep
<1>5. CASE \E p \in PRs : Collect(p)
  BY <1>5, CollectStep
<1>6. CASE \E p \in PRs : ForgeChange(p)
  BY <1>6, ForgeStep
<1>7. CASE \E p \in PRs : Audit(p)
  BY <1>7, AuditStep
<1>8. CASE Handoff
  BY <1>8, HandoffStep
<1>9. CASE EndTurn
  BY <1>9, EndTurnStep
<1>10. CASE Report
  BY <1>10, ReportStep
<1>11. CASE \E input \in posted : CompleteReport(input)
  BY <1>11, CompleteReportStep
<1>12. CASE UNCHANGED vars
  BY <1>12, StutterStep
<1> QED
  BY <1>1, <1>2, <1>3, <1>4, <1>5, <1>6, <1>7, <1>8, <1>9, <1>10, <1>11, <1>12, Zenon
  DEF Next, Campaign, External

\* Every record that may come back later, an input, a report or an audit, shows the
\* changes observed when it was made, and what is audited is what the adopted audit
\* knew: the retained generations and the loss generation of refresh count what the
\* fingerprints alone would forget.
THEOREM Invariance == Spec => []IInv
<1> QED
  BY InitIInv, NextIInv, PTL DEF Spec

\* finished holds of no packet but one whose pull requests are all closed and
\* audited on the basis of everything observed of them and of the producers.
THEOREM FinishedAudited == Spec => []FinishedIsAudited
<1>1. IInv => FinishedIsAudited
  <2> SUFFICES ASSUME IInv, Finished, NEW p \in PRs
               PROVE  /\ prs[p].state \in Closed
                      /\ ps.observed[p].raw = Raw(prs[p])
                      /\ basis[p] # None
                      /\ basis[p].epoch[p] = epoch[p]
                      /\ HasProducers => /\ basis[p].losses = losses
                                         /\ basis[p].evidence = ps.obs.evidence
                                         /\ ps.obs.evidence # None
    BY DEF FinishedIsAudited
  <2>1. /\ ps.version # None /\ prs[p].state \in Closed
        /\ ps.observed[p] = [raw |-> Raw(prs[p]), generation |-> prs[p].generation]
        /\ ps.auditedFeedback[p] = Feedback(prs[p])
        /\ HasProducers =>
              /\ ps.obs.evidence # None
              /\ ps.auditedDependencies[p] = ps.dependencyVersion
    BY Zenon DEF Finished, FeedbackCurrent, DependenciesComplete
  <2>2. prs[p] \in [state : States, text : Texts, checks : Checks, generation : Nat]
    BY DEF IInv, Types
  <2>3. Feedback(prs[p]) \in Feedbacks
        /\ [raw |-> Raw(prs[p]), generation |-> prs[p].generation] \in Feedbacks
    BY <2>2 DEF Feedback, Feedbacks, Raw, States
  <2>4. ps.auditedFeedback[p] # None /\ ps.observed[p] # None
    BY <2>1, <2>3, NoneAssumption
  <2>5. prs[p].generation = epoch[p]
    BY <2>1, <2>4 DEF IInv, GenerationInv
  <2>6. basis[p] # None /\ basis[p].epoch[p] = epoch[p]
    BY <2>1, <2>4, <2>5 DEF IInv, AuditedInv, Feedback
  <2>7. ASSUME HasProducers
        PROVE  basis[p].losses = losses /\ basis[p].evidence = ps.obs.evidence
    <3>1. /\ Shows(ps.obs, Basis)
          /\ ps.dependencyVersion = [evidence |-> ps.obs.evidence, generation |-> losses]
      BY <2>1 DEF IInv, JournalInv
    <3>2. Basis.evidence = ps.obs.evidence /\ Basis \in Bases
      BY <3>1 DEF Basis, Shows
    <3>3. ps.obs.evidence \in Evidence \cup {None} /\ losses \in Nat
      BY <3>2 DEF Bases, IInv, Types
    <3>4. ps.dependencyVersion \in Dependencies
      BY <3>1, <3>3 DEF Dependencies
    <3>5. ps.auditedDependencies[p] = ps.dependencyVersion /\ ps.auditedDependencies[p] # None
      BY <2>1, <2>7, <3>4, NoneAssumption
    <3> QED
      BY <2>7, <3>1, <3>5 DEF IInv, AuditedInv
  <2> QED
    BY <2>1, <2>6, <2>7
<1> QED
  BY <1>1, Invariance, PTL

\* A waiting report, once adopted, keeps the packet from being terminal until a
\* later report is adopted in its place: refresh carries the obligation along when
\* the report itself has become stale.
THEOREM WaitingIsHeld == Spec => []WaitingHeld
<1>1. IInv => WaitingHeld
  BY DEF IInv, WaitingInv, WaitingHeld
<1> QED
  BY <1>1, Invariance, PTL

\* refresh adopts a report only at the very epochs of feedback, losses of evidence
\* and evidence that its input was posted with.
THEOREM AdoptedIsCurrent == Spec => AdoptionIsCurrent
<1> DEFINE Adoption == ps'.status # ps.status =>
                          /\ ps'.status.basis.epoch = epoch'
                          /\ ps'.status.basis.losses = losses'
                          /\ ps'.status.basis.evidence = ps'.obs.evidence
<1>1. ASSUME IInv, [Next]_vars, ps'.status # ps.status PROVE Refresh
  <2>1. ~UNCHANGED ps
    BY <1>1
  <2>2. ~(Admit \/ Receive \/ Reconsider)
    BY <1>1, AdmitStep, ReceiveStep, ReconsiderStep DEF SameJournal
  <2>3. ~\E p \in PRs : Collect(p) \/ ForgeChange(p) \/ Audit(p)
    BY <2>1 DEF Collect, ForgeChange, Audit
  <2>4. ~(Handoff \/ EndTurn \/ Report) /\ ~\E input \in posted : CompleteReport(input)
    BY <2>1 DEF Handoff, EndTurn, Report, CompleteReport
  <2> QED
    BY <1>1, <2>1, <2>2, <2>3, <2>4 DEF Next, Campaign, External, vars
<1>2. ASSUME IInv, Refresh, ps'.status # ps.status PROVE Adoption
  <2>1. ReportCurrent /\ ps'.status = report /\ ps'.obs = Observation
    BY <1>2, RefreshDoes DEF IInv
  <2>2. Shows(Observation, report.basis)
    BY <1>2, <2>1, CurrentReport
  <2>3. Shows(Observation, Basis')
    BY <1>2, RefreshShows DEF IInv
  <2>4. Basis'.epoch = epoch' /\ Basis'.losses = losses' /\ Basis'.evidence = ps'.obs.evidence
    BY DEF Basis
  <2>5. report.basis.epoch \in [PRs -> Nat] /\ epoch' \in [PRs -> Nat]
    BY <2>2, <2>3, <2>4 DEF Shows, Bases
  <2>6. \A p \in PRs : report.basis.epoch[p] = epoch'[p]
    BY <2>2, <2>3, <2>4 DEF Shows
  <2>7. report.basis.epoch = epoch'
    BY <2>5, <2>6
  <2> QED
    BY <2>1, <2>2, <2>3, <2>4, <2>7 DEF Shows
<1>3. IInv /\ [Next]_vars => Adoption
  BY <1>1, <1>2
<1> QED
  BY <1>3, Invariance, PTL DEF Spec, AdoptionIsCurrent


-----------------------------------------------------------------------------
(* Bounded wakes.  What may still wake the owner is counted together with  *)
(* the wakes there were: an outstanding version, the report not adopted    *)
(* yet, the recheck of the status and the recoveries left.                 *)

Outstanding ==
    IF ps.pending # None THEN ps.version # ps.pending.version ELSE ps.version # ps.delivered
Unchecked == Waiting(ps.status) /\ ps.rechecked # ps.status.id

VersionWake == IF Outstanding THEN 1 ELSE 0
ReportWake == IF report # None /\ report # ps.status THEN 1 ELSE 0
RecheckWake == IF Unchecked THEN 1 ELSE 0
RecoveryWakes == IF ps.idle.source = ps.obs THEN 3 - ps.idle.attempts ELSE 3

\* The version is that of the journal's inputs, once it was refreshed.
VersionInv ==
    \/ ps.version = None /\ ps.delivered = None /\ ps.pending = None /\ wakes = 0
    \/ /\ ps.obs \in Observations
       /\ ps.version = EventVersion(ps.obs, ps.progress, ps.recovery, ps.recheck)

\* A report that announced progress, adopted with complete evidence, is the progress.
ProgressInv ==
    /\ ps.status # None
    /\ ps.status.status = "ready_for_work"
    /\ HasProducers => ps.status.event.obs.evidence # None
    => ps.progress = ps.status.id

IdleInv == DOMAIN ps.idle = {"source", "attempts", "ids"} /\ ps.idle.attempts \in 0..3

NumberTypes ==
    /\ ps.generation \in Nat /\ ps.progress \in Nat \cup {None}
    /\ ps.recovery \in [source : Observations, id : Nat] \cup {None}
    /\ ps.recheck \in [obs : Observations, report : Nat] \cup {None}
    /\ ps.status # None => ps.status.id \in Nat
    /\ report # None => report.id \in Nat
    /\ turns \in Nat /\ written \in [changes : Nat, reports : Nat, audits : Nat]

WakeInv == /\ NumberTypes /\ VersionInv /\ ProgressInv /\ IdleInv
           /\ wakes \in Nat
           /\ wakes + VersionWake + ReportWake + RecheckWake + RecoveryWakes <= 6


LEMMA WakeSums ==
  /\ \A v, r, c \in 0..1 : \A y \in 0..3 : 0 + v + r + c + y <= 6
  /\ \A w \in Nat : \A v, vv, c, cc \in 0..1 : \A y \in 0..3 :
        w + v + 1 + c + y <= 6 /\ (vv = v \/ cc = 0) => w + vv + 0 + cc + y <= 6
  /\ \A w \in Nat : \A v, r, c \in 0..1 : \A y, yy \in 0..3 :
        /\ w + 0 + r + c + y <= 6 /\ y = yy + 1 => w + v + r + c + yy <= 6
        /\ w + 0 + r + 1 + y <= 6 /\ yy <= y => w + v + r + 0 + yy <= 6
  /\ \A y, yy \in 0..3 : yy = y \/ y = yy + 1 => yy <= y
  OBVIOUS

LEMMA WakeBounds ==
  ASSUME IdleInv
  PROVE  /\ VersionWake \in 0..1 /\ ReportWake \in 0..1 /\ RecheckWake \in 0..1
         /\ RecoveryWakes \in 0..3
<1>1. VersionWake \in 0..1
  BY DEF VersionWake
<1>2. ReportWake \in 0..1
  BY DEF ReportWake
<1>3. RecheckWake \in 0..1
  BY DEF RecheckWake
<1>4. RecoveryWakes \in 0..3
  BY DEF RecoveryWakes, IdleInv
<1> QED
  BY <1>1, <1>2, <1>3, <1>4

\* After something new, nothing that may still wake the owner is too much.
LEMMA WakesFresh ==
  ASSUME NumberTypes', VersionInv', ProgressInv', IdleInv', wakes' = 0
  PROVE  WakeInv'
<1>1. /\ VersionWake' \in 0..1 /\ ReportWake' \in 0..1 /\ RecheckWake' \in 0..1
      /\ RecoveryWakes' \in 0..3
  <2>1. VersionWake' \in 0..1
    BY DEF VersionWake
  <2>2. ReportWake' \in 0..1
    BY DEF ReportWake
  <2>3. RecheckWake' \in 0..1
    BY DEF RecheckWake
  <2>4. RecoveryWakes' \in 0..3
    BY DEF RecoveryWakes, IdleInv
  <2> QED
    BY <2>1, <2>2, <2>3, <2>4
<1>2. wakes' \in Nat
      /\ wakes' + VersionWake' + ReportWake' + RecheckWake' + RecoveryWakes' <= 6
  BY <1>1, WakeSums, Zenon
<1> QED
  BY <1>2 DEF WakeInv

\* An input that is prepared is a pending one.
LEMMA AdmitPends ==
  ASSUME IInv, WakeInv, Admit
  PROVE  ps'.pending # None
<1>1. /\ ps.pending = None /\ ps.version # ps.delivered
      /\ ps' = [Prepare("owner", ps, "text", None) EXCEPT !.pending.attempt = turns]
  BY DEF Admit, NeedsWake
<1> DEFINE f == Fresh("owner", ps, "text", None)
           g == [f EXCEPT !.attempt = turns]
           q == [ps EXCEPT !.pending = f, !.generation = @ + 1]
<1>2. /\ ps.obs \in Observations /\ ps.progress \in Nat \cup {None}
      /\ ps.generation \in Nat /\ turns \in Nat
  BY <1>1 DEF WakeInv, VersionInv, NumberTypes
<1>3. ps.version \in Versions
  BY <1>1 DEF WakeInv, VersionInv, NumberTypes, EventVersion, Versions
<1>4. f.body \in [id : [session : {"owner"}, version : Versions, generation : Nat], text : {"text"}]
  <2>1. ps.generation + 1 \in Nat
    BY <1>2
  <2>2. MessageId("owner", ps) \in [session : {"owner"}, version : Versions, generation : Nat]
    BY <1>3, <2>1 DEF MessageId
  <2>3. f.body = [id |-> MessageId("owner", ps), text |-> "text"]
    BY DEF Fresh
  <2> QED
    BY <2>2, <2>3
<1>5. g = [body |-> f.body, version |-> ps.version, obs |-> ps.obs, progress |-> ps.progress,
           preparedAt |-> None, attempt |-> turns]
  BY DEF Fresh
<1>6. g \in Inputs
  <2> HIDE DEF f, g
  <2> QED
    BY <1>2, <1>3, <1>4, <1>5 DEF Inputs
<1>7. Prepare("owner", ps, "text", None) = q
  BY <1>1 DEF Prepare
<1>8. DOMAIN q = DOMAIN NewJournal /\ q.pending = f
  BY DEF IInv, Types, NewJournal
<1>9. ps' = [q EXCEPT !.pending = [q.pending EXCEPT !.attempt = turns]]
  BY <1>1, <1>7
<1> HIDE DEF f, q
<1>10. ps'.pending = g
  BY <1>8, <1>9 DEF NewJournal
<1> QED
  BY <1>6, <1>10, NoneAssumption

LEMMA AdmitWakes ==
  ASSUME IInv, WakeInv, Admit
  PROVE  WakeInv'
<1>1. /\ ps.pending = None /\ ps.version # ps.delivered
      /\ wakes' = wakes + 1 /\ report' = report
  BY DEF Admit, NeedsWake
<1>2. /\ DOMAIN ps' = DOMAIN NewJournal /\ ps'.pending.version = ps.version
      /\ \A x \in DOMAIN NewJournal \ {"pending", "generation"} : ps'[x] = ps[x]
  BY AdmitDoes DEF IInv
<1>3. /\ ps'.version = ps.version /\ ps'.obs = ps.obs /\ ps'.progress = ps.progress
      /\ ps'.recovery = ps.recovery /\ ps'.recheck = ps.recheck /\ ps'.status = ps.status
      /\ ps'.rechecked = ps.rechecked /\ ps'.idle = ps.idle /\ ps'.delivered = ps.delivered
  BY <1>2 DEF NewJournal
<1>4. VersionInv' /\ ProgressInv' /\ IdleInv' /\ NumberTypes'
  <2>1. ps.obs \in Observations
        /\ ps.version = EventVersion(ps.obs, ps.progress, ps.recovery, ps.recheck)
    BY <1>1 DEF WakeInv, VersionInv
  <2>2. VersionInv'
    BY <1>3, <2>1 DEF VersionInv
  <2>3. ps'.generation \in Nat /\ UNCHANGED <<report, turns, written>>
    BY AdmitDoes DEF Admit, IInv, WakeInv, NumberTypes
  <2> QED
    BY <1>3, <2>2, <2>3 DEF WakeInv, NumberTypes, ProgressInv, IdleInv
<1>5. VersionWake = 1
  BY <1>1 DEF VersionWake, Outstanding
<1>6. VersionWake' = 0
  <2>1. ps'.pending # None
    BY AdmitPends
  <2> QED
    BY <1>2, <1>3, <2>1 DEF VersionWake, Outstanding
<1>7. ReportWake' = ReportWake
  BY <1>1, <1>3 DEF ReportWake
<1>8. RecheckWake' = RecheckWake
  BY <1>3 DEF RecheckWake, Unchecked, Waiting
<1>9. RecoveryWakes' = RecoveryWakes
  BY <1>3 DEF RecoveryWakes
<1>10. /\ wakes \in Nat /\ wakes + VersionWake + ReportWake + RecheckWake + RecoveryWakes <= 6
       /\ ReportWake \in 0..1 /\ RecheckWake \in 0..1 /\ RecoveryWakes \in 0..3
  BY WakeBounds DEF WakeInv
<1>11. wakes' \in Nat
       /\ wakes' + VersionWake' + ReportWake' + RecheckWake' + RecoveryWakes' <= 6
  BY <1>1, <1>5, <1>6, <1>7, <1>8, <1>9, <1>10
<1> QED
  BY <1>4, <1>11 DEF WakeInv

LEMMA ReceiveWakes ==
  ASSUME IInv, WakeInv, Receive
  PROVE  WakeInv'
<1>1. /\ ps.pending # None /\ ps' = Acknowledge(ps)
      /\ UNCHANGED <<wakes, report, turns, written>>
  BY DEF Receive, external, ghosts
<1>2. /\ ps'.pending = None /\ ps'.delivered = ps.pending.version
      /\ ps'.version = ps.version /\ ps'.obs = ps.obs /\ ps'.progress = ps.progress
      /\ ps'.recovery = ps.recovery /\ ps'.recheck = ps.recheck /\ ps'.status = ps.status
      /\ ps'.rechecked = ps.rechecked /\ ps'.idle = ps.idle /\ ps'.generation = ps.generation
  BY <1>1 DEF Acknowledge, IInv, Types, NewJournal
<1>3. VersionInv' /\ ProgressInv' /\ IdleInv' /\ NumberTypes'
  <2>1. VersionInv'
    BY <1>1, <1>2 DEF WakeInv, VersionInv
  <2> QED
    BY <1>1, <1>2, <2>1 DEF WakeInv, NumberTypes, ProgressInv, IdleInv
<1>4. VersionWake' = VersionWake
  BY <1>1, <1>2 DEF VersionWake, Outstanding
<1>5. ReportWake' = ReportWake
  BY <1>1, <1>2 DEF ReportWake
<1>6. RecheckWake' = RecheckWake
  BY <1>2 DEF RecheckWake, Unchecked, Waiting
<1>7. RecoveryWakes' = RecoveryWakes
  BY <1>2 DEF RecoveryWakes
<1>8. wakes' \in Nat
      /\ wakes' + VersionWake' + ReportWake' + RecheckWake' + RecoveryWakes' <= 6
  BY <1>1, <1>4, <1>5, <1>6, <1>7 DEF WakeInv
<1> QED
  BY <1>3, <1>8 DEF WakeInv

\* What is observed is an observation.
LEMMA RefreshObserves ==
  ASSUME IInv, Refresh
  PROVE  Observation \in Observations
<1>1. /\ DependencyVersion = [evidence |-> handoff, generation |-> losses']
      /\ losses' \in Nat /\ handoff \in Evidence \cup {None}
  BY RefreshShows DEF IInv, Types
<1>2. LossGeneration \in Nat
  <2>1. DependencyVersion.generation = LossGeneration
    BY DEF DependencyVersion
  <2> QED
    BY <1>1, <2>1
<1>3. ASSUME NEW p \in PRs
      PROVE  Event(Retained(p)) \in [feedback : Feedbacks, checks : Checks \cup {None}]
  <2>1. Retained(p) \in [state : States, text : Texts, checks : Checks, generation : Nat]
    BY RetainedFacts DEF IInv
  <2>2. Feedback(Retained(p)) \in Feedbacks
    BY <2>1 DEF Feedback, Feedbacks, Raw, States
  <2> QED
    BY <2>1, <2>2 DEF Event
<1> QED
  BY <1>1, <1>2, <1>3 DEF Observation, Observations

\* A refresh that observes nothing new and wakes for something else has adopted the
\* report that was counted.
LEMMA RefreshWakes ==
  ASSUME IInv, WakeInv, Refresh
  PROVE  WakeInv'
<1>1. /\ UNCHANGED <<report, turns, written>>
      /\ wakes' = IF ps'.obs # ps.obs THEN 0 ELSE wakes
  BY DEF Refresh, external
<1>2. /\ ps'.obs = Observation
      /\ ps'.pending = ps.pending /\ ps'.delivered = ps.delivered
      /\ ps'.recovery = ps.recovery /\ ps'.recheck = ps.recheck
      /\ ps'.rechecked = ps.rechecked /\ ps'.idle = ps.idle
      /\ ps'.version = EventVersion(Observation, ps'.progress, ps.recovery, ps.recheck)
      /\ ps'.progress = (IF ReportCurrent /\ Complete /\ report.status = "ready_for_work"
                         THEN report.id ELSE ps.progress)
      /\ ps'.status = (IF ReportCurrent THEN report ELSE ps.status)
      /\ ps'.generation = ps.generation
  BY RefreshDoes DEF IInv
<1>3. VersionInv'
  BY <1>2, RefreshObserves DEF VersionInv
<1>4. ReportCurrent =>
         report # None /\ (Complete <=> (HasProducers => report.event.obs.evidence # None))
  <2> SUFFICES ASSUME ReportCurrent
               PROVE report # None
                     /\ (Complete <=> (HasProducers => report.event.obs.evidence # None))
    OBVIOUS
  <2>1. /\ report # None /\ ps.delivered # None /\ report.event = ps.delivered
        /\ ps.deliveredObs = Observation
    BY DEF ReportCurrent
  <2>2. report.event.obs = Observation
    BY <2>1 DEF IInv, InputInv
  <2>3. Observation.evidence = handoff
    BY DEF Observation
  <2> QED
    BY <2>1, <2>2, <2>3 DEF Complete
<1>5. ProgressInv' /\ IdleInv' /\ NumberTypes'
  <2>1. ProgressInv'
    <3>1. CASE ReportCurrent
      BY <1>2, <1>4, <3>1 DEF ProgressInv
    <3>2. CASE ~ReportCurrent
      BY <1>2, <3>2 DEF WakeInv, ProgressInv
    <3> QED
      BY <3>1, <3>2
  <2>2. IdleInv'
    BY <1>2 DEF WakeInv, IdleInv
  <2>3. NumberTypes'
    BY <1>1, <1>2, <1>4 DEF WakeInv, NumberTypes
  <2> QED
    BY <2>1, <2>2, <2>3
<1>6. CASE wakes' = 0
  BY <1>3, <1>5, <1>6, WakesFresh
<1>7. CASE wakes' # 0
  <2>1. /\ wakes' = wakes /\ ps'.obs = ps.obs
        /\ ps.version = EventVersion(ps.obs, ps.progress, ps.recovery, ps.recheck)
    BY <1>1, <1>7 DEF WakeInv, VersionInv
  <2>2. RecoveryWakes' = RecoveryWakes
    BY <1>2, <2>1 DEF RecoveryWakes
  <2>3. ps'.progress = ps.progress => VersionWake' = VersionWake
    BY <1>2, <2>1 DEF VersionWake, Outstanding
  <2>4. VersionWake' \in 0..1 /\ RecheckWake' \in 0..1
    <3>1. VersionWake' \in 0..1
      BY DEF VersionWake
    <3>2. RecheckWake' \in 0..1
      BY DEF RecheckWake
    <3> QED
      BY <3>1, <3>2
  <2>5. CASE ReportCurrent /\ report # ps.status
    <3>1. ReportWake = 1 /\ ReportWake' = 0
      <4>1. ReportWake = 1
        BY <1>4, <2>5 DEF ReportWake
      <4>2. ReportWake' = 0
        BY <1>1, <1>2, <2>5 DEF ReportWake
      <4> QED
        BY <4>1, <4>2
    <3>2. VersionWake' = VersionWake \/ RecheckWake' = 0
      <4>1. CASE report.status = "ready_for_work"
        <5>1. ~Unchecked'
          BY <1>2, <2>5, <4>1 DEF Unchecked, Waiting
        <5> QED
          BY <5>1 DEF RecheckWake
      <4>2. CASE report.status # "ready_for_work"
        BY <1>2, <2>3, <4>2
      <4> QED
        BY <4>1, <4>2
    <3>3. wakes' + VersionWake' + ReportWake' + RecheckWake' + RecoveryWakes' <= 6
      <4>1. /\ wakes \in Nat /\ wakes + VersionWake + ReportWake + RecheckWake + RecoveryWakes <= 6
            /\ VersionWake \in 0..1 /\ RecheckWake \in 0..1 /\ RecoveryWakes \in 0..3
        BY WakeBounds DEF WakeInv
      <4> QED
        BY <2>1, <2>2, <2>4, <3>1, <3>2, <4>1, WakeSums, Zenon
    <3> QED
      BY <1>3, <1>5, <2>1, <3>3 DEF WakeInv
  <2>6. CASE ~(ReportCurrent /\ report # ps.status)
    <3>1. ps'.status = ps.status
      BY <1>2, <2>6
    <3>2. ps'.progress = ps.progress
      <4>1. CASE ReportCurrent /\ Complete /\ report.status = "ready_for_work"
        BY <1>2, <1>4, <2>6, <4>1 DEF WakeInv, ProgressInv
      <4>2. CASE ~(ReportCurrent /\ Complete /\ report.status = "ready_for_work")
        BY <1>2, <4>2
      <4> QED
        BY <4>1, <4>2
    <3>3. ReportWake' = ReportWake
      BY <1>1, <3>1 DEF ReportWake
    <3>4. RecheckWake' = RecheckWake
      BY <1>2, <3>1 DEF RecheckWake, Unchecked, Waiting
    <3>5. wakes' \in Nat
          /\ wakes' + VersionWake' + ReportWake' + RecheckWake' + RecoveryWakes' <= 6
      BY <2>1, <2>2, <2>3, <3>2, <3>3, <3>4 DEF WakeInv
    <3> QED
      BY <1>3, <1>5, <3>5 DEF WakeInv
  <2> QED
    BY <2>5, <2>6
<1> QED
  BY <1>6, <1>7


\* Of a turn that ended without a usable checkpoint, at most one recovery is made,
\* and only while the last version was delivered.
LEMMA RecoveredDoes ==
  ASSUME IInv, WakeInv, ps.version # None
  PROVE  /\ DOMAIN Recovered = DOMAIN NewJournal
         /\ \A x \in DOMAIN NewJournal \ {"idle", "recovery"} : Recovered[x] = ps[x]
         /\ DOMAIN Recovered.idle = {"source", "attempts", "ids"}
         /\ Recovered.idle.attempts \in 0..3
         /\ \/ /\ Recovered.recovery = ps.recovery
               /\ IF Recovered.idle.source = ps.obs
                  THEN RecoveryWakes = 3 - Recovered.idle.attempts ELSE RecoveryWakes = 3
            \/ /\ Recovered.recovery \in [source : Observations, id : Nat]
               /\ Recovered.idle.source = ps.obs
               /\ RecoveryWakes = 3 - Recovered.idle.attempts + 1
               /\ VersionWake = 0
<1>1. /\ DOMAIN ps = DOMAIN NewJournal
      /\ DOMAIN ps.idle = {"source", "attempts", "ids"} /\ ps.idle.attempts \in 0..3
      /\ ps.obs \in Observations /\ turns \in Nat
  BY DEF IInv, Types, WakeInv, IdleInv, NumberTypes, VersionInv
<1> DEFINE zero == [source |-> ps.obs, attempts |-> 0, ids |-> {}]
           idle == IF ps.idle.source # ps.obs THEN zero ELSE ps.idle
           more == [idle EXCEPT !.attempts = @ + 1, !.ids = @ \cup {turns}]
           found == [source |-> ps.obs, id |-> turns]
<1>2. /\ DOMAIN idle = {"source", "attempts", "ids"} /\ idle.attempts \in 0..3
      /\ idle.source = ps.obs /\ RecoveryWakes = 3 - idle.attempts
  BY <1>1 DEF RecoveryWakes
<1>3. /\ DOMAIN more = {"source", "attempts", "ids"} /\ more.attempts = idle.attempts + 1
      /\ more.source = ps.obs
  <2> HIDE DEF idle
  <2> QED
    BY <1>2
<1>4. \/ Recovered = ps
      \/ Recovered = [ps EXCEPT !.idle = idle]
      \/ /\ ps.pending = None /\ ps.version = ps.delivered /\ ~(idle.attempts >= 3)
         /\ Recovered = [ps EXCEPT !.idle = more, !.recovery = found]
  BY Zenon DEF Recovered
<1>5. found \in [source : Observations, id : Nat]
  BY <1>1
<1> HIDE DEF idle, more, found
<1>6. CASE Recovered = ps
  <2>1. Recovered.recovery = ps.recovery /\ Recovered.idle = ps.idle
    BY <1>6
  <2>2. IF ps.idle.source = ps.obs
        THEN RecoveryWakes = 3 - ps.idle.attempts ELSE RecoveryWakes = 3
    BY DEF RecoveryWakes
  <2> QED
    BY <1>1, <1>6, <2>1, <2>2
<1>7. CASE Recovered = [ps EXCEPT !.idle = idle]
  BY <1>1, <1>2, <1>7 DEF NewJournal
<1>8. CASE /\ ps.pending = None /\ ps.version = ps.delivered /\ ~(idle.attempts >= 3)
           /\ Recovered = [ps EXCEPT !.idle = more, !.recovery = found]
  <2>1. /\ DOMAIN Recovered = DOMAIN NewJournal
        /\ \A x \in DOMAIN NewJournal \ {"idle", "recovery"} : Recovered[x] = ps[x]
        /\ Recovered.idle = more /\ Recovered.recovery = found
    BY <1>1, <1>8 DEF NewJournal
  <2>2. VersionWake = 0
    BY <1>8 DEF VersionWake, Outstanding
  <2>3. more.attempts \in 0..3 /\ RecoveryWakes = 3 - more.attempts + 1
    BY <1>2, <1>3, <1>8
  <2> QED
    BY <1>3, <1>5, <2>1, <2>2, <2>3
<1> QED
  BY <1>4, <1>6, <1>7, <1>8

\* A waiting report is looked at once more, and only while the last version was
\* delivered.
LEMMA RecheckedDoes ==
  ASSUME NEW r, DOMAIN r = DOMAIN NewJournal, r.pending = ps.pending, r.version = ps.version,
         r.delivered = ps.delivered, r.status = ps.status, r.rechecked = ps.rechecked,
         r.obs = ps.obs
  PROVE  /\ DOMAIN Rechecked(r) = DOMAIN NewJournal
         /\ \A x \in DOMAIN NewJournal \ {"rechecked", "recheck"} : Rechecked(r)[x] = r[x]
         /\ \/ Rechecked(r).recheck = r.recheck /\ Rechecked(r).rechecked = r.rechecked
            \/ /\ Rechecked(r).recheck = [obs |-> ps.obs, report |-> ps.status.id]
               /\ Rechecked(r).rechecked = ps.status.id
               /\ ps.status # None /\ VersionWake = 0 /\ RecheckWake = 1
<1> DEFINE again == [obs |-> r.obs, report |-> r.status.id]
<1>1. \/ Rechecked(r) = r
      \/ /\ ~r.terminal /\ r.pending = None /\ ~NeedsWake(r) /\ Waiting(r.status)
         /\ r.rechecked # r.status.id
         /\ Rechecked(r) = [r EXCEPT !.rechecked = r.status.id, !.recheck = again]
  BY Zenon DEF Rechecked
<1>2. CASE Rechecked(r) = r
  BY <1>2
<1>3. CASE /\ ~r.terminal /\ r.pending = None /\ ~NeedsWake(r) /\ Waiting(r.status)
           /\ r.rechecked # r.status.id
           /\ Rechecked(r) = [r EXCEPT !.rechecked = r.status.id, !.recheck = again]
  <2>1. /\ DOMAIN Rechecked(r) = DOMAIN NewJournal
        /\ \A x \in DOMAIN NewJournal \ {"rechecked", "recheck"} : Rechecked(r)[x] = r[x]
        /\ Rechecked(r).rechecked = r.status.id /\ Rechecked(r).recheck = again
    BY <1>3 DEF NewJournal
  <2>2. VersionWake = 0
    BY <1>3 DEF VersionWake, Outstanding, NeedsWake
  <2>3. RecheckWake = 1 /\ ps.status # None
    BY <1>3 DEF RecheckWake, Unchecked, Waiting
  <2> QED
    BY <2>1, <2>2, <2>3
<1> QED
  BY <1>1, <1>2, <1>3


LEMMA ReconsiderWakes ==
  ASSUME IInv, WakeInv, Reconsider
  PROVE  WakeInv'
<1> DEFINE next == Rechecked(Recovered)
<1>1. /\ ps.version # None /\ UNCHANGED <<wakes, report, turns, written>>
      /\ ps' = [next EXCEPT !.version =
                   IF next.recovery # ps.recovery \/ next.recheck # ps.recheck
                   THEN EventVersion(next.obs, next.progress, next.recovery, next.recheck)
                   ELSE ps.version]
  BY DEF Reconsider, external, ghosts
<1>2. PICK r : r = Recovered
  OBVIOUS
<1>3. /\ DOMAIN r = DOMAIN NewJournal
      /\ \A x \in DOMAIN NewJournal \ {"idle", "recovery"} : r[x] = ps[x]
      /\ DOMAIN r.idle = {"source", "attempts", "ids"} /\ r.idle.attempts \in 0..3
      /\ \/ /\ r.recovery = ps.recovery
            /\ IF r.idle.source = ps.obs
               THEN RecoveryWakes = 3 - r.idle.attempts ELSE RecoveryWakes = 3
         \/ /\ r.recovery \in [source : Observations, id : Nat]
            /\ r.idle.source = ps.obs
            /\ RecoveryWakes = 3 - r.idle.attempts + 1
            /\ VersionWake = 0
  BY <1>1, <1>2, RecoveredDoes
<1>4. PICK n : n = Rechecked(r)
  OBVIOUS
<1>5. /\ DOMAIN n = DOMAIN NewJournal
      /\ \A x \in DOMAIN NewJournal \ {"rechecked", "recheck"} : n[x] = r[x]
      /\ \/ n.recheck = r.recheck /\ n.rechecked = r.rechecked
         \/ /\ n.recheck = [obs |-> ps.obs, report |-> ps.status.id]
            /\ n.rechecked = ps.status.id
            /\ ps.status # None /\ VersionWake = 0 /\ RecheckWake = 1
  <2>1. /\ r.pending = ps.pending /\ r.version = ps.version /\ r.delivered = ps.delivered
        /\ r.status = ps.status /\ r.rechecked = ps.rechecked /\ r.obs = ps.obs
    BY <1>3 DEF NewJournal
  <2> QED
    BY <1>3, <1>4, <2>1, RecheckedDoes
<1>6. next = n
  BY <1>2, <1>4
<1> HIDE DEF next
<1>7. /\ n.obs = ps.obs /\ n.progress = ps.progress /\ n.status = ps.status
      /\ n.pending = ps.pending /\ n.delivered = ps.delivered /\ n.generation = ps.generation
      /\ n.recovery = r.recovery /\ n.idle = r.idle
      /\ r.recheck = ps.recheck /\ r.rechecked = ps.rechecked
  BY <1>3, <1>5 DEF NewJournal
<1>8. /\ ps'.obs = ps.obs /\ ps'.progress = ps.progress /\ ps'.status = ps.status
      /\ ps'.pending = ps.pending /\ ps'.delivered = ps.delivered
      /\ ps'.generation = ps.generation
      /\ ps'.recovery = n.recovery /\ ps'.recheck = n.recheck
      /\ ps'.rechecked = n.rechecked /\ ps'.idle = n.idle
      /\ ps'.version = IF n.recovery # ps.recovery \/ n.recheck # ps.recheck
                       THEN EventVersion(ps.obs, ps.progress, n.recovery, n.recheck)
                       ELSE ps.version
  BY <1>1, <1>5, <1>6, <1>7 DEF NewJournal
<1>9. /\ ps.obs \in Observations
      /\ ps.version = EventVersion(ps.obs, ps.progress, ps.recovery, ps.recheck)
  BY <1>1 DEF WakeInv, VersionInv
<1>10. VersionInv'
  BY <1>8, <1>9 DEF VersionInv
<1>11. ProgressInv' /\ IdleInv'
  BY <1>3, <1>7, <1>8 DEF WakeInv, ProgressInv, IdleInv
<1>12. NumberTypes'
  <2>1. ps'.recovery \in [source : Observations, id : Nat] \cup {None}
    BY <1>3, <1>7, <1>8 DEF WakeInv, NumberTypes
  <2>2. ps'.recheck \in [obs : Observations, report : Nat] \cup {None}
    <3>1. CASE n.recheck = ps.recheck
      BY <1>8, <3>1 DEF WakeInv, NumberTypes
    <3>2. CASE n.recheck = [obs |-> ps.obs, report |-> ps.status.id] /\ ps.status # None
      <4>1. ps.status.id \in Nat
        BY <3>2 DEF WakeInv, NumberTypes
      <4> QED
        BY <1>8, <1>9, <3>2, <4>1
    <3> QED
      BY <1>5, <1>7, <3>1, <3>2
  <2> QED
    BY <1>1, <1>8, <2>1, <2>2 DEF WakeInv, NumberTypes
<1>13. ReportWake' = ReportWake
  BY <1>1, <1>8 DEF ReportWake
<1>14. VersionWake' \in 0..1 /\ RecheckWake' \in 0..1
  <2>1. VersionWake' \in 0..1
    BY DEF VersionWake
  <2>2. RecheckWake' \in 0..1
    BY DEF RecheckWake
  <2> QED
    BY <2>1, <2>2
<1>15. \/ RecoveryWakes' = RecoveryWakes /\ n.recovery = ps.recovery
       \/ RecoveryWakes = RecoveryWakes' + 1 /\ VersionWake = 0
  <2>1. RecoveryWakes' = IF r.idle.source = ps.obs THEN 3 - r.idle.attempts ELSE 3
    BY <1>7, <1>8 DEF RecoveryWakes
  <2> QED
    BY <1>3, <1>7, <2>1
<1>16. \/ RecheckWake' = RecheckWake /\ n.recheck = ps.recheck
       \/ RecheckWake' = 0 /\ RecheckWake = 1 /\ VersionWake = 0
  <2>1. CASE n.recheck = r.recheck /\ n.rechecked = r.rechecked
    BY <1>7, <1>8, <2>1 DEF RecheckWake, Unchecked, Waiting
  <2>2. CASE n.rechecked = ps.status.id /\ VersionWake = 0 /\ RecheckWake = 1
    <3>1. ~Unchecked'
      BY <1>8, <2>2 DEF Unchecked
    <3> QED
      BY <2>2, <3>1 DEF RecheckWake
  <2> QED
    BY <1>5, <1>7, <2>1, <2>2
<1>17. n.recovery = ps.recovery /\ n.recheck = ps.recheck => VersionWake' = VersionWake
  BY <1>8 DEF VersionWake, Outstanding
<1>18. /\ wakes \in Nat /\ wakes + VersionWake + ReportWake + RecheckWake + RecoveryWakes <= 6
       /\ VersionWake \in 0..1 /\ ReportWake \in 0..1 /\ RecheckWake \in 0..1
       /\ RecoveryWakes \in 0..3
  BY WakeBounds DEF WakeInv
<1>19. RecoveryWakes' \in 0..3
  BY <1>11 DEF RecoveryWakes, IdleInv
<1>20. wakes + VersionWake' + ReportWake + RecheckWake' + RecoveryWakes' <= 6
  <2>1. CASE n.recovery = ps.recovery /\ n.recheck = ps.recheck /\ VersionWake' = VersionWake
             /\ RecheckWake' = RecheckWake /\ RecoveryWakes' = RecoveryWakes
    BY <1>18, <2>1
  <2>2. CASE VersionWake = 0 /\ RecoveryWakes = RecoveryWakes' + 1 /\ RecheckWake' = RecheckWake
    <3>1. wakes + 0 + ReportWake + RecheckWake + RecoveryWakes <= 6
      BY <1>18, <2>2
    <3> QED
      BY <1>14, <1>18, <1>19, <2>2, <3>1, WakeSums, Zenon
  <2>3. CASE VersionWake = 0 /\ RecheckWake' = 0 /\ RecheckWake = 1
    <3>1. RecoveryWakes' <= RecoveryWakes
      BY <1>15, <1>18, <1>19, WakeSums, Zenon
    <3>2. wakes + 0 + ReportWake + 1 + RecoveryWakes <= 6
      BY <1>18, <2>3
    <3> QED
      BY <1>14, <1>18, <1>19, <2>3, <3>1, <3>2, WakeSums, Zenon
  <2> QED
    BY <1>15, <1>16, <1>17, <2>1, <2>2, <2>3
<1>21. wakes' \in Nat
       /\ wakes' + VersionWake' + ReportWake' + RecheckWake' + RecoveryWakes' <= 6
  BY <1>1, <1>13, <1>18, <1>20
<1> QED
  BY <1>10, <1>11, <1>12, <1>21 DEF WakeInv

\* A step that neither writes a report nor touches the journal.
LEMMA SameWakes ==
  ASSUME WakeInv, UNCHANGED <<ps, report, wakes>>, turns' \in Nat,
         written' \in [changes : Nat, reports : Nat, audits : Nat]
  PROVE  WakeInv'
<1>1. NumberTypes' /\ VersionInv' /\ ProgressInv' /\ IdleInv'
  BY DEF WakeInv, NumberTypes, VersionInv, ProgressInv, IdleInv
<1>2. VersionWake' = VersionWake
  BY DEF VersionWake, Outstanding
<1>3. ReportWake' = ReportWake /\ RecheckWake' = RecheckWake /\ RecoveryWakes' = RecoveryWakes
  BY DEF ReportWake, RecheckWake, Unchecked, Waiting, RecoveryWakes
<1> QED
  BY <1>1, <1>2, <1>3 DEF WakeInv

\* A report is something new.
LEMMA WriteWakes ==
  ASSUME WakeInv, UNCHANGED <<ps, turns>>,
         written' \in [changes : Nat, reports : Nat, audits : Nat],
         NEW input, NEW status, NEW audited, WriteReport(input, status, audited)
  PROVE  WakeInv'
<1>1. wakes' = 0 /\ report'.id = written'.reports
  BY DEF WriteReport
<1>2. NumberTypes' /\ VersionInv' /\ ProgressInv' /\ IdleInv'
  BY <1>1 DEF WakeInv, NumberTypes, VersionInv, ProgressInv, IdleInv
<1> QED
  BY <1>1, <1>2, WakesFresh

LEMMA NextWakes == IInv /\ WakeInv /\ [Next]_vars => WakeInv'
<1> SUFFICES ASSUME IInv, WakeInv, [Next]_vars PROVE WakeInv'
  OBVIOUS
<1>1. turns \in Nat /\ written \in [changes : Nat, reports : Nat, audits : Nat]
  BY DEF WakeInv, NumberTypes
<1>2. /\ [written EXCEPT !.changes = @ + 1] \in [changes : Nat, reports : Nat, audits : Nat]
      /\ [written EXCEPT !.reports = @ + 1] \in [changes : Nat, reports : Nat, audits : Nat]
      /\ [written EXCEPT !.audits = @ + 1] \in [changes : Nat, reports : Nat, audits : Nat]
  BY <1>1
<1>3. CASE Admit
  BY <1>3, AdmitWakes
<1>4. CASE Receive
  BY <1>4, ReceiveWakes
<1>5. CASE Reconsider
  BY <1>5, ReconsiderWakes
<1>6. CASE Refresh
  BY <1>6, RefreshWakes
<1>7. CASE \E p \in PRs : Collect(p)
  BY <1>1, <1>7, SameWakes DEF Collect, external, ghosts
<1>8. CASE \E p \in PRs : ForgeChange(p)
  BY <1>1, <1>2, <1>8, SameWakes DEF ForgeChange, ghosts
<1>9. CASE \E p \in PRs : Audit(p)
  BY <1>1, <1>2, <1>9, SameWakes DEF Audit, ghosts
<1>10. CASE Handoff
  BY <1>1, <1>2, <1>10, SameWakes DEF Handoff, ghosts
<1>11. CASE EndTurn
  BY <1>1, <1>11, SameWakes DEF EndTurn, ghosts
<1>12. CASE Report
  <2>1. PICK input \in posted, status \in {"waiting", "ready_for_work", "complete"},
             audited \in SUBSET PRs : WriteReport(input, status, audited)
    BY <1>12, Zenon DEF Report
  <2>2. UNCHANGED <<ps, turns>> /\ written' = [written EXCEPT !.reports = @ + 1]
    BY <1>12 DEF Report
  <2> QED
    BY <1>2, <2>1, <2>2, WriteWakes
<1>13. CASE \E input \in posted : CompleteReport(input)
  BY <1>1, <1>13, WriteWakes DEF CompleteReport
<1>14. CASE UNCHANGED vars
  BY <1>1, <1>14, SameWakes DEF vars, external, ghosts
<1> QED
  BY <1>3, <1>4, <1>5, <1>6, <1>7, <1>8, <1>9, <1>10, <1>11, <1>12, <1>13, <1>14, Zenon
  DEF Next, Campaign, External

\* An owner that nothing new is observed of or written by is woken six times at
\* most, whatever the order of refreshes, cycles and the late adoption of a report:
\* needs_wake, schedule_recheck and the limit of record_idle_recovery together.
THEOREM WakesAreBounded == Spec => []BoundedWakes
<1>1. Init => WakeInv
  <2> SUFFICES ASSUME Init PROVE WakeInv
    OBVIOUS
  <2>1. /\ ps = NewJournal /\ report = None /\ turns = 0 /\ wakes = 0
        /\ written = [changes |-> 0, reports |-> 0, audits |-> 0]
    BY DEF Init
  <2>2. /\ ps.pending = None /\ ps.version = None /\ ps.delivered = None /\ ps.status = None
        /\ ps.generation = 0 /\ ps.progress = None /\ ps.recovery = None /\ ps.recheck = None
        /\ ps.idle = [source |-> None, attempts |-> 0, ids |-> {}]
    BY <2>1 DEF NewJournal
  <2>3. NumberTypes /\ VersionInv /\ ProgressInv /\ IdleInv
    BY <2>1, <2>2 DEF NumberTypes, VersionInv, ProgressInv, IdleInv
  <2>4. wakes \in Nat /\ wakes + VersionWake + ReportWake + RecheckWake + RecoveryWakes <= 6
    BY <2>1, <2>3, WakeBounds, WakeSums, Zenon
  <2> QED
    BY <2>3, <2>4 DEF WakeInv
<1>2. IInv /\ WakeInv => BoundedWakes
  <2> SUFFICES ASSUME WakeInv PROVE wakes <= 6
    BY DEF BoundedWakes
  <2>1. /\ wakes \in Nat /\ wakes + VersionWake + ReportWake + RecheckWake + RecoveryWakes <= 6
        /\ VersionWake \in 0..1 /\ ReportWake \in 0..1 /\ RecheckWake \in 0..1
        /\ RecoveryWakes \in 0..3
    BY WakeBounds DEF WakeInv
  <2> QED
    BY <2>1
<1> QED
  BY <1>1, <1>2, Invariance, NextWakes, PTL DEF Spec


=============================================================================
