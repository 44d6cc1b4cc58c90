--------------------------- MODULE CampaignAudit ---------------------------
(***************************************************************************)
(* The journal of one packet (src/orchestration.rs): refresh over native   *)
(* pull requests, producer evidence, worker reports and historical audits; *)
(* the bounded recheck and idle recovery of a cycle; and finished.         *)
(*                                                                         *)
(* Refresh works on a copy and commits it whole, so it is one action.  The *)
(* admission of an event is reduced to its two ends, Admit and Receive;    *)
(* what happens between them is the subject of CampaignDriver.  A report   *)
(* file is atomic and the last one written; the worker may write it at any *)
(* time after its input was posted, for any input it ever got, and so may  *)
(* the auditor write an audit of what he once read.                        *)
(*                                                                         *)
(* Left out: imports of older journals, malformed files (refresh rejects   *)
(* them as a whole), linked release pull requests (treated as the packet's *)
(* own), lastError, and the delays, of which only the order is kept: an    *)
(* idle message counts when its turn ended after the delivered attempt.    *)
(***************************************************************************)
EXTENDS CampaignJournal, FiniteSets

CONSTANTS
    PRs,         \* pull requests of the packet
    Initially,   \* states of the pull requests when the packet is assigned
    Texts,       \* heads and comments a pull request may show
    Evidence,    \* digests of the producer's handoff; {} when there is no producer
    Checks,      \* states of the checks
    MaxForge,    \* bound: changes of pull requests and of the handoff
    MaxReports,  \* bound: reports other than complete audits of the last input
    MaxAudits,   \* bound: historical audits written
    MaxTurns     \* bound: inputs admitted

ASSUME AuditAssumption ==
    /\ MaxForge \in Nat /\ MaxReports \in Nat /\ MaxAudits \in Nat /\ MaxTurns \in Nat
    /\ Initially \subseteq {"OPEN", "MERGED", "CLOSED"}
    /\ None \notin Evidence

VARIABLES
    forge,    \* the native pull requests
    handoff,  \* the producer's evidence, None when missing or blank
    prs,      \* the journal's copy of the pull requests, with their generation
    ps,       \* the packet journal
    report,   \* the worker's report file
    audit,    \* the historical audit file
    session,  \* the owner session: "idle" or "busy"
    turns,    \* turns that ended; the last one's number is the idle message
    posted,   \* inputs posted: their version and what it was based on
    written,  \* reports and audits written so far, and changes made
    epoch,    \* observed changes of each pull request's feedback
    losses,   \* observed losses of the producer's evidence
    basis,    \* what each adopted audit was based on
    owed,     \* the last adopted report was a waiting one
    wakes     \* inputs admitted since anything new was observed or reported

external == <<forge, handoff, report, audit, session, turns, written>>
ghosts == <<epoch, losses, basis, owed, wakes>>
vars == <<external, prs, ps, posted, ghosts>>

HasProducers == Evidence # {}
Closed == {"MERGED", "CLOSED"}
NoAudit == [p \in PRs |-> None]

-----------------------------------------------------------------------------
\* feedback_inputs: what a historical audit has looked at.
Raw(pr) == [state |-> pr.state, text |-> pr.text]

\* feedback_version: the same, made distinct by the retained generation.
Feedback(pr) == [raw |-> Raw(pr), generation |-> pr.generation]

\* event_version: everything native, except that checks of a closed pull
\* request do not count.
Event(pr) ==
    [feedback |-> Feedback(pr), checks |-> IF pr.state \in Closed THEN None ELSE pr.checks]

\* What was observed or audited of a pull request and of the producers, and what an
\* audit was based on.
Feedbacks == [raw : [state : {"OPEN"} \cup Closed, text : Texts], generation : Nat]
Dependencies == [evidence : Evidence \cup {None}, generation : Nat]
Bases == [epoch : [PRs -> Nat], losses : Nat, evidence : Evidence \cup {None}]

\* What a refresh observes, the versions of it, and the inputs posted for them.
Observations ==
    [prs : [PRs -> [feedback : Feedbacks, checks : Checks \cup {None}]],
     evidence : Evidence \cup {None}, generation : Nat]
Versions ==
    [obs : Observations, progress : Nat \cup {None},
     recovery : [source : Observations, id : Nat] \cup {None},
     recheck : [obs : Observations, report : Nat] \cup {None}]
Inputs ==
    [body : [id : [session : {"owner"}, version : Versions, generation : Nat], text : {"text"}],
     version : Versions, obs : Observations, progress : Nat \cup {None},
     preparedAt : {None}, attempt : Nat \cup {None}]

\* An optional field that is present is not the absent one.
ASSUME NoneAssumption ==
    None \notin Feedbacks /\ None \notin Dependencies /\ None \notin Bases /\ None \notin Inputs

NewJournal ==
    [obs |-> None, progress |-> None, recovery |-> None, recheck |-> None,
     version |-> None, pending |-> None, generation |-> 0, terminal |-> FALSE,
     delivered |-> None, deliveredObs |-> None, deliveredProgress |-> None,
     deliveredPreparedAt |-> None, deliveredAttempt |-> None,
     observed |-> [p \in PRs |-> None],
     auditedFeedback |-> NoAudit, auditedDependencies |-> NoAudit, checkpoints |-> NoAudit,
     lossGeneration |-> 0, incomplete |-> FALSE, dependencyVersion |-> None,
     status |-> None, waiting |-> FALSE, backlog |-> FALSE, rechecked |-> None,
     idle |-> [source |-> None, attempts |-> 0, ids |-> {}]]

Init ==
    /\ forge \in [PRs -> [state : Initially, text : Texts, checks : Checks]]
    /\ handoff \in IF HasProducers THEN Evidence \cup {None} ELSE {None}
    /\ prs = [p \in PRs |-> [state |-> forge[p].state, text |-> forge[p].text,
                             checks |-> forge[p].checks, generation |-> 0]]
    /\ ps = NewJournal
    /\ report = None /\ audit = None
    /\ session = "idle" /\ turns = 0 /\ posted = {}
    /\ written = [changes |-> 0, reports |-> 0, audits |-> 0]
    /\ epoch = [p \in PRs |-> 0] /\ losses = 0
    /\ basis = NoAudit /\ owed = FALSE /\ wakes = 0

-----------------------------------------------------------------------------
\* Mutant: the generation stays when feedback changes.
RetainedConstant(p) == [prs[p] EXCEPT !.generation = 0]

\* The journal's pull request with the generation it retains: one more than
\* before when the feedback differs from the last one observed.
Retained(p) ==
    LET prior == ps.observed[p]
    IN  [prs[p] EXCEPT !.generation =
            IF prior = None THEN 0
            ELSE IF prior.raw # Raw(prs[p]) THEN prior.generation + 1
            ELSE prior.generation]

Complete == ~HasProducers \/ handoff # None

\* Mutant: returning evidence restores the old fingerprint.
LossConstant == 0

\* dependencyGeneration: one more on each transition to incomplete evidence.
LossGeneration ==
    IF ~Complete /\ ~ps.incomplete THEN ps.lossGeneration + 1 ELSE ps.lossGeneration

DependencyVersion == [evidence |-> handoff, generation |-> LossGeneration]

Observation ==
    [prs |-> [p \in PRs |-> Event(Retained(p))],
     evidence |-> handoff, generation |-> LossGeneration]

\* Mutant: a report counts when its event was delivered, whatever happened since.
ReportUnbound ==
    /\ report # None /\ ps.delivered # None
    /\ report.event = ps.delivered

\* A report counts only for the delivered event, and only while that event's
\* observation is the one observed now.
ReportCurrent ==
    /\ report # None /\ ps.delivered # None
    /\ report.event = ps.delivered
    /\ ps.deliveredObs = Observation

\* A checkpoint is the event and the item that audits p.
Checkpoint(p) == [event |-> report.event, head |-> report.heads[p]]

\* The report audits p: p is closed, at the head audited, and this checkpoint
\* was not adopted before.
ReportAudits(p) ==
    /\ ReportCurrent
    /\ Complete
    /\ p \in report.audited
    /\ prs[p].state \in Closed
    /\ report.heads[p] = prs[p].text
    /\ ps.checkpoints[p] # Checkpoint(p)

\* Mutant: a historical audit is adopted without its producer fingerprint.
HistoricalAuditsAnyEvidence(p) ==
    /\ audit # None
    /\ Complete
    /\ audit.pr = p
    /\ audit.feedback = Feedback(Retained(p))

\* The historical audit is of the feedback, and the producers, of now.
HistoricalAudits(p) ==
    /\ audit # None
    /\ Complete
    /\ audit.pr = p
    /\ audit.feedback = Feedback(Retained(p))
    /\ HasProducers => audit.dependencies = DependencyVersion

Waiting(s) == s # None /\ s.status = "waiting"

\* Mutant: a waiting report counts only while it answers the input delivered last.
OwesWhileCurrent(s) == Waiting(s.status) /\ s.status.event = s.delivered

\* The waiting obligation of a journal: the report adopted last, or an earlier
\* one that became stale before it was released.
OwesReport(s) == s.waiting \/ Waiting(s.status)

\* refresh_in_place for this packet.
Refreshed ==
    LET complete == Complete
        current == ReportCurrent
        now == [p \in PRs |-> Retained(p)]
        dependencies == DependencyVersion
        adopted == {p \in PRs : ReportAudits(p) \/ HistoricalAudits(p)}
        status == IF current THEN report ELSE ps.status
        waiting == IF current THEN Waiting(report) ELSE OwesReport(ps)
        progress == IF current /\ complete /\ report.status = "ready_for_work"
                    THEN report.id ELSE ps.progress
        feedback == [p \in PRs |-> IF p \in adopted THEN Feedback(now[p])
                                   ELSE ps.auditedFeedback[p]]
        audited == [p \in PRs |-> IF p \in adopted THEN dependencies
                                  ELSE IF complete THEN ps.auditedDependencies[p] ELSE None]
        backlog == \E p \in PRs :
                      /\ now[p].state \in Closed
                      /\ \/ ~complete
                         \/ feedback[p] # Feedback(now[p])
                         \/ HasProducers /\ audited[p] # dependencies
        next == [ps EXCEPT
                    !.obs = Observation, !.progress = progress,
                    !.version = EventVersion(Observation, progress, ps.recovery, ps.recheck),
                    !.observed = [p \in PRs |-> [raw |-> Raw(now[p]), generation |-> now[p].generation]],
                    !.auditedFeedback = feedback, !.auditedDependencies = audited,
                    !.checkpoints = [p \in PRs |-> IF ReportAudits(p) THEN Checkpoint(p) ELSE @[p]],
                    !.lossGeneration = LossGeneration, !.incomplete = ~complete,
                    !.dependencyVersion = dependencies,
                    !.status = status, !.waiting = waiting, !.backlog = backlog]
    IN  [next EXCEPT !.terminal =
            /\ complete /\ ~backlog
            /\ ~OwesReport(next)
            /\ ~UndeliveredProgress(next)
            /\ \A p \in PRs : now[p].state \in Closed]

Refresh ==
    /\ ps' = Refreshed
    /\ prs' = [p \in PRs |-> Retained(p)]
    /\ epoch' = [p \in PRs |->
                    IF ps.observed[p] # None /\ ps.observed[p].raw # Raw(prs[p])
                    THEN epoch[p] + 1 ELSE epoch[p]]
    /\ losses' = IF ~Complete /\ ~ps.incomplete THEN losses + 1 ELSE losses
    /\ basis' = [p \in PRs |-> IF HistoricalAudits(p) THEN audit.basis
                               ELSE IF ReportAudits(p) THEN report.basis ELSE basis[p]]
    /\ owed' = IF ps'.status # ps.status THEN Waiting(report) ELSE owed
    /\ wakes' = IF ps'.obs # ps.obs THEN 0 ELSE wakes
    /\ UNCHANGED <<external, posted>>

-----------------------------------------------------------------------------
\* The cycle admits the event: the input is prepared, its attempt recorded, and
\* it reaches the session.
Admit ==
    LET prepared == Prepare("owner", ps, "text", None)
    IN  /\ session = "idle"
        /\ turns < MaxTurns
        /\ NeedsWake(ps)
        /\ ps' = [prepared EXCEPT !.pending.attempt = turns]
        /\ session' = "busy"
        /\ posted' = posted \cup
              {[version |-> ps.version,
                basis |-> [epoch |-> epoch, losses |-> losses, evidence |-> ps.obs.evidence]]}
        /\ wakes' = wakes + 1
        /\ UNCHANGED <<forge, handoff, report, audit, turns, written, prs,
                       epoch, losses, basis, owed>>

\* A later cycle finds the input in the inbox or the transcript.
Receive ==
    /\ ps.pending # None
    /\ ps' = Acknowledge(ps)
    /\ UNCHANGED <<external, prs, posted, ghosts>>

\* Mutant: recoveries of one observation are not counted against a limit.
RecoveredUncapped ==
    LET fresh == ps.idle.source # ps.obs
        idle == IF fresh THEN [source |-> ps.obs, attempts |-> 0, ids |-> {}] ELSE ps.idle
        valid == ps.status # None /\ ~(ps.backlog /\ ps.status.status = "complete")
    IN  IF \/ ps.terminal \/ ps.pending # None \/ ps.version # ps.delivered
           \/ ps.deliveredAttempt = None \/ turns <= ps.deliveredAttempt
           \/ valid /\ ps.status.event = ps.delivered
        THEN ps
        ELSE IF turns \in idle.ids
        THEN [ps EXCEPT !.idle = idle]
        ELSE [ps EXCEPT !.idle = [idle EXCEPT !.attempts = @ + 1, !.ids = @ \cup {turns}],
                        !.recovery = [source |-> ps.obs, id |-> turns]]

\* record_idle_recovery: a turn that began with the delivered input ended
\* without a usable checkpoint; at most three times for one observation.
Recovered ==
    LET fresh == ps.idle.source # ps.obs
        idle == IF fresh THEN [source |-> ps.obs, attempts |-> 0, ids |-> {}] ELSE ps.idle
        valid == ps.status # None /\ ~(ps.backlog /\ ps.status.status = "complete")
    IN  IF \/ ps.terminal \/ ps.pending # None \/ ps.version # ps.delivered
           \/ ps.deliveredAttempt = None \/ turns <= ps.deliveredAttempt
           \/ valid /\ ps.status.event = ps.delivered
        THEN ps
        ELSE IF turns \in idle.ids \/ idle.attempts >= 3
        THEN [ps EXCEPT !.idle = idle]
        ELSE [ps EXCEPT !.idle = [idle EXCEPT !.attempts = @ + 1, !.ids = @ \cup {turns}],
                        !.recovery = [source |-> ps.obs, id |-> turns]]

\* schedule_recheck: one more look for each waiting report.
Rechecked(s) ==
    IF \/ s.terminal \/ s.pending # None \/ NeedsWake(s)
       \/ ~Waiting(s.status)
       \/ s.status.event # s.delivered
       \/ s.rechecked = s.status.id
    THEN s
    ELSE [s EXCEPT !.rechecked = s.status.id,
                   !.recheck = [obs |-> s.obs, report |-> s.status.id]]

\* What a cycle does for an owner that is not occupied; the version changes with
\* the identities of the recovery and the recheck.
Reconsider ==
    LET next == Rechecked(Recovered)
    IN  /\ session = "idle"
        /\ ps.version # None
        /\ next # ps
        /\ ps' = [next EXCEPT !.version =
                     IF next.recovery # ps.recovery \/ next.recheck # ps.recheck
                     THEN EventVersion(next.obs, next.progress, next.recovery, next.recheck)
                     ELSE ps.version]
        /\ UNCHANGED <<external, prs, posted, ghosts>>

\* The evidence of this journal version that finished recomputes.
DependenciesComplete == ~HasProducers \/ ps.obs.evidence # None

\* The collected feedback is still the one that was refreshed.
FeedbackCurrent ==
    \A p \in PRs : ps.observed[p] = [raw |-> Raw(prs[p]), generation |-> prs[p].generation]

\* finished, over an idle host.
Finished ==
    /\ session = "idle"
    /\ ps.version # None
    /\ ps.terminal
    /\ FeedbackCurrent
    /\ ~ps.incomplete
    /\ DependenciesComplete
    /\ ~OwesReport(ps)
    /\ ~UndeliveredProgress(ps)
    /\ ps.pending = None
    /\ \A p \in PRs :
          /\ prs[p].state \in Closed
          /\ ps.auditedFeedback[p] = Feedback(prs[p])
          /\ HasProducers =>
                /\ ps.dependencyVersion =
                      [evidence |-> ps.obs.evidence, generation |-> ps.lossGeneration]
                /\ ps.auditedDependencies[p] = ps.dependencyVersion

-----------------------------------------------------------------------------
\* A pull request moves: a comment, a push, new checks, a merge, a closure or a
\* reopening.
ForgeChange(p) ==
    /\ written.changes < MaxForge
    /\ written' = [written EXCEPT !.changes = @ + 1]
    /\ \/ \E t \in Texts : forge' = [forge EXCEPT ![p].text = t]
       \/ \E c \in Checks : forge' = [forge EXCEPT ![p].checks = c]
       \/ /\ forge[p].state = "OPEN"
          /\ \E s \in Closed : forge' = [forge EXCEPT ![p].state = s]
       \/ /\ forge[p].state = "CLOSED"
          /\ forge' = [forge EXCEPT ![p].state = "OPEN"]
    /\ forge' # forge
    /\ UNCHANGED <<handoff, report, audit, session, turns, prs, ps, posted, ghosts>>

\* The producer publishes other evidence, or it can no longer be read.
Handoff ==
    /\ written.changes < MaxForge
    /\ written' = [written EXCEPT !.changes = @ + 1]
    /\ HasProducers
    /\ handoff' \in (Evidence \cup {None}) \ {handoff}
    /\ UNCHANGED <<forge, report, audit, session, turns, prs, ps, posted, ghosts>>

\* The collector replaces the native record, and with it the generation.
Collect(p) ==
    LET native == [state |-> forge[p].state, text |-> forge[p].text,
                   checks |-> forge[p].checks, generation |-> 0]
    IN  /\ [prs[p] EXCEPT !.generation = 0] # native
        /\ prs' = [prs EXCEPT ![p] = native]
        /\ UNCHANGED <<external, ps, posted, ghosts>>

\* The owner's turn ends, with or without a report.
EndTurn ==
    /\ session = "busy"
    /\ session' = "idle"
    /\ turns' = turns + 1
    /\ UNCHANGED <<forge, handoff, report, audit, written, prs, ps, posted, ghosts>>

\* The worker reports on some input it got: what it claims to have audited, at
\* the heads it sees.
WriteReport(input, status, audited) ==
    LET next == [id |-> written'.reports,
                 event |-> input.version, status |-> status,
                 audited |-> audited, heads |-> [p \in PRs |-> forge[p].text],
                 basis |-> input.basis]
    IN  /\ report # next
        /\ report' = next
        /\ wakes' = 0

Report ==
    /\ written.reports < MaxReports
    /\ written' = [written EXCEPT !.reports = @ + 1]
    /\ \E input \in posted, status \in {"waiting", "ready_for_work", "complete"}, audited \in SUBSET PRs :
          WriteReport(input, status, audited)
    /\ UNCHANGED <<forge, handoff, audit, session, turns, prs, ps, posted,
                   epoch, losses, basis, owed>>

\* A complete audit of the input delivered last.
CompleteReport(input) ==
    /\ ps.delivered # None /\ input.version = ps.delivered
    /\ UNCHANGED written
    /\ WriteReport(input, "complete", PRs)
    /\ UNCHANGED <<forge, handoff, audit, session, turns, prs, ps, posted,
                   epoch, losses, basis, owed>>

\* The auditor writes down the fingerprints he finds in the journal.
Audit(p) ==
    /\ written.audits < MaxAudits
    /\ written' = [written EXCEPT !.audits = @ + 1]
    /\ ps.version # None
    /\ audit' = [pr |-> p, feedback |-> Feedback(prs[p]), dependencies |-> ps.dependencyVersion,
                 basis |-> [epoch |-> epoch, losses |-> losses, evidence |-> ps.obs.evidence]]
    /\ UNCHANGED <<forge, handoff, report, session, turns, prs, ps, posted, ghosts>>

Campaign == Admit \/ Receive \/ Reconsider \/ Refresh \/ \E p \in PRs : Collect(p)

External ==
    \/ \E p \in PRs : ForgeChange(p) \/ Audit(p)
    \/ Handoff \/ EndTurn \/ Report
    \/ \E input \in posted : CompleteReport(input)

Next == Campaign \/ External

Spec == Init /\ [][Next]_vars

-----------------------------------------------------------------------------
\* A finished packet is closed and audited by somebody who knew everything the
\* journal has observed: late reports, replayed audits, a reopened and reclosed
\* pull request, evidence that was lost and came back, and a collection newer
\* than the refresh all leave it unfinished.
FinishedIsAudited ==
    Finished =>
        \A p \in PRs :
            /\ prs[p].state \in Closed
            /\ ps.observed[p].raw = Raw(prs[p])
            /\ basis[p] # None
            /\ basis[p].epoch[p] = epoch[p]
            /\ HasProducers => /\ basis[p].losses = losses
                               /\ basis[p].evidence = ps.obs.evidence
                               /\ ps.obs.evidence # None

\* A report is adopted only while nothing has changed since the input it answers
\* was posted: "old progress never certifies new feedback, checks or dependency
\* evidence".
AdoptionIsCurrent ==
    [][ps'.status # ps.status =>
          /\ ps'.status.basis.epoch = epoch'
          /\ ps'.status.basis.losses = losses'
          /\ ps'.status.basis.evidence = ps'.obs.evidence]_vars

\* A waiting report keeps the packet open until a report bound to a delivered
\* input says otherwise, whatever becomes stale in between.
WaitingHeld == owed => ~ps.terminal

\* While nothing new is observed or written, an owner is woken at most for the
\* event, for one recheck, for the report written last when it is adopted late, and
\* for three recoveries; then it is left alone.
BoundedWakes == wakes <= 6

\* A worker that answers its inputs gets a packet finished once its pull requests
\* are closed, its producers are complete, and both stay so.
FairSpec ==
    /\ Spec
    /\ WF_vars(Campaign)
    /\ WF_vars(EndTurn)
    /\ WF_vars(\E input \in posted : CompleteReport(input))

Settled == (\A p \in PRs : forge[p].state \in Closed) /\ (HasProducers => handoff # None)

EventuallyFinished == <>[]Settled => <>Finished
=============================================================================
