-------------------------- MODULE CampaignJournal --------------------------
(***************************************************************************)
(* The admission part of a packet journal (src/orchestration.rs): the      *)
(* version of an event, the exact pending input and its acknowledgement.   *)
(*                                                                         *)
(* A digest is modelled by the value it is computed from, which is what    *)
(* SHA-256 over canonical JSON is taken for: two digests are equal exactly *)
(* when their inputs are.  Optional JSON fields are None when absent.      *)
(***************************************************************************)
EXTENDS Naturals

CONSTANT None

\* The four inputs of a packet version: the observation, the last adopted
\* progress, and the last recovery and recheck.
EventVersion(obs, progress, recovery, recheck) ==
    [obs |-> obs, progress |-> progress, recovery |-> recovery, recheck |-> recheck]

\* needs_wake: an event that is neither delivered nor on its way.
NeedsWake(ps) ==
    /\ ~ps.terminal
    /\ ps.pending = None
    /\ ps.version # ps.delivered

\* The identity of a fresh input: a digest over the session, the version and an
\* admission generation.
MessageId(p, ps) == [session |-> p, version |-> ps.version, generation |-> ps.generation + 1]

\* A fresh pending input: its body is fixed here, text included.
Fresh(p, ps, text, at) ==
    [body |-> [id |-> MessageId(p, ps), text |-> text],
     version |-> ps.version, obs |-> ps.obs, progress |-> ps.progress,
     preparedAt |-> at, attempt |-> None]

\* Mutant: a retained pending input is prepared again with today's text.
PrepareAgain(p, ps, text, at) ==
    [ps EXCEPT !.pending = IF ps.pending = None THEN Fresh(p, ps, text, at)
                           ELSE [ps.pending EXCEPT !.body.text = text],
               !.generation = IF ps.pending = None THEN @ + 1 ELSE @]

\* prepare: a retained pending input stays as it is; otherwise a fresh one
\* takes the next admission generation.
Prepare(p, ps, text, at) ==
    IF ps.pending # None THEN ps
    ELSE [ps EXCEPT !.pending = Fresh(p, ps, text, at), !.generation = @ + 1]

\* Mutant: the pending input stays after it was acknowledged.
AcknowledgeRetained(ps) ==
    [ps EXCEPT !.delivered = ps.pending.version,
               !.deliveredObs = ps.pending.obs,
               !.deliveredProgress = ps.pending.progress,
               !.deliveredPreparedAt = ps.pending.preparedAt,
               !.deliveredAttempt = ps.pending.attempt]

\* acknowledge: the bindings of the pending input become those delivered.
Acknowledge(ps) ==
    [ps EXCEPT !.delivered = ps.pending.version,
               !.deliveredObs = ps.pending.obs,
               !.deliveredProgress = ps.pending.progress,
               !.deliveredPreparedAt = ps.pending.preparedAt,
               !.deliveredAttempt = ps.pending.attempt,
               !.pending = None]

\* undelivered_progress: adopted progress whose continuation was never delivered.
UndeliveredProgress(ps) ==
    /\ ps.progress # None
    /\ ps.progress # ps.deliveredProgress
=============================================================================
