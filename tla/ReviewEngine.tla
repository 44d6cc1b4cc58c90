--------------------------- MODULE ReviewEngine ----------------------------
(***************************************************************************)
(* ensure_once (src/review/engine.rs) and the commands built on it         *)
(* (src/review/cli.rs): ensure, the gate that publishes the policy check,  *)
(* dispositions, and the merge that requires a review                      *)
(* (src/review/github.rs).                                                 *)
(*                                                                         *)
(* A process runs one command after the other.  Each host has a journal    *)
(* behind a lock file, which also carries the sentinel that says the       *)
(* journal was saved.  A crash, a failed save and a failed read all end    *)
(* the command and release the lock; what was saved stays.                 *)
(***************************************************************************)
EXTENDS ReviewForge

CONSTANTS
    Procs,    \* processes
    Host,     \* the host, that is the state directory, of each
    Commands, \* the commands each may run
    Standing, \* the hosts that have a journal from earlier commands
    Faulty    \* bound: the processes whose faults are explored

ASSUME EngineAssumption == Faulty \subseteq Procs

VARIABLES
    store,  \* of each host: the lock file, the sentinel and the journal
    holder, \* of each host: the process that holds the lock
    st,     \* what each process is doing
    nextId  \* the next request identity

engineVars == <<store, holder, st, nextId>>

Hosts == {Host[p] : p \in Procs}
Idle == [pc |-> "idle", cmd |-> None, cand |-> None, run |-> None,
         verdict |-> None, review |-> None]
FreshJournal == [complete |-> TRUE, runs |-> {}]

EngineInit ==
    /\ store = [h \in Hosts |->
                  IF h \in Standing
                  THEN [lock |-> TRUE, anchor |-> TRUE, file |-> FreshJournal]
                  ELSE [lock |-> FALSE, anchor |-> FALSE, file |-> None]]
    /\ holder = [h \in Hosts |-> None]
    /\ st = [p \in Procs |-> Idle]
    /\ nextId = 1

AllowSubmit(cmd) == cmd \in {"ensure", "merge"}
ReviewOnly(cmd) == cmd = "gate"
Seen == [cmp |-> Current, open |-> pr.open]

-----------------------------------------------------------------------------
(* Where a command goes once ensure_once has an outcome.                   *)

Continuation(cmd, verdict, review) ==
    IF cmd = "merge" /\ verdict = "Ready" THEN "mergeCheck"
    ELSE IF cmd = "gate" /\ verdict # "Stale" THEN "publish"
    ELSE IF cmd = "dispose" /\ review # None THEN "dispose"
    ELSE "idle"

\* The lock is released; the outcome decides what is left of the command.
Outcome(p, cand, verdict, review) ==
    LET pc == Continuation(st[p].cmd, verdict, review)
    IN  /\ holder' = [holder EXCEPT ![Host[p]] = None]
        /\ st' = [st EXCEPT ![p] =
                    IF pc = "idle" THEN Idle
                    ELSE [@ EXCEPT !.pc = pc, !.cand = cand, !.run = None, !.review = review,
                                   !.verdict = IF pc = "publish" /\ verdict = "Ready"
                                                THEN verdict ELSE None]]

\* save: the file is replaced as a whole and synced.
Saved(h, file) == [store EXCEPT ![h].file = file]

\* Mutant: the retained run is not replaced.
SaveRunAgain(h, run) == store' = [store EXCEPT ![h].file.runs = @ \cup {run}]

\* save_run: the journal with a run added or replaced.
SaveRun(h, run) ==
    LET kept == {r \in store[h].file.runs : r.id # run.id}
    IN  store' = Saved(h, [store[h].file EXCEPT !.runs = kept \cup {run}])

Goto(p, pc) == st' = [st EXCEPT ![p].pc = pc]

-----------------------------------------------------------------------------
(* Commands.                                                               *)

\* The gate invalidates the older check before it collects anything.
StartGate(p) ==
    /\ st[p].pc = "idle" /\ "gate" \in Commands[p] /\ merged = None
    /\ st' = [st EXCEPT ![p] = [Idle EXCEPT !.pc = "begin", !.cmd = "gate"]]
    /\ passing' = passing \ {pr.head}
    /\ UNCHANGED <<provider, pr, log, late, merged, used, store, holder, nextId>>

MayStart(p, cmd) ==
    \/ st[p].pc = "begin" /\ cmd = "gate"
    \/ /\ st[p].pc = "idle" /\ cmd \in Commands[p] \ {"gate"} /\ merged = None
       \* A finding is named by the review it was read in.
       /\ cmd = "dispose" => \E i \in At("result") \cup At("review") : ~log[i].clean

\* The candidate is read, then the lock is taken; a busy one is an error.  A lock
\* file without a sentinel shows a journal that may be incomplete, one without a
\* journal shows that it was lost.
Begin(p, cmd) ==
    LET h == Host[p]
        s == store[h]
    IN  /\ MayStart(p, cmd)
        /\ IF holder[h] # None \/ (s.lock /\ s.file = None)
           THEN /\ st' = [st EXCEPT ![p] = Idle]
                /\ UNCHANGED <<store, holder>>
           ELSE /\ holder' = [holder EXCEPT ![h] = p]
                /\ store' = [store EXCEPT ![h].lock = TRUE]
                /\ st' = [st EXCEPT ![p] =
                            [Idle EXCEPT !.cmd = cmd, !.cand = Seen,
                                         !.pc = IF s.anchor THEN "inspect"
                                                ELSE IF s.lock THEN "migrate" ELSE "create"]]
        /\ UNCHANGED <<forgeVars, nextId>>

\* First the journal, then the sentinel.
SaveJournal(p) ==
    /\ st[p].pc \in {"create", "migrate"}
    /\ LET file == store[Host[p]].file
       IN  store' = Saved(Host[p], IF st[p].pc = "create" THEN FreshJournal
                                   ELSE [file EXCEPT !.complete = FALSE])
    /\ Goto(p, "anchor")
    /\ UNCHANGED <<forgeVars, holder, nextId>>

WriteAnchor(p) ==
    /\ st[p].pc = "anchor"
    /\ store' = [store EXCEPT ![Host[p]].anchor = TRUE]
    /\ Goto(p, "inspect")
    /\ UNCHANGED <<forgeVars, holder, nextId>>

\* The retained run of the comparison.
Retained(h, cmp) ==
    LET found == {r \in store[h].file.runs : r.cmp = cmp}
    IN  IF found = {} THEN None ELSE CHOOSE r \in found : TRUE

\* A run that found its request on the forge, whoever posted it.
Adopted(cmp, ev) ==
    [id |-> log[ev.request].id, cmp |-> cmp, submission |-> "Submitted", wait |-> FALSE]

NewRun(cmp) == [id |-> None, cmp |-> cmp, submission |-> "Deferred", wait |-> FALSE]

\* From the journal to the verdict or the dispatch.
InspectRun(p) == \E early \in BOOLEAN : \* the time named by a rate limit is yet to come
    LET h == Host[p]
        cmd == st[p].cmd
        cand == st[p].cand
        kept == Retained(h, cand.cmp)
        ev == Inspect(cand.cmp, IF kept = None THEN None ELSE kept.id)
        run == IF kept # None THEN kept
               ELSE IF ev.request # None THEN Adopted(cand.cmp, ev)
               ELSE NewRun(cand.cmp)
        now == [run EXCEPT !.wait = FALSE,
                           !.submission = IF ev.request # None THEN "Submitted" ELSE @]
        missing == run.submission = "Submitted" /\ ev.request = None
        verdict ==
            IF ev.review # None THEN Evaluate(cand.cmp, ev.review)
            ELSE IF missing \/ now.submission = "Unknown" THEN "Blocked"
            ELSE "Pending"
        refused ==
            \/ ~cand.open
            \/ kept # None /\ kept.wait /\ early
            \/ /\ kept = None /\ ev.request = None /\ ~ev.error
               /\ (AllowSubmit(cmd) => ~store[h].file.complete)
    IN  /\ st[p].pc = "inspect"
        /\ IF refused
           THEN Outcome(p, cand, "Blocked", None) /\ UNCHANGED store
           ELSE IF ev.error
           THEN /\ Outcome(p, cand, "Blocked", None)
                /\ IF kept # None THEN SaveRun(h, [kept EXCEPT !.wait = FALSE])
                   ELSE UNCHANGED store
           ELSE /\ st' = [st EXCEPT ![p].run = now, ![p].verdict = verdict,
                                    ![p].review = IF cmd = "dispose" THEN ev.review ELSE None,
                                    ![p].pc =
                      IF verdict = "Ready" /\ ~ReviewOnly(cmd) THEN "checks"
                      ELSE IF /\ ev.review = None /\ now.submission = "Deferred"
                              /\ AllowSubmit(cmd)
                           THEN "dispatch"
                      ELSE "finish"]
                /\ UNCHANGED <<store, holder>>
        /\ UNCHANGED <<forgeVars, nextId>>

\* A read of the forge fails, or is limited until a later time.
ReadFails(p) ==
    LET h == Host[p]
        kept == Retained(h, st[p].cand.cmp)
    IN  /\ st[p].pc = "inspect" /\ st[p].cand.open /\ p \in Faulty /\ Fault
        /\ Outcome(p, st[p].cand, "Blocked", None)
        /\ IF kept = None THEN UNCHANGED store
           ELSE \E wait \in BOOLEAN : SaveRun(h, [kept EXCEPT !.wait = wait])
        /\ UNCHANGED <<provider, pr, log, late, passing, merged, nextId>>

Checks(p) ==
    /\ st[p].pc = "checks"
    /\ \E ci \in BOOLEAN :
          st' = [st EXCEPT ![p].pc = "finish",
                           ![p].verdict =
                               IF ChecksPass(st[p].cand.cmp.head, ci) THEN @ ELSE "Blocked"]
    /\ UNCHANGED <<forgeVars, store, holder, nextId>>

\* Mutant: the run is saved only with its outcome.
DispatchUnsaved(p) ==
    LET id == IF st[p].run.id = None THEN nextId ELSE st[p].run.id
    IN  /\ st[p].pc = "dispatch" /\ Seen = st[p].cand
        /\ st' = [st EXCEPT ![p].run = [@ EXCEPT !.id = id, !.submission = "Unknown"],
                            ![p].pc = "submit"]
        /\ nextId' = IF id = nextId THEN nextId + 1 ELSE nextId
        /\ UNCHANGED <<forgeVars, store, holder>>

\* The candidate is read once more; the run is saved as UNKNOWN before the request.
Dispatch(p) ==
    LET id == IF st[p].run.id = None THEN nextId ELSE st[p].run.id
        run == [st[p].run EXCEPT !.id = id, !.submission = "Unknown"]
    IN  /\ st[p].pc = "dispatch"
        /\ IF Seen # st[p].cand
           THEN Outcome(p, Seen, "Stale", None) /\ UNCHANGED <<store, nextId>>
           ELSE /\ SaveRun(Host[p], run)
                /\ st' = [st EXCEPT ![p].run = run, ![p].pc = "submit"]
                /\ nextId' = IF id = nextId THEN nextId + 1 ELSE nextId
                /\ UNCHANGED holder
        /\ UNCHANGED forgeVars

\* The comment that asks for the review.
RequestEntry(run) == [kind |-> "request", id |-> run.id, cmp |-> run.cmp]

\* The reply is received; or the limit refuses the request for now; or nobody
\* knows what became of it.
Submit(p) ==
    LET run == st[p].run
        entry == RequestEntry(run)
    IN  /\ st[p].pc = "submit"
        /\ \/ /\ log' = Append(log, entry)
              /\ st' = [st EXCEPT ![p].run.submission = "Submitted", ![p].verdict = "Pending",
                                  ![p].pc = "finish"]
              /\ UNCHANGED <<late, used>>
           \/ /\ Fault
              /\ st' = [st EXCEPT ![p].run.submission = "Deferred", ![p].run.wait = TRUE,
                                  ![p].verdict = "Blocked", ![p].pc = "finish"]
              /\ UNCHANGED <<log, late>>
           \/ /\ PostLost(entry)
              /\ st' = [st EXCEPT ![p].verdict = "Blocked", ![p].pc = "finish"]
              /\ UNCHANGED log
        /\ UNCHANGED <<provider, pr, passing, merged, store, holder, nextId>>

\* Mutant: the fresh candidate is reported with the verdict on the old one.
FinishedFresh(cand, verdict) == [cand |-> Seen, verdict |-> verdict]

\* A comparison that moved meanwhile makes the outcome stale.
Finished(cand, verdict) ==
    IF Seen = cand THEN [cand |-> cand, verdict |-> verdict]
    ELSE [cand |-> Seen, verdict |-> "Stale"]

Finish(p) ==
    LET result == Finished(st[p].cand, st[p].verdict)
    IN  /\ st[p].pc = "finish"
        /\ SaveRun(Host[p], st[p].run)
        /\ Outcome(p, result.cand, result.verdict, st[p].review)
        /\ UNCHANGED <<forgeVars, nextId>>

-----------------------------------------------------------------------------
(* What the commands do with the outcome.                                  *)

Publish(p) ==
    /\ st[p].pc = "publish"
    /\ LET head == st[p].cand.cmp.head
       IN  passing' = IF st[p].verdict = "Ready" THEN passing \cup {head} ELSE passing \ {head}
    /\ st' = [st EXCEPT ![p] = Idle]
    /\ UNCHANGED <<provider, pr, log, late, merged, used, store, holder, nextId>>

Dispose(p) ==
    LET entry == [kind |-> "disposition", cmp |-> st[p].cand.cmp, review |-> st[p].review.id]
    IN  /\ st[p].pc = "dispose"
        /\ IF st[p].review.clean \/ \E i \in DOMAIN log : log[i] = entry
           THEN UNCHANGED log ELSE log' = Append(log, entry)
        /\ st' = [st EXCEPT ![p] = Idle]
        /\ UNCHANGED <<provider, pr, late, passing, merged, used, store, holder, nextId>>

\* merge_with_policy: the comparison and its checks, then the live review, then the
\* comparison again; the merge itself names the head only.
MergeCheck(p) ==
    /\ st[p].pc = "mergeCheck"
    /\ \E ci \in BOOLEAN :
          IF Seen = st[p].cand /\ ChecksPass(pr.head, ci)
          THEN Goto(p, "mergeInspect") ELSE st' = [st EXCEPT ![p] = Idle]
    /\ UNCHANGED <<forgeVars, store, holder, nextId>>

Qualifies(cmp) ==
    LET ev == Inspect(cmp, None)
    IN  ~ev.error /\ ev.review # None /\ Evaluate(cmp, ev.review) = "Ready"

MergeInspect(p) ==
    /\ st[p].pc = "mergeInspect"
    /\ IF Current = st[p].cand.cmp /\ Qualifies(Current)
       THEN Goto(p, "mergeFinal") ELSE st' = [st EXCEPT ![p] = Idle]
    /\ UNCHANGED <<forgeVars, store, holder, nextId>>

MergeFinal(p) ==
    /\ st[p].pc = "mergeFinal"
    /\ IF Seen = st[p].cand THEN Goto(p, "put") ELSE st' = [st EXCEPT ![p] = Idle]
    /\ UNCHANGED <<forgeVars, store, holder, nextId>>

\* The forge merges the head it was told when its own protection agrees.
Put(p) ==
    /\ st[p].pc = "put"
    /\ IF /\ pr.open /\ pr.head = st[p].cand.cmp.head
          /\ pr.head \in passing /\ UpToDate(pr.head, pr.base)
       THEN merged' = Current /\ pr' = [pr EXCEPT !.open = FALSE]
       ELSE UNCHANGED <<merged, pr>>
    /\ st' = [st EXCEPT ![p] = Idle]
    /\ UNCHANGED <<provider, log, late, passing, used, store, holder, nextId>>

-----------------------------------------------------------------------------
(* Faults.                                                                 *)

Crash(p) ==
    /\ st[p].pc # "idle" /\ p \in Faulty /\ Fault
    /\ st' = [st EXCEPT ![p] = Idle]
    /\ holder' = [h \in Hosts |-> IF holder[h] = p THEN None ELSE holder[h]]
    /\ UNCHANGED <<provider, pr, log, late, passing, merged, store, nextId>>

\* Somebody removes the journal and leaves the lock file.
LoseJournal(h) ==
    /\ store[h].file # None /\ holder[h] = None /\ Fault
    /\ store' = [store EXCEPT ![h].file = None]
    /\ UNCHANGED <<provider, pr, log, late, passing, merged, holder, st, nextId>>

Step(p) ==
    \/ SaveJournal(p) \/ WriteAnchor(p) \/ InspectRun(p) \/ ReadFails(p) \/ Checks(p)
    \/ Dispatch(p) \/ Submit(p) \/ Finish(p) \/ Publish(p) \/ Dispose(p)
    \/ MergeCheck(p) \/ MergeInspect(p) \/ MergeFinal(p) \/ Put(p)

EngineNext ==
    \/ \E p \in Procs : Step(p) \/ Crash(p) \/ StartGate(p) \/ \E cmd \in Commands[p] : Begin(p, cmd)
    \/ \E p \in Faulty : LoseJournal(Host[p])
=============================================================================
