--------------------------- MODULE ReviewDispatch --------------------------
(***************************************************************************)
(* The trusted coordinator of roborev reviews: the authorized request is   *)
(* observed (src/review/github/roborev_producer.rs), one job is dispatched *)
(* to the review daemon behind a write-ahead ledger                        *)
(* (src/review/roborev_dispatch.rs), and its receipt is published once.    *)
(*                                                                         *)
(* A ledger is claimed by a lock file that stays: a claimed ledger without *)
(* content is never taken for a fresh one.  The checkout is the request's  *)
(* own, so the daemon's jobs are listed by request.  A failed call, save   *)
(* or check ends the run like a crash.                                     *)
(***************************************************************************)
EXTENDS ReviewForge

CONSTANT Workers \* coordinators that share the state directory

VARIABLES
    jobs,    \* the daemon's jobs, in the order of their identifiers
    ledger,  \* of each request: the dispatch ledger
    receipt, \* of each request comment: the publication ledger
    worker   \* what each coordinator is doing

dispatchVars == <<jobs, ledger, receipt, worker>>

Resting == [pc |-> "rest", req |-> None, job |-> None, match |-> None]

\* Neither a lock file nor a ledger.
Unclaimed == [lock |-> FALSE, by |-> None, file |-> None]
OnFile(f, key) == IF key \in DOMAIN f THEN f[key] ELSE Unclaimed
With(f, key, value) == [k \in DOMAIN f \cup {key} |-> IF k = key THEN value ELSE f[k]]

DispatchInit ==
    /\ jobs = <<>>
    /\ ledger = <<>> /\ receipt = <<>>
    /\ worker = [w \in Workers |-> Resting]

\* observe_request: the last authorized request of the open comparison.
Authorized ==
    LET i == RequestFor(Current, None)
    IN  IF i = None \/ ~pr.open THEN None ELSE [comment |-> i, id |-> log[i].id, cmp |-> Current]

JobsOf(id) == {j \in DOMAIN jobs : jobs[j].id = id}
Rest(w) == worker' = [worker EXCEPT ![w] = Resting]
To(w, pc) == worker' = [worker EXCEPT ![w].pc = pc]

\* A lock is held by one running coordinator at a time, and its file stays: without
\* a ledger behind it nothing is claimed again.
Wedged(f, key) == OnFile(f, key).by # None \/ (OnFile(f, key).lock /\ OnFile(f, key).file = None)
Claimed(f, key, w) == With(f, key, [OnFile(f, key) EXCEPT !.lock = TRUE, !.by = w])
Release(f, w) == [k \in DOMAIN f |-> IF f[k].by = w THEN [f[k] EXCEPT !.by = None] ELSE f[k]]

-----------------------------------------------------------------------------
(* coordinate_request_once.                                                *)

Observe(w) ==
    /\ worker[w].pc = "rest" /\ provider = "roborev" /\ Authorized # None
    /\ worker' = [worker EXCEPT ![w] = [Resting EXCEPT !.pc = "prepared", !.req = Authorized]]
    /\ UNCHANGED <<forgeVars, jobs, ledger, receipt>>

\* The checkout was prepared meanwhile and the request must still be the same; then
\* dispatch_roborev_once claims its ledger.  A missing ledger is fresh only behind a
\* new lock file.
ClaimDispatch(w) ==
    LET id == worker[w].req.id
        old == OnFile(ledger, id)
    IN  /\ worker[w].pc = "prepared"
        /\ IF Authorized # worker[w].req \/ Wedged(ledger, id)
           THEN Rest(w) /\ UNCHANGED ledger
           ELSE /\ ledger' = Claimed(ledger, id, w)
                /\ To(w, IF old.lock THEN "collect" ELSE "fresh")
        /\ UNCHANGED <<forgeVars, jobs, receipt>>

\* UNKNOWN is saved before the job is enqueued.
SaveUnknown(w) ==
    LET id == worker[w].req.id
    IN  /\ worker[w].pc = "fresh"
        /\ IF JobsOf(id) = {}
           THEN /\ ledger' = [ledger EXCEPT ![id].file = [job |-> None]]
                /\ To(w, "enqueue")
           ELSE ledger' = Release(ledger, w) /\ Rest(w)
        /\ UNCHANGED <<forgeVars, jobs, receipt>>

NewJob(req) == [kind |-> "job", id |-> req.id, cmp |-> req.cmp, status |-> "queued", clean |-> FALSE]

Enqueue(w) ==
    LET req == worker[w].req
    IN  /\ worker[w].pc = "enqueue"
        /\ \/ /\ jobs' = Append(jobs, NewJob(req))
              /\ ledger' = [ledger EXCEPT ![req.id].file.job = Len(jobs) + 1]
              /\ To(w, "collect")
              /\ UNCHANGED forgeVars
           \/ /\ PostLost(NewJob(req))
              /\ UNCHANGED jobs
              /\ ledger' = Release(ledger, w) /\ Rest(w)
              /\ UNCHANGED <<provider, pr, log, passing, merged>>
        /\ UNCHANGED receipt

\* Exactly one job, the ledger's own when it has one; without one it is adopted.
Recovers(file, id) ==
    /\ Cardinality(JobsOf(id)) = 1
    /\ file.job = None \/ file.job \in JobsOf(id)

Collect(w) ==
    LET id == worker[w].req.id
        job == CHOOSE j \in JobsOf(id) : TRUE
        ok == Recovers(ledger[id].file, id)
    IN  /\ worker[w].pc = "collect"
        /\ IF ok THEN ledger' = Release([ledger EXCEPT ![id].file.job = job], w)
           ELSE ledger' = Release(ledger, w)
        /\ IF ok /\ jobs[job].status # "queued"
           THEN worker' = [worker EXCEPT ![w].pc = "receipt", ![w].job = job]
           ELSE Rest(w)
        /\ UNCHANGED <<forgeVars, jobs, receipt>>

-----------------------------------------------------------------------------
(* publish_receipt_once.                                                   *)

ReceiptFor(w) ==
    [kind |-> "result", id |-> worker[w].req.id, cmp |-> worker[w].req.cmp,
     job |-> worker[w].job, status |-> jobs[worker[w].job].status,
     clean |-> jobs[worker[w].job].clean]

\* The exact receipt, posted after the request.
Published(w) ==
    {i \in At("result") : log[i] = ReceiptFor(w) /\ i > worker[w].req.comment}

\* The request must still be in force, the comments are those of this moment, and
\* the publication is claimed.
ClaimReceipt(w) ==
    LET key == worker[w].req.comment
    IN  /\ worker[w].pc = "receipt"
        /\ IF Authorized # worker[w].req \/ Wedged(receipt, key)
           THEN Rest(w) /\ UNCHANGED receipt
           ELSE /\ receipt' = Claimed(receipt, key, w)
                /\ worker' = [worker EXCEPT ![w].pc = "saveReceipt",
                                            ![w].match = Published(w) # {}]
        /\ UNCHANGED <<forgeVars, jobs, ledger>>

\* Mutant: a publication without a confirmed comment is posted again.
MayRepost(old) == old.file = None \/ old.file = "unknown"

\* A publication on record is only ever confirmed.
MayPost(old) == old.file = None

SaveReceipt(w) ==
    LET key == worker[w].req.comment
        old == receipt[key]
    IN  /\ worker[w].pc = "saveReceipt"
        /\ \/ /\ worker[w].match
              /\ receipt' = Release([receipt EXCEPT ![key].file = "posted"], w)
              /\ Rest(w)
           \/ /\ ~worker[w].match /\ MayPost(old)
              /\ receipt' = [receipt EXCEPT ![key].file = "unknown"]
              /\ To(w, "post")
           \/ /\ ~worker[w].match /\ ~MayPost(old)
              /\ receipt' = Release(receipt, w)
              /\ Rest(w)
        /\ UNCHANGED <<forgeVars, jobs, ledger>>

Post(w) ==
    LET key == worker[w].req.comment
    IN  /\ worker[w].pc = "post"
        /\ \/ /\ log' = Append(log, ReceiptFor(w))
              /\ receipt' = Release([receipt EXCEPT ![key].file = "posted"], w)
              /\ UNCHANGED <<late, used>>
           \/ /\ PostLost(ReceiptFor(w))
              /\ receipt' = Release(receipt, w)
              /\ UNCHANGED log
        /\ Rest(w)
        /\ UNCHANGED <<provider, pr, passing, merged, jobs, ledger>>

-----------------------------------------------------------------------------
(* The daemon, and faults.                                                 *)

\* A job ends clean, with findings, or fails.
JobEnds ==
    \E j \in DOMAIN jobs :
        /\ jobs[j].status = "queued"
        /\ \/ /\ jobs' = [jobs EXCEPT ![j].status = "done", ![j].clean = TRUE]
              /\ UNCHANGED used
           \/ /\ jobs' = [jobs EXCEPT ![j].status = "done"]
              /\ used.reviews < MaxReviews /\ used' = [used EXCEPT !.reviews = @ + 1]
           \/ jobs' = [jobs EXCEPT ![j].status = "failed"] /\ Fault
        /\ UNCHANGED <<provider, pr, log, late, passing, merged, ledger, receipt, worker>>

JobLate ==
    \E x \in late :
        /\ x.kind = "job"
        /\ jobs' = Append(jobs, x) /\ late' = late \ {x}
        /\ UNCHANGED <<provider, pr, log, passing, merged, used, ledger, receipt, worker>>

CrashWorker(w) ==
    /\ worker[w].pc # "rest" /\ Fault
    /\ Rest(w)
    /\ ledger' = Release(ledger, w) /\ receipt' = Release(receipt, w)
    /\ UNCHANGED <<provider, pr, log, late, passing, merged, jobs>>

WorkerStep(w) ==
    \/ ClaimDispatch(w) \/ SaveUnknown(w) \/ Enqueue(w) \/ Collect(w)
    \/ ClaimReceipt(w) \/ SaveReceipt(w) \/ Post(w)

DispatchNext ==
    \/ \E w \in Workers : Observe(w) \/ WorkerStep(w) \/ CrashWorker(w)
    \/ JobEnds \/ JobLate
=============================================================================
