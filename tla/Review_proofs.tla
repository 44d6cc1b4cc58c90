--------------------------- MODULE Review_proofs ---------------------------
(***************************************************************************)
(* Proofs about Review for any processes, hosts, coordinators, comparisons *)
(* and bounds: what is published was earned, a request has one job and one *)
(* receipt, and one host asks for a comparison once.                       *)
(***************************************************************************)
EXTENDS Review, FiniteSetTheorems, WellFoundedInduction, TLAPS

Locked == {"create", "migrate", "anchor", "inspect", "checks", "dispatch", "submit", "finish"}
Running == {"checks", "dispatch", "submit", "finish"}
Merging == {"mergeCheck", "mergeInspect", "mergeFinal", "put"}

CommandNames == UNION {Commands[p] : p \in Procs}
States == [pc : Locked \cup Merging \cup {"idle", "begin", "publish", "dispose"},
           cmd : CommandNames \cup {None}, cand : Candidates \cup {None}, run : Runs \cup {None},
           verdict : Verdicts \cup {None}, review : Reviews \cup {None}]

\* The values of the variables of each module.
ForgeTypes ==
    /\ provider \in Providers
    /\ pr \in [head : Heads, base : Bases, open : BOOLEAN]
    /\ log \in Seq(Comments)
    /\ late \subseteq {x \in Requests \cup Receipts \cup Jobs : x.kind # "withdrawn"}
    /\ passing \subseteq Heads
    /\ merged \in Comparison \cup {None}
    /\ used \in [moves : Nat, reviews : Nat, faults : Nat]

EngineTypes ==
    /\ store \in [Hosts -> [lock : BOOLEAN, anchor : BOOLEAN, file : Journals \cup {None}]]
    /\ holder \in [Hosts -> Procs \cup {None}]
    /\ st \in [Procs -> States]
    /\ nextId \in Nat \ {0}

Working == {"rest", "prepared", "fresh", "enqueue", "collect", "receipt", "saveReceipt", "post"}

WorkerStates == [pc : Working, req : Observed \cup {None}, job : Nat \cup {None},
                 match : BOOLEAN \cup {None}]

\* The steps at which a coordinator holds the ledger of its dispatch, or of its receipt.
Dispatching == {"fresh", "enqueue", "collect"}
Receipting == {"saveReceipt", "post"}

Ledgers(files) == [lock : {TRUE}, by : Workers \cup {None}, file : files \cup {None}]

DispatchTypes ==
    /\ jobs \in Seq(Jobs)
    /\ DOMAIN ledger \subseteq Nat /\ ledger \in [DOMAIN ledger -> Ledgers(Dispatches)]
    /\ DOMAIN receipt \subseteq Nat /\ receipt \in [DOMAIN receipt -> Ledgers(Publications)]
    /\ worker \in [Workers -> WorkerStates]

Types == ForgeTypes /\ EngineTypes /\ DispatchTypes

-----------------------------------------------------------------------------
(* Identities: each stands for one comparison, wherever it is written.     *)

LatePosts == {x \in late : x.kind = "request"}
LateJobs == {x \in late : x.kind = "job"}
LateResults == {x \in late : x.kind = "result"}
Posts == At("request") \cup At("withdrawn")

\* What the identity of x stands for is its comparison.
NameOK(f, x) == x.id \in DOMAIN f /\ x.cmp = f[x.id]

Named(f) ==
    /\ f \in [1 .. nextId - 1 -> Comparison]
    /\ \A i \in Posts \cup At("result") : NameOK(f, log[i])
    /\ \A x \in late : NameOK(f, x)
    /\ \A j \in DOMAIN jobs : NameOK(f, jobs[j])
    /\ \A w \in Workers : worker[w].pc # "rest" => NameOK(f, worker[w].req)
    /\ \A h \in Hosts : store[h].file # None => \A r \in store[h].file.runs : NameOK(f, r)
    /\ \A p \in Procs : st[p].pc \in Running /\ st[p].run.id # None => NameOK(f, st[p].run)

NameInv == \E f \in [1 .. nextId - 1 -> Comparison] : Named(f)

-----------------------------------------------------------------------------
(* The engine: locks, journals and the runs in progress.                   *)

LockInv ==
    /\ \A p \in Procs : st[p].pc \in Locked <=> holder[Host[p]] = p
    /\ \A h \in Hosts : holder[h] # None => Host[holder[h]] = h

\* What a command needs at each of its steps.
CommandOK(p) ==
    LET s == st[p]
        disk == store[Host[p]]
    IN  /\ s.pc # "idle" => s.cmd \in Commands[p]
        /\ s.pc \notin {"idle", "begin"} => s.cand # None
        /\ s.pc \in Locked => disk.lock
        /\ s.pc = "create" => disk.file = None
        /\ s.pc \in {"create", "migrate"} => ~disk.anchor
        /\ s.pc \in Locked \ {"create"} => disk.file # None
        /\ s.pc \in Running \cup {"inspect"} => disk.anchor
        /\ s.pc \in Running => s.run # None /\ s.run.cmp = s.cand.cmp /\ s.verdict # None
        /\ s.pc = "dispose" => s.review # None

JournalOK(h) ==
    /\ store[h].anchor => store[h].lock
    /\ store[h].file # None =>
          /\ store[h].lock
          /\ \A r, q \in store[h].file.runs : r.cmp = q.cmp => r = q

\* A run in progress and the journal behind it.
RunOK(p) ==
    LET run == st[p].run
        runs == store[Host[p]].file.runs
    IN  /\ run.id = None => st[p].pc = "dispatch" /\ \A r \in runs : r.cmp # run.cmp
        /\ run.id # None => \A r \in runs : r.cmp = run.cmp => r.id = run.id
        /\ st[p].pc = "dispatch" => run.submission = "Deferred"
        /\ st[p].pc = "submit" => run.submission = "Unknown" /\ run \in runs
        /\ st[p].pc \in {"dispatch", "submit"} => AllowSubmit(st[p].cmd)

EngineInv ==
    /\ LockInv
    /\ \A h \in Hosts : JournalOK(h)
    /\ \A p \in Procs : CommandOK(p) /\ (st[p].pc \in Running => RunOK(p))

-----------------------------------------------------------------------------
(* Requests.                                                               *)

Asked(id) == (\E i \in Posts : log[i].id = id) \/ (\E x \in LatePosts : x.id = id)

\* The journal of a host, or a run in progress there, names the identity.
Knows(h, id) ==
    \/ store[h].file # None /\ \E r \in store[h].file.runs : r.id = id
    \/ \E p \in Procs : Host[p] = h /\ st[p].pc \in Running /\ st[p].run.id = id

\* An identity is posted once; until then one host has it.
RequestInv ==
    /\ \A i, j \in Posts : log[i].id = log[j].id => i = j
    /\ \A x, y \in LatePosts : x.id = y.id => x = y
    /\ \A i \in Posts, x \in LatePosts : log[i].id # x.id
    /\ \A h \in Hosts : store[h].file # None =>
          \A r \in store[h].file.runs : r.submission = "Deferred" => ~Asked(r.id)
    /\ \A p \in Procs :
          /\ st[p].pc \in Running /\ st[p].run.id # None
          /\ st[p].run.submission = "Deferred" \/ st[p].pc = "submit"
          => ~Asked(st[p].run.id)
    /\ \A g, h \in Hosts, id \in 1 .. nextId - 1 :
          g # h /\ Knows(g, id) /\ Knows(h, id) => Asked(id)

-----------------------------------------------------------------------------
(* The coordinator.                                                        *)

\* The comment a coordinator works on is the request it observed.
WorkerInv ==
    \A w \in Workers :
        LET req == worker[w].req
        IN  /\ worker[w].pc # "rest" =>
                  req # None /\ req.comment \in Posts /\ log[req.comment].id = req.id
            /\ worker[w].pc \in {"receipt", "saveReceipt", "post"} =>
                  /\ worker[w].job \in JobsOf(req.id)
                  /\ jobs[worker[w].job].status # "queued"

HoldInv ==
    /\ \A w \in Workers :
          LET req == worker[w].req
          IN  /\ worker[w].pc \in Dispatching =>
                    req.id \in DOMAIN ledger /\ ledger[req.id].by = w
              /\ worker[w].pc \in Receipting =>
                    req.comment \in DOMAIN receipt /\ receipt[req.comment].by = w
    /\ \A k \in DOMAIN ledger : ledger[k].by # None =>
          worker[ledger[k].by].pc \in Dispatching /\ worker[ledger[k].by].req.id = k
    /\ \A k \in DOMAIN receipt : receipt[k].by # None =>
          worker[receipt[k].by].pc \in Receipting /\ worker[receipt[k].by].req.comment = k

\* No job was ever asked for; at most one was.
NoJob(id) == JobsOf(id) = {} /\ \A x \in LateJobs : x.id # id
OneJobAtMost(id) ==
    /\ \A j, k \in JobsOf(id) : j = k
    /\ \A x, y \in LateJobs : x.id = id /\ y.id = id => x = y
    /\ JobsOf(id) # {} => \A x \in LateJobs : x.id # id

JobInv ==
    /\ \A id \in Nat : OneJobAtMost(id)
    /\ \A id \in Nat : id \notin DOMAIN ledger => NoJob(id)
    /\ \A id \in DOMAIN ledger : ledger[id].file = None => NoJob(id)
    /\ \A w \in Workers : worker[w].pc = "fresh" => ledger[worker[w].req.id].file = None
    /\ \A w \in Workers : worker[w].pc = "enqueue" => NoJob(worker[w].req.id)
    /\ \A w \in Workers : worker[w].pc \in {"enqueue", "collect"} => ledger[worker[w].req.id].file # None

\* The same for the receipts of the request at a comment.
NoResult(id) == (\A i \in At("result") : log[i].id # id) /\ \A x \in LateResults : x.id # id
OneResultAtMost(id) ==
    /\ \A i, j \in At("result") : log[i].id = id /\ log[j].id = id => i = j
    /\ \A x, y \in LateResults : x.id = id /\ y.id = id => x = y
    /\ \A i \in At("result"), x \in LateResults : log[i].id = id => x.id # id

ReceiptInv ==
    /\ \A id \in Nat : OneResultAtMost(id)
    /\ \A c \in Posts : c \notin DOMAIN receipt => NoResult(log[c].id)
    /\ \A c \in Posts \cap DOMAIN receipt : receipt[c].file = None => NoResult(log[c].id)
    /\ \A w \in Workers : worker[w].pc = "post" =>
          NoResult(worker[w].req.id) /\ receipt[worker[w].req.comment].file # None
    /\ \A x \in LateResults : \E c \in Posts : log[c].id = x.id
    /\ \A i \in At("result") : \E c \in Posts : log[c].id = log[i].id

\* A receipt says what became of its job.
ReceiptOK(x) ==
    /\ x.job \in JobsOf(x.id)
    /\ jobs[x.job].status = x.status /\ jobs[x.job].clean = x.clean
    /\ x.status # "queued"

ResultInv ==
    /\ \A i \in At("result") : ReceiptOK(log[i])
    /\ \A x \in LateResults : ReceiptOK(x)

-----------------------------------------------------------------------------
\* What a process holds as ready, or merges, was reviewed.
EarnInv ==
    /\ \A p \in Procs :
          (st[p].verdict = "Ready" \/ st[p].pc \in Merging) => Reviewed(st[p].cand.cmp)
    /\ \A h \in passing : \E b \in Bases : Reviewed([head |-> h, base |-> b])
    /\ merged # None => \E b \in Bases : Reviewed([head |-> merged.head, base |-> b])

-----------------------------------------------------------------------------
\* The processes that may ask for reviews.
Submitters == {p \in Procs : "ensure" \in Commands[p] \/ "merge" \in Commands[p]}
OneSubmittingHost == \A p, q \in Submitters : Host[p] = Host[q]

\* Whatever the host asked for is in its journal, unless that was lost.
AskInv ==
    /\ \A p \in Submitters, id \in Nat :
          Asked(id) =>
              LET disk == store[Host[p]]
              IN  /\ disk.anchor
                  /\ disk.file # None =>
                        \E r \in disk.file.runs : r.id = id
    /\ \A i, j \in Posts : log[i].cmp = log[j].cmp => i = j
    /\ \A x, y \in LatePosts : x.cmp = y.cmp => x = y
    /\ \A i \in Posts, x \in LatePosts : log[i].cmp # x.cmp

IInv == /\ Types /\ NameInv /\ EngineInv /\ RequestInv
        /\ WorkerInv /\ HoldInv /\ JobInv /\ ReceiptInv /\ ResultInv /\ EarnInv

-----------------------------------------------------------------------------
(* Operators.                                                              *)

\* A set of positions that is not empty has a last one.
LEMMA LastPosition ==
  ASSUME NEW n \in Nat, NEW S \in SUBSET (1 .. n), S # {}
  PROVE  Max(S) \in S /\ \A i \in S : Max(S) >= i
<1> DEFINE G == {k \in Nat : \A i \in S : i <= k}
           R == OpToRel(<, Nat)
<1>1. n \in G
  OBVIOUS
<1>2. IsWellFoundedOn(R, Nat)
  BY NatLessThanWellFounded
<1>3. PICK m \in G : \A k \in G : ~(<<k, m>> \in R)
  <2> HIDE DEF R
  <2>1. G \subseteq Nat /\ G # {}
    BY <1>1
  <2> QED
    BY <1>2, <2>1, WFMin
<1>4. \A k \in G : ~(k < m)
  BY <1>3 DEF OpToRel
<1>5. m \in S
  <2>1. SUFFICES ASSUME m \notin S PROVE FALSE
    OBVIOUS
  <2> HIDE DEF R
  <2>0. PICK i \in S : TRUE
    OBVIOUS
  <2>2. i \in 1 .. n /\ i <= m /\ m \in Nat
    BY <2>0
  <2>3. m - 1 \in Nat
    BY <2>2
  <2>4. \A x \in S : x <= m /\ x # m /\ x \in Nat
    BY <2>1
  <2>5. m - 1 \in G
    BY <2>3, <2>4
  <2> QED
    BY <1>4, <2>5
<1>6. \E x \in S : \A y \in S : x >= y
  BY <1>5
<1> QED
  BY <1>6 DEF Max

\* What appending does to a sequence.
LEMMA Appending ==
  ASSUME NEW S, NEW s \in Seq(S), NEW e
  PROVE  /\ e \in S => Append(s, e) \in Seq(S)
         /\ DOMAIN Append(s, e) = DOMAIN s \cup {Len(s) + 1}
         /\ Len(s) + 1 \in Nat /\ Len(s) + 1 \notin DOMAIN s
         /\ \A i \in DOMAIN s : Append(s, e)[i] = s[i]
         /\ Append(s, e)[Len(s) + 1] = e
<1>1. s \in Seq(S \cup {e}) /\ e \in S \cup {e}
  OBVIOUS
<1> QED
  BY <1>1

\* The log and the jobs are sequences.
LEMMA Sequences ==
  ASSUME Types
  PROVE  /\ log \in Seq(Comments) /\ jobs \in Seq(Jobs)
         /\ DOMAIN log = 1 .. Len(log) /\ Len(log) \in Nat
         /\ DOMAIN jobs = 1 .. Len(jobs) /\ Len(jobs) \in Nat
         /\ \A i \in DOMAIN log : log[i] \in Comments
         /\ \A j \in DOMAIN jobs : jobs[j] \in Jobs
BY DEF Types, ForgeTypes, DispatchTypes

\* Comments and calls in flight are told apart by their kind.
LEMMA Kinds ==
  /\ \A x \in Comments :
        /\ x.kind \in {"request", "withdrawn"} => x \in Requests
        /\ x.kind = "result" => x \in Receipts
        /\ x.kind = "review" => x \in BotReviewed
        /\ x.kind = "disposition" => x \in Dispositions
        /\ x.kind # "job"
  /\ \A x \in Requests \cup Receipts \cup Jobs :
        /\ x.kind \in {"request", "withdrawn"} => x \in Requests
        /\ x.kind = "result" => x \in Receipts
        /\ x.kind = "job" => x \in Jobs
BY DEF Comments, Requests, Receipts, BotReviewed, Dispositions, Jobs

-----------------------------------------------------------------------------
(* Reviews.                                                                *)

\* Comments stay, but for requests that are withdrawn, and what ended stays so.
Grows ==
    /\ provider' = provider
    /\ \A i \in DOMAIN log :
          /\ i \in DOMAIN log'
          /\ log[i].kind \in {"result", "review", "disposition"} => log'[i] = log[i]
    /\ \A j \in DOMAIN jobs :
          /\ j \in DOMAIN jobs'
          /\ jobs'[j].cmp = jobs[j].cmp /\ jobs'[j].id = jobs[j].id
          /\ jobs[j].status # "queued" => jobs'[j] = jobs[j]

LEMMA LogAppended ==
  ASSUME Types, NEW e, log' = Append(log, e), UNCHANGED <<provider, jobs>>
  PROVE  Grows
BY Sequences, Appending DEF Grows

LEMMA NextGrows == ASSUME Types, [Next]_vars PROVE Grows
<1> USE DEF forgeVars, engineVars, dispatchVars
<1>1. CASE UNCHANGED <<provider, log, jobs>>
  BY <1>1 DEF Grows
<1>2. ASSUME ForgeNext, UNCHANGED dispatchVars PROVE Grows
  <2>1. CASE Move
    BY <1>1, <1>2, <2>1 DEF Move
  <2>2. CASE Withdraw
    BY <1>2, <2>2, Sequences DEF Withdraw, Grows, At
  <2>3. CASE BotReviews
    BY <1>2, <2>3, LogAppended DEF BotReviews
  <2>4. CASE ArriveLate
    BY <1>2, <2>4, LogAppended DEF ArriveLate
  <2> QED
    BY <1>2, <2>1, <2>2, <2>3, <2>4 DEF ForgeNext
<1>3. ASSUME EngineNext, UNCHANGED dispatchVars PROVE Grows
  <2>1. ASSUME NEW p \in Procs, Submit(p) PROVE Grows
    BY <1>1, <1>3, <2>1, LogAppended DEF Submit
  <2>2. ASSUME NEW p \in Procs, Dispose(p) PROVE Grows
    BY <1>1, <1>3, <2>2, LogAppended DEF Dispose
  <2>3. ASSUME NEW p \in Procs,
               \/ StartGate(p) \/ Crash(p) \/ SaveJournal(p) \/ WriteAnchor(p)
               \/ ReadFails(p) \/ Checks(p) \/ Finish(p) \/ Publish(p)
               \/ MergeCheck(p) \/ MergeInspect(p) \/ MergeFinal(p) \/ Put(p)
               \/ \E cmd \in Commands[p] : Begin(p, cmd)
        PROVE  UNCHANGED <<provider, log>>
    BY <2>3, Zenon DEF StartGate, Crash, SaveJournal, WriteAnchor, ReadFails, Checks, Finish,
       Publish, MergeCheck, MergeInspect, MergeFinal, Put, Begin
  <2>4. ASSUME NEW p \in Procs, InspectRun(p) \/ Dispatch(p) PROVE UNCHANGED <<provider, log>>
    BY <2>4, Zenon DEF InspectRun, Dispatch
  <2>5. ASSUME NEW p \in Faulty, LoseJournal(Host[p]) PROVE UNCHANGED <<provider, log>>
    BY <2>5, Zenon DEF LoseJournal
  <2> QED
    BY <1>1, <1>3, <2>1, <2>2, <2>3, <2>4, <2>5 DEF EngineNext, Step
<1>4. ASSUME DispatchNext, UNCHANGED engineVars PROVE Grows
  <2>1. ASSUME NEW w \in Workers, Observe(w) \/ ClaimDispatch(w) \/ SaveUnknown(w) \/ Collect(w)
               \/ ClaimReceipt(w) \/ SaveReceipt(w) \/ CrashWorker(w)
        PROVE  UNCHANGED <<provider, log, jobs>>
    BY <2>1, Zenon DEF Observe, ClaimDispatch, SaveUnknown, Collect, ClaimReceipt, SaveReceipt,
       CrashWorker
  <2>2. ASSUME NEW w \in Workers, Enqueue(w) PROVE Grows
    <3>1. provider' = provider /\ log' = log
          /\ (jobs' = jobs \/ jobs' = Append(jobs, NewJob(worker[w].req)))
      BY <2>2, Zenon DEF Enqueue
    <3> QED
      BY <3>1, Sequences, Appending DEF Grows
  <2>3. ASSUME NEW w \in Workers, Post(w) PROVE Grows
    <3>1. UNCHANGED <<provider, jobs>> /\ (log' = log \/ log' = Append(log, ReceiptFor(w)))
      BY <2>3, Zenon DEF Post
    <3> QED
      BY <1>1, <3>1, LogAppended
  <2>4. CASE JobEnds
    BY <2>4, Sequences DEF JobEnds, Grows, Jobs
  <2>5. CASE JobLate
    BY <2>5, Sequences, Appending DEF JobLate, Grows
  <2> QED
    BY <1>1, <1>4, <2>1, <2>2, <2>3, <2>4, <2>5 DEF DispatchNext, WorkerStep
<1>5. CASE UNCHANGED vars
  BY <1>1, <1>5 DEF vars
<1> QED
  BY <1>2, <1>3, <1>4, <1>5 DEF Next

\* A review is not undone.
LEMMA ReviewedStays ==
  ASSUME Types, ResultInv, Grows, NEW cmp, Reviewed(cmp)
  PROVE  Reviewed(cmp)'
<1>1. ASSUME NEW i \in DOMAIN log, log[i].kind \in {"result", "review"}, Clean(i, cmp)
      PROVE  i \in DOMAIN log' /\ log'[i] = log[i] /\ Clean(i, cmp)'
  BY <1>1 DEF Grows, Clean, Dispositioned, At
<1>2. CASE provider = "roborev"
  <2>1. PICK i \in DOMAIN log :
           /\ log[i].kind = "result" /\ log[i].cmp = cmp /\ Clean(i, cmp)
           /\ jobs[log[i].job].cmp = cmp /\ jobs[log[i].job].status = "done"
    BY <1>2 DEF Reviewed
  <2>2. log[i].job \in DOMAIN jobs
    BY <2>1 DEF ResultInv, ReceiptOK, JobsOf, At
  <2>3. jobs'[log[i].job] = jobs[log[i].job] /\ provider' = provider
    BY <2>1, <2>2 DEF Grows
  <2>4. i \in DOMAIN log' /\ log'[i] = log[i] /\ Clean(i, cmp)'
    BY <1>1, <2>1
  <2> QED
    BY <1>2, <2>1, <2>3, <2>4 DEF Reviewed
<1>3. CASE provider # "roborev"
  <2>1. PICK i \in DOMAIN log :
           log[i].kind = "review" /\ log[i].head = cmp.head /\ Clean(i, cmp)
    BY <1>3 DEF Reviewed
  <2>2. provider' = provider
    BY DEF Grows
  <2>3. i \in DOMAIN log' /\ log'[i] = log[i] /\ Clean(i, cmp)'
    BY <1>1, <2>1
  <2> QED
    BY <1>3, <2>1, <2>2, <2>3 DEF Reviewed
<1> QED
  BY <1>2, <1>3

\* What inspect finds for a comparison.
LEMMA Requested ==
  ASSUME Types, NEW cmp, NEW id, RequestFor(cmp, id) # None
  PROVE  LET i == RequestFor(cmp, id)
         IN  i \in At("request") /\ i \in Nat /\ log[i].cmp = cmp
             /\ (id # None => log[i].id = id)
<1> DEFINE found == {i \in At("request") : log[i].cmp = cmp /\ (id = None \/ log[i].id = id)}
<1>1. found # {} /\ RequestFor(cmp, id) = Max(found)
  BY DEF RequestFor
<1>2. found \in SUBSET (1 .. Len(log)) /\ Len(log) \in Nat
  BY Sequences DEF At
<1>3. Max(found) \in found
  BY <1>1, <1>2, LastPosition
<1> QED
  BY <1>1, <1>2, <1>3

\* A ready verdict is on a review of the comparison.
LEMMA ReadyIsReviewed ==
  ASSUME IInv, NEW cmp \in Comparison, NEW id,
         ~Inspect(cmp, id).error, Inspect(cmp, id).review # None,
         Evaluate(cmp, Inspect(cmp, id).review) = "Ready"
  PROVE  Reviewed(cmp)
<1> DEFINE request == RequestFor(cmp, id)
           found == IF request = None THEN {}
                    ELSE IF provider = "roborev" THEN ReceiptOf(request)
                    ELSE ReviewOf(cmp, request)
           last == IF found = {} THEN None ELSE CHOOSE i \in Latest(found) : TRUE
<1> USE DEF IInv
<1>1. /\ Inspect(cmp, id).error = (last # None /\ log[last].status # "done")
      /\ Inspect(cmp, id).review = IF last = None THEN None ELSE ReviewRead(cmp, request, last)
  BY DEF Inspect
<1>2. request # None /\ found # {} /\ last = Max(found) /\ last # None
  BY <1>1 DEF Latest
<1>3. found \in SUBSET (1 .. Len(log)) /\ Len(log) \in Nat
  <2>1. ReceiptOf(request) \in SUBSET (1 .. Len(log))
    BY Sequences DEF ReceiptOf, At
  <2>2. ReviewOf(cmp, request) \in SUBSET (1 .. Len(log))
    <3> DEFINE all == {i \in At("review") : log[i].head = cmp.head}
    <3>1. all \in SUBSET (1 .. Len(log)) /\ Len(log) \in Nat
      BY Sequences DEF At
    <3>2. all # {} => Max(all) \in all
      BY <3>1, LastPosition
    <3> QED
      BY <3>1, <3>2 DEF ReviewOf
  <2> QED
    BY <2>1, <2>2, Sequences
<1>4. last \in found
  BY <1>2, <1>3, LastPosition
<1>5. request \in At("request") /\ log[request].cmp = cmp
  BY <1>2, Requested
<1>6. log[last].status = "done" /\ Evaluate(cmp, ReviewRead(cmp, request, last)) = "Ready"
  BY <1>1, <1>2
<1>7. ReviewRead(cmp, request, last).clean /\ (log[last].clean \/ Dispositioned(cmp, last))
  BY <1>6 DEF Evaluate, ReviewRead
<1>8. Clean(last, cmp)
  BY <1>6, <1>7 DEF Clean
<1>9. CASE provider = "roborev"
  <2>1. last \in At("result") /\ log[last].id = log[request].id
    BY <1>2, <1>4, <1>9 DEF ReceiptOf
  <2>2. ReceiptOK(log[last])
    BY <2>1 DEF ResultInv
  <2>3. PICK f \in [1 .. nextId - 1 -> Comparison] : Named(f)
    BY DEF NameInv
  <2>4. log[last].cmp = cmp
    BY <1>5, <2>1, <2>3 DEF Named, NameOK, Posts
  <2>5. jobs[log[last].job].cmp = cmp
    <3>1. log[last].job \in DOMAIN jobs /\ jobs[log[last].job].id = log[last].id
      BY <2>2 DEF ReceiptOK, JobsOf
    <3>2. NameOK(f, jobs[log[last].job]) /\ NameOK(f, log[last])
      BY <2>1, <2>3, <3>1 DEF Named
    <3> QED
      BY <2>4, <3>1, <3>2 DEF NameOK
  <2> QED
    BY <1>6, <1>8, <1>9, <2>1, <2>2, <2>4, <2>5 DEF Reviewed, ReceiptOK, At
<1>10. CASE provider # "roborev"
  <2>1. last \in At("review") /\ log[last].head = cmp.head
    <3> DEFINE all == {i \in At("review") : log[i].head = cmp.head}
    <3>1. all \in SUBSET (1 .. Len(log)) /\ Len(log) \in Nat
      BY Sequences DEF At
    <3>2. all # {} => Max(all) \in all
      BY <3>1, LastPosition
    <3> QED
      BY <1>2, <1>4, <1>10, <3>2 DEF ReviewOf
  <2> QED
    BY <1>8, <1>10, <2>1 DEF Reviewed, At
<1> QED
  BY <1>9, <1>10

-----------------------------------------------------------------------------
(* The engine's steps, flat.                                               *)

LEMMA Faults ==
  ASSUME ForgeTypes, Fault
  PROVE  used' \in [moves : Nat, reviews : Nat, faults : Nat]
BY ForgeAssumption DEF ForgeTypes, Fault

\* The journal's run for the comparison of p, what is found on the forge, and the
\* run as it is after that.
Kept(p) == Retained(Host[p], st[p].cand.cmp)
Found(p) == Inspect(st[p].cand.cmp, IF Kept(p) = None THEN None ELSE Kept(p).id)
RunNow(p) ==
    LET run == IF Kept(p) # None THEN Kept(p)
               ELSE IF Found(p).request # None THEN Adopted(st[p].cand.cmp, Found(p))
               ELSE NewRun(st[p].cand.cmp)
    IN  [run EXCEPT !.wait = FALSE,
                    !.submission = IF Found(p).request # None THEN "Submitted" ELSE @]

LEMMA KeptRun ==
  ASSUME Types, NEW p \in Procs, Kept(p) # None
  PROVE  /\ Host[p] \in Hosts /\ Kept(p) \in store[Host[p]].file.runs
         /\ Kept(p).cmp = st[p].cand.cmp
<1> DEFINE found == {r \in store[Host[p]].file.runs : r.cmp = st[p].cand.cmp}
<1>1. found # {} /\ Kept(p) = CHOOSE r \in found : TRUE
  BY DEF Kept, Retained
<1>2. Kept(p) \in found
  BY <1>1
<1> QED
  BY <1>2 DEF Hosts

LEMMA NoKeptRun ==
  ASSUME Types, NEW p \in Procs, st[p].pc = "inspect", CommandOK(p), Kept(p) = None
  PROVE  \A r \in store[Host[p]].file.runs : r.cmp # st[p].cand.cmp
<1> DEFINE found == {r \in store[Host[p]].file.runs : r.cmp = st[p].cand.cmp}
<1>1. Host[p] \in Hosts /\ store[Host[p]].file # None
  BY DEF CommandOK, Hosts, Locked
<1>2. store[Host[p]].file.runs \subseteq Runs
  BY <1>1 DEF Types, EngineTypes, Journals
<1>3. SUFFICES ASSUME found # {} PROVE FALSE
  OBVIOUS
<1>4. (CHOOSE r \in found : TRUE) \in found /\ Kept(p) = CHOOSE r \in found : TRUE
  BY <1>3 DEF Kept, Retained
<1> QED
  BY <1>2, <1>4, NoneAssumption

\* InspectRun goes on with a run.
GoesOn(p, verdict, review, pc) ==
    /\ st' = [st EXCEPT ![p].run = RunNow(p), ![p].verdict = verdict,
                        ![p].review = review, ![p].pc = pc]
    /\ verdict = "Ready" =>
          /\ Found(p).review # None
          /\ Evaluate(st[p].cand.cmp, Found(p).review) = "Ready"
    /\ pc = "dispatch" => RunNow(p).submission = "Deferred" /\ AllowSubmit(st[p].cmd)
    /\ RunNow(p).submission = "Deferred" /\ Kept(p) = None /\ AllowSubmit(st[p].cmd)
          => pc = "dispatch"

\* InspectRun ends the command as blocked, or goes on.
LEMMA InspectCases ==
  ASSUME NEW p \in Procs, InspectRun(p)
  PROVE  /\ st[p].pc = "inspect" /\ UNCHANGED <<forgeVars, nextId>>
         /\ \/ Outcome(p, st[p].cand, "Blocked", None) /\ UNCHANGED store
            \/ /\ Outcome(p, st[p].cand, "Blocked", None) /\ Kept(p) # None
               /\ SaveRun(Host[p], [Kept(p) EXCEPT !.wait = FALSE])
            \/ /\ ~Found(p).error /\ UNCHANGED <<store, holder>>
               /\ Kept(p) = None /\ Found(p).request = None => AllowSubmit(st[p].cmd)
               /\ \E verdict \in Verdicts, review \in {None, Found(p).review},
                     pc \in {"checks", "dispatch", "finish"} : GoesOn(p, verdict, review, pc)
<1> DEFINE cand == st[p].cand
           missing == (IF Kept(p) # None THEN Kept(p)
                       ELSE IF Found(p).request # None THEN Adopted(cand.cmp, Found(p))
                       ELSE NewRun(cand.cmp)).submission = "Submitted" /\ Found(p).request = None
           verdict ==
               IF Found(p).review # None THEN Evaluate(cand.cmp, Found(p).review)
               ELSE IF missing \/ RunNow(p).submission = "Unknown" THEN "Blocked"
               ELSE "Pending"
           review == IF st[p].cmd = "dispose" THEN Found(p).review ELSE None
           pc == IF verdict = "Ready" /\ ~ReviewOnly(st[p].cmd) THEN "checks"
                 ELSE IF /\ Found(p).review = None /\ RunNow(p).submission = "Deferred"
                         /\ AllowSubmit(st[p].cmd)
                      THEN "dispatch"
                 ELSE "finish"
<1>1. PICK early \in BOOLEAN :
        LET refused ==
               \/ ~cand.open
               \/ Kept(p) # None /\ Kept(p).wait /\ early
               \/ /\ Kept(p) = None /\ Found(p).request = None /\ ~Found(p).error
                  /\ (AllowSubmit(st[p].cmd) => ~store[Host[p]].file.complete)
        IN  /\ st[p].pc = "inspect"
            /\ IF refused
               THEN Outcome(p, cand, "Blocked", None) /\ UNCHANGED store
               ELSE IF Found(p).error
               THEN /\ Outcome(p, cand, "Blocked", None)
                    /\ IF Kept(p) # None THEN SaveRun(Host[p], [Kept(p) EXCEPT !.wait = FALSE])
                       ELSE UNCHANGED store
               ELSE /\ st' = [st EXCEPT ![p].run = RunNow(p), ![p].verdict = verdict,
                                        ![p].review = review, ![p].pc = pc]
                    /\ UNCHANGED <<store, holder>>
            /\ UNCHANGED <<forgeVars, nextId>>
  BY Zenon DEF InspectRun, Kept, Found, RunNow
<1>2. verdict \in Verdicts /\ review \in {None, Found(p).review}
      /\ pc \in {"checks", "dispatch", "finish"}
  BY DEF Verdicts, Evaluate
<1>3. verdict = "Ready" => Found(p).review # None /\ Evaluate(cand.cmp, Found(p).review) = "Ready"
  OBVIOUS
<1>4. pc = "dispatch" => RunNow(p).submission = "Deferred" /\ AllowSubmit(st[p].cmd)
  OBVIOUS
<1>5. RunNow(p).submission = "Deferred" /\ Kept(p) = None /\ AllowSubmit(st[p].cmd)
        => pc = "dispatch"
  <2>1. SUFFICES ASSUME RunNow(p).submission = "Deferred", Kept(p) = None, AllowSubmit(st[p].cmd)
                 PROVE  pc = "dispatch"
    OBVIOUS
  <2>2. Found(p).request = None
    BY <2>1 DEF RunNow, Adopted
  <2>3. Found(p).review = None
    BY <2>2 DEF Found, Inspect
  <2> QED
    BY <2>1, <2>3
<1> HIDE DEF verdict, review, pc
<1>6. st' = [st EXCEPT ![p].run = RunNow(p), ![p].verdict = verdict,
                       ![p].review = review, ![p].pc = pc] => GoesOn(p, verdict, review, pc)
  BY <1>3, <1>4, <1>5 DEF GoesOn
<1> QED
  BY <1>1, <1>2, <1>6

\* The run that a command goes on with.
LEMMA RunNowFacts ==
  ASSUME IInv, NEW p \in Procs, st[p].pc = "inspect"
  PROVE  /\ RunNow(p) \in Runs /\ RunNow(p).cmp = st[p].cand.cmp
         /\ Kept(p) # None =>
               /\ RunNow(p).id = Kept(p).id
               /\ RunNow(p).submission = "Deferred" => Kept(p).submission = "Deferred"
         /\ Kept(p) = None /\ Found(p).request # None =>
               /\ Found(p).request \in At("request")
               /\ RunNow(p).id = log[Found(p).request].id /\ RunNow(p).submission = "Submitted"
         /\ Kept(p) = None /\ Found(p).request = None =>
               RunNow(p).id = None /\ RunNow(p).submission = "Deferred"
<1> USE DEF IInv
<1>1. st[p].cand # None /\ st[p].cand \in Candidates /\ st[p].cand.cmp \in Comparison
  <2>1. st[p] \in States /\ st[p].cand # None
    BY DEF Types, EngineTypes, EngineInv, CommandOK
  <2> QED
    BY <2>1 DEF States, Candidates
<1>2. CASE Kept(p) # None
  <2>1. Host[p] \in Hosts /\ Kept(p) \in store[Host[p]].file.runs /\ Kept(p).cmp = st[p].cand.cmp
    BY <1>2, KeptRun
  <2>2. store[Host[p]].file # None
    BY DEF EngineInv, CommandOK, Locked
  <2>3. Kept(p) \in Runs
    BY <2>1, <2>2 DEF Types, EngineTypes, Journals
  <2> QED
    BY <1>2, <2>1, <2>3 DEF RunNow, Runs
<1>3. CASE Kept(p) = None /\ Found(p).request # None
  <2>1. Found(p).request = RequestFor(st[p].cand.cmp, None)
    BY <1>3 DEF Found, Inspect
  <2>2. Found(p).request \in At("request") /\ log[Found(p).request].cmp = st[p].cand.cmp
    BY <1>3, <2>1, Requested
  <2>3. log[Found(p).request] \in Requests
    BY <2>2, Sequences, Kinds DEF At
  <2> QED
    BY <1>1, <1>3, <2>2, <2>3 DEF RunNow, Adopted, Runs, Requests
<1>4. CASE Kept(p) = None /\ Found(p).request = None
  BY <1>1, <1>4 DEF RunNow, NewRun, Runs
<1> QED
  BY <1>2, <1>3, <1>4

LEMMA FoundReview ==
  ASSUME IInv, NEW p \in Procs, st[p].pc = "inspect"
  PROVE  Found(p).review \in Reviews \cup {None}
<1> USE DEF IInv
<1> DEFINE cmp == st[p].cand.cmp
           id == IF Kept(p) = None THEN None ELSE Kept(p).id
           request == RequestFor(cmp, id)
           found == IF request = None THEN {}
                    ELSE IF provider = "roborev" THEN ReceiptOf(request)
                    ELSE ReviewOf(cmp, request)
           last == IF found = {} THEN None ELSE CHOOSE i \in Latest(found) : TRUE
<1>1. Found(p).review = IF last = None THEN None ELSE ReviewRead(cmp, request, last)
  BY DEF Found, Inspect
<1>2. SUFFICES ASSUME last # None PROVE ReviewRead(cmp, request, last) \in Reviews
  BY <1>1
<1>3. request # None /\ found # {} /\ last = Max(found)
  BY <1>2 DEF Latest
<1>4. found \in SUBSET (1 .. Len(log)) /\ Len(log) \in Nat
      /\ (provider = "roborev" => found \subseteq At("result"))
      /\ (provider # "roborev" => found \subseteq At("review"))
  <2>1. ReceiptOf(request) \subseteq At("result")
    BY DEF ReceiptOf
  <2>2. ReviewOf(cmp, request) \subseteq At("review")
    <3> DEFINE all == {i \in At("review") : log[i].head = cmp.head}
    <3>1. all \in SUBSET (1 .. Len(log)) /\ Len(log) \in Nat
      BY Sequences DEF At
    <3>2. all # {} => Max(all) \in all
      BY <3>1, LastPosition
    <3> QED
      BY <3>2 DEF ReviewOf
  <2>3. At("result") \subseteq 1 .. Len(log) /\ At("review") \subseteq 1 .. Len(log)
    BY Sequences DEF At
  <2> QED
    BY <1>3, <2>1, <2>2, <2>3, Sequences
<1>5. last \in found /\ last \in 1 .. Len(log)
  BY <1>3, <1>4, LastPosition
<1>6. request \in At("request") /\ log[request] \in Requests
  BY <1>3, Requested, Sequences, Kinds DEF At
<1>7. log[request].cmp \in Comparison /\ log[request].cmp.base \in Bases
  BY <1>6 DEF Requests, Comparison
<1>8. (log[last].clean \/ Dispositioned(cmp, last)) \in BOOLEAN
  OBVIOUS
<1>9. IF provider = "roborev" THEN log[last].cmp.head \in Heads ELSE log[last].head \in Heads
  <2>1. CASE provider = "roborev"
    <3>1. log[last] \in Receipts
      BY <1>4, <1>5, <2>1, Sequences, Kinds DEF At
    <3> QED
      BY <2>1, <3>1 DEF Receipts, Comparison
  <2>2. CASE provider # "roborev"
    <3>1. log[last] \in BotReviewed
      BY <1>4, <1>5, <2>2, Sequences, Kinds DEF At
    <3> QED
      BY <2>2, <3>1 DEF BotReviewed
  <2> QED
    BY <2>1, <2>2
<1> HIDE DEF last, request, cmp
<1> QED
  BY <1>5, <1>7, <1>8, <1>9 DEF ReviewRead, Reviews

LEMMA Candidate ==
  ASSUME Types
  PROVE  Seen \in Candidates /\ Current \in Comparison
BY DEF Types, ForgeTypes, Seen, Current, Candidates, Comparison

LEMMA NotReady == None # "Ready"
BY NoneAssumption DEF Verdicts

LEMMA IdleTypes == Idle \in States
BY DEF Idle, States, Locked, Merging

\* The lock is given back, and the command ends or acts on its outcome.
LEMMA OutcomeCases ==
  ASSUME Types, NEW p \in Procs, NEW cand \in Candidates, NEW verdict \in Verdicts,
         NEW review \in Reviews \cup {None}, Outcome(p, cand, verdict, review)
  PROVE  /\ holder' = [holder EXCEPT ![Host[p]] = None]
         /\ holder' \in [Hosts -> Procs \cup {None}]
         /\ \E s \in States :
               /\ st' = [st EXCEPT ![p] = s]
               /\ s.pc \in {"idle", "mergeCheck", "publish", "dispose"}
               /\ s.pc # "idle" => s.cmd = st[p].cmd /\ s.cand = cand
               /\ s.pc = "dispose" => s.review # None
               /\ s.verdict = "Ready" \/ s.pc = "mergeCheck" => verdict = "Ready" /\ s.cand = cand
<1> DEFINE pc == Continuation(st[p].cmd, verdict, review)
           held == IF pc = "publish" /\ verdict = "Ready" THEN verdict ELSE None
           s == [st[p] EXCEPT !.pc = pc, !.cand = cand, !.run = None, !.review = review,
                              !.verdict = held]
<1>1. /\ pc \in {"mergeCheck", "publish", "dispose", "idle"}
      /\ pc = "mergeCheck" => verdict = "Ready"
      /\ pc = "dispose" => review # None
  BY DEF Continuation
<1>2. st[p] \in States
  BY DEF Types, EngineTypes
<1>3. st' = [st EXCEPT ![p] = IF pc = "idle" THEN Idle ELSE s]
      /\ holder' = [holder EXCEPT ![Host[p]] = None]
  BY DEF Outcome
<1>4. holder' \in [Hosts -> Procs \cup {None}]
  BY <1>3 DEF Types, EngineTypes
<1>5. held \in Verdicts \cup {None} /\ (held = "Ready" => verdict = "Ready")
  BY NotReady
<1> HIDE DEF held, pc
<1>6. CASE pc = "idle"
  <2>1. Idle.pc = "idle" /\ Idle.verdict # "Ready"
    BY NotReady DEF Idle
  <2> QED
    BY <1>3, <1>4, <1>6, <2>1, IdleTypes
<1>7. CASE pc # "idle"
  <2>0. pc \in Locked \cup Merging \cup {"idle", "begin", "publish", "dispose"}
    BY <1>1 DEF Merging
  <2>1. /\ s \in States /\ s.pc = pc /\ s.cmd = st[p].cmd /\ s.cand = cand /\ s.review = review
        /\ s.verdict = held
    <3>1. /\ held \in Verdicts \cup {None} /\ cand \in Candidates \cup {None}
          /\ review \in Reviews \cup {None} /\ None \in Runs \cup {None}
      BY <1>5
    <3>2. s \in States
      BY <1>2, <2>0, <3>1 DEF States
    <3> QED
      BY <1>2, <3>2 DEF States
  <2> HIDE DEF s
  <2> QED
    BY <1>1, <1>3, <1>4, <1>5, <1>7, <2>1
<1> QED
  BY <1>6, <1>7

LEMMA SaveRunTypes ==
  ASSUME Types, NEW h \in Hosts, store[h].file # None, NEW run \in Runs, SaveRun(h, run)
  PROVE  store' \in [Hosts -> [lock : BOOLEAN, anchor : BOOLEAN, file : Journals \cup {None}]]
<1>1. store[h].file \in Journals
  BY DEF Types, EngineTypes
<1> QED
  BY <1>1 DEF SaveRun, Saved, Types, EngineTypes, Journals

-----------------------------------------------------------------------------
(* A step of one process.                                                  *)

Engine == EngineTypes /\ NameInv /\ EngineInv /\ RequestInv

\* The run x continues one that the host of p knows, or an existing request.
From(p, x) ==
    \/ /\ store[Host[p]].file # None
       /\ \E r \in store[Host[p]].file.runs :
             /\ r.id = x.id /\ r.cmp = x.cmp
             /\ x.submission = "Deferred" => r.submission = "Deferred"
    \/ /\ st[p].pc \in Running /\ st[p].run.id = x.id /\ st[p].run.cmp = x.cmp
       /\ x.submission = "Deferred" => st[p].run.submission = "Deferred" \/ st[p].pc = "submit"
    \/ /\ x.submission # "Deferred"
       /\ \E i \in Posts : log[i].id = x.id /\ log[i].cmp = x.cmp

\* p goes to s; only its host's files change.
Moves(p, s) ==
    /\ st' = [st EXCEPT ![p] = s]
    /\ \A h \in Hosts \ {Host[p]} : store'[h] = store[h]
    /\ store' = store \/ st[p].pc \in Locked \/ holder[Host[p]] = None

\* What p's host knows afterwards it knew before.
Continues(p, s) ==
    /\ store'[Host[p]].file # None =>
          \A r \in store'[Host[p]].file.runs : r.id # None /\ From(p, r)
    /\ s.pc \in Running /\ s.run.id # None =>
          /\ From(p, s.run)
          /\ s.pc = "submit" => /\ st[p].pc \in Running /\ st[p].run.id = s.run.id
                                /\ st[p].run.submission = "Deferred"

\* The requests are where they were.
SamePosts ==
    /\ Posts' = Posts /\ \A i \in Posts : log'[i].id = log[i].id /\ log'[i].cmp = log[i].cmp
    /\ LatePosts' = LatePosts

\* Identities outside the engine keep what they stand for.
NamedElsewhere(f) ==
    /\ \A i \in Posts \cup At("result") : NameOK(f, log[i])
    /\ \A x \in late : NameOK(f, x)
    /\ \A j \in DOMAIN jobs : NameOK(f, jobs[j])
    /\ \A w \in Workers : worker[w].pc # "rest" => NameOK(f, worker[w].req)
SameNames == \A f : Named(f) => NamedElsewhere(f)'

LEMMA Quiet ==
  ASSUME UNCHANGED <<log, late, jobs, worker>>
  PROVE  SamePosts /\ SameNames
<1>1. SamePosts
  BY DEF SamePosts, Posts, At, LatePosts
<1>2. ASSUME NEW f, Named(f) PROVE NamedElsewhere(f)'
  BY <1>2 DEF Named, NamedElsewhere, NameOK, Posts, At
<1> QED
  BY <1>1, <1>2 DEF SameNames

LEMMA HostOf == \A p \in Procs : Host[p] \in Hosts
BY DEF Hosts

LEMMA EngineKept ==
  ASSUME IInv, NEW p \in Procs, NEW s \in States, Moves(p, s),
         LockInv', JournalOK(Host[p])', CommandOK(p)', s.pc \in Running => RunOK(p)'
  PROVE  EngineInv'
<1> USE DEF IInv, EngineInv
<1>1. \A h \in Hosts : JournalOK(h)'
  BY DEF JournalOK, Moves
<1>2. ASSUME NEW q \in Procs, q # p
      PROVE  CommandOK(q)' /\ (st'[q].pc \in Running => RunOK(q)')
  <2>1. st'[q] = st[q] /\ CommandOK(q) /\ (st[q].pc \in Running => RunOK(q))
    BY <1>2 DEF Moves, Types, EngineTypes
  <2>2. CASE store'[Host[q]] = store[Host[q]]
    BY <2>1, <2>2 DEF CommandOK, RunOK
  <2>3. CASE store'[Host[q]] # store[Host[q]]
    <3>1. Host[q] = Host[p] /\ store' # store
      BY <2>3, HostOf DEF Moves
    <3>2. st[q].pc \notin Locked
      BY <1>2, <3>1, NoneAssumption DEF Moves, LockInv
    <3> QED
      BY <2>1, <3>2 DEF CommandOK, Locked, Running
  <2> QED
    BY <2>2, <2>3
<1>3. st'[p] = s
  BY DEF Moves, Types, EngineTypes
<1> QED
  BY <1>1, <1>2, <1>3

LEMMA FromNamed ==
  ASSUME IInv, NEW p \in Procs, NEW x, x.id # None, From(p, x), NEW f, Named(f)
  PROVE  NameOK(f, x)
BY HostOf DEF From, Named, NameOK

LEMMA FromUnasked ==
  ASSUME IInv, NEW p \in Procs, NEW x, x.id # None, From(p, x), x.submission = "Deferred"
  PROVE  ~Asked(x.id)
<1> USE DEF IInv, RequestInv
<1>1. CASE store[Host[p]].file # None /\ \E r \in store[Host[p]].file.runs :
              r.id = x.id /\ r.submission = "Deferred"
  BY <1>1, HostOf
<1>2. CASE /\ st[p].pc \in Running /\ st[p].run.id = x.id
           /\ st[p].run.submission = "Deferred" \/ st[p].pc = "submit"
  BY <1>2
<1> QED
  BY <1>1, <1>2 DEF From

LEMMA FromKnown ==
  ASSUME IInv, NEW p \in Procs, NEW x, From(p, x)
  PROVE  Knows(Host[p], x.id) \/ Asked(x.id)
BY DEF From, Knows, Asked

LEMMA NamesKept ==
  ASSUME IInv, NEW p \in Procs, NEW s \in States, Moves(p, s), Continues(p, s),
         nextId' = nextId, SameNames
  PROVE  NameInv'
<1> USE DEF IInv
<1>1. PICK f \in [1 .. nextId - 1 -> Comparison] : Named(f)
  BY DEF NameInv
<1>2. st' \in [Procs -> States] /\ st'[p] = s /\ \A q \in Procs \ {p} : st'[q] = st[q]
  BY DEF Moves, Types, EngineTypes
<1>3. ASSUME NEW h \in Hosts, store'[h].file # None, NEW r \in store'[h].file.runs
      PROVE  NameOK(f, r)
  BY <1>1, <1>3, FromNamed DEF Moves, Continues, Named
<1>4. ASSUME NEW q \in Procs, st'[q].pc \in Running, st'[q].run.id # None
      PROVE  NameOK(f, st'[q].run)
  BY <1>1, <1>2, <1>4, FromNamed DEF Continues, Named
<1>5. NamedElsewhere(f)'
  BY <1>1 DEF SameNames
<1>6. Named(f)'
  BY <1>1, <1>3, <1>4, <1>5 DEF Named, NamedElsewhere
<1> QED
  BY <1>1, <1>6 DEF NameInv

LEMMA RequestsKept ==
  ASSUME IInv, NEW p \in Procs, NEW s \in States, Moves(p, s), Continues(p, s),
         nextId' = nextId, SamePosts
  PROVE  RequestInv'
<1> USE DEF IInv
<1>1. st' \in [Procs -> States] /\ st'[p] = s /\ \A q \in Procs \ {p} : st'[q] = st[q]
  BY DEF Moves, Types, EngineTypes
<1>2. /\ Posts' = Posts /\ LatePosts' = LatePosts
      /\ \A i \in Posts : log'[i].id = log[i].id
      /\ \A id : Asked(id)' <=> Asked(id)
  BY DEF SamePosts, Asked
<1>3. /\ \A i, j \in Posts' : log'[i].id = log'[j].id => i = j
      /\ \A x, y \in LatePosts' : x.id = y.id => x = y
      /\ \A i \in Posts', x \in LatePosts' : log'[i].id # x.id
  BY <1>2 DEF RequestInv
<1>4. ASSUME NEW h \in Hosts, store'[h].file # None, NEW r \in store'[h].file.runs,
             r.submission = "Deferred"
      PROVE  ~Asked(r.id)'
  BY <1>2, <1>4, FromUnasked DEF Moves, Continues, RequestInv
<1>5. ASSUME NEW q \in Procs, st'[q].pc \in Running, st'[q].run.id # None,
             st'[q].run.submission = "Deferred" \/ st'[q].pc = "submit"
      PROVE  ~Asked(st[q].run.id)'
  <2>1. CASE q = p
    <3>1. CASE s.run.submission = "Deferred"
      BY <1>1, <1>2, <1>5, <2>1, <3>1, FromUnasked DEF Continues
    <3>2. CASE s.pc = "submit"
      BY <1>1, <1>2, <1>5, <2>1, <3>2 DEF Continues, RequestInv
    <3> QED
      BY <1>1, <1>5, <2>1, <3>1, <3>2
  <2>2. CASE q # p
    BY <1>1, <1>2, <1>5, <2>2 DEF RequestInv
  <2> QED
    BY <2>1, <2>2
<1>6. ASSUME NEW h \in Hosts, NEW id \in 1 .. nextId - 1, Knows(h, id)'
      PROVE  Knows(h, id) \/ Asked(id)
  <2>1. id # None
    BY NoneAssumption DEF Types, EngineTypes
  <2>2. CASE store'[h].file # None /\ \E r \in store'[h].file.runs : r.id = id
    BY <2>2, FromKnown DEF Moves, Continues, Knows
  <2>3. CASE \E q \in Procs : Host[q] = h /\ st'[q].pc \in Running /\ st'[q].run.id = id
    BY <1>1, <2>1, <2>3, FromKnown DEF Continues, Knows
  <2> QED
    BY <1>6, <2>2, <2>3 DEF Knows
<1>7. ASSUME NEW g \in Hosts, NEW h \in Hosts, NEW id \in 1 .. nextId' - 1,
             g # h, Knows(g, id)', Knows(h, id)'
      PROVE  Asked(id)'
  <2>1. id \in 1 .. nextId - 1
    OBVIOUS
  <2> QED
    BY <1>2, <1>6, <1>7, <2>1 DEF RequestInv
<1> HIDE DEF IInv
<1>8. \A g, h \in Hosts, id \in 1 .. nextId' - 1 :
        g # h /\ Knows(g, id)' /\ Knows(h, id)' => Asked(id)'
  BY <1>7
<1> QED
  BY <1>3, <1>4, <1>5, <1>8, Zenon DEF RequestInv

LEMMA EngineMove ==
  ASSUME IInv, NEW p \in Procs, NEW s \in States, Moves(p, s), Continues(p, s),
         nextId' = nextId, SamePosts, SameNames,
         store' \in [Hosts -> [lock : BOOLEAN, anchor : BOOLEAN, file : Journals \cup {None}]],
         holder' \in [Hosts -> Procs \cup {None}],
         LockInv', JournalOK(Host[p])', CommandOK(p)', s.pc \in Running => RunOK(p)'
  PROVE  Engine'
<1>1. NameInv' /\ RequestInv' /\ EngineInv'
  BY NamesKept, RequestsKept, EngineKept, Zenon
<1>2. EngineTypes'
  BY DEF IInv, Types, EngineTypes, Moves
<1> QED
  BY <1>1, <1>2 DEF Engine

\* The lock stays with its holder, is given back, or is taken.
LEMMA Locks ==
  ASSUME IInv, NEW p \in Procs, NEW s \in States, st' = [st EXCEPT ![p] = s],
         \/ holder' = holder /\ (s.pc \in Locked <=> st[p].pc \in Locked)
         \/ holder' = [holder EXCEPT ![Host[p]] = None] /\ st[p].pc \in Locked /\ s.pc \notin Locked
         \/ /\ holder[Host[p]] = None /\ s.pc \in Locked
            /\ holder' = [holder EXCEPT ![Host[p]] = p]
  PROVE  LockInv' /\ holder' \in [Hosts -> Procs \cup {None}]
<1>1. /\ st \in [Procs -> States] /\ holder \in [Hosts -> Procs \cup {None}]
      /\ \A q \in Procs : st[q].pc \in Locked <=> holder[Host[q]] = q
      /\ \A h \in Hosts : holder[h] # None => Host[holder[h]] = h
      /\ Host[p] \in Hosts
  BY HostOf DEF IInv, Types, EngineTypes, EngineInv, LockInv
<1>2. st'[p] = s /\ \A q \in Procs \ {p} : st'[q] = st[q]
  BY <1>1
<1>3. CASE holder' = holder /\ (s.pc \in Locked <=> st[p].pc \in Locked)
  BY <1>1, <1>2, <1>3 DEF LockInv
<1>4. CASE holder' = [holder EXCEPT ![Host[p]] = None] /\ st[p].pc \in Locked /\ s.pc \notin Locked
  BY <1>1, <1>2, <1>4, HostOf, NoneAssumption DEF LockInv
<1>5. CASE /\ holder[Host[p]] = None /\ s.pc \in Locked
           /\ holder' = [holder EXCEPT ![Host[p]] = p]
  BY <1>1, <1>2, <1>5, HostOf, NoneAssumption DEF LockInv
<1> QED
  BY <1>3, <1>4, <1>5

\* A process that leaves or stays outside the lock, journals as they are.
LEMMA Away ==
  ASSUME IInv, NEW p \in Procs, NEW s \in States, st' = [st EXCEPT ![p] = s],
         UNCHANGED <<store, nextId>>, SamePosts, SameNames,
         LockInv', holder' \in [Hosts -> Procs \cup {None}],
         s.pc \notin Locked,
         s.pc # "idle" => s.cmd \in Commands[p],
         s.pc \notin {"idle", "begin"} => s.cand # None,
         s.pc = "dispose" => s.review # None
  PROVE  Engine'
<1>1. Moves(p, s)
  BY DEF Moves
<1>2. Continues(p, s)
  <2>1. s.pc \notin Running
    BY DEF Running, Locked
  <2>2. ASSUME store[Host[p]].file # None, NEW r \in store[Host[p]].file.runs
        PROVE  r.id # None /\ From(p, r)
    <3>1. PICK f \in [1 .. nextId - 1 -> Comparison] : Named(f)
      BY DEF IInv, NameInv
    <3>2. NameOK(f, r)
      BY <2>2, <3>1, HostOf DEF Named
    <3> QED
      BY <2>2, <3>1, <3>2, NoneAssumption DEF From, NameOK, IInv, Types, EngineTypes
  <2> QED
    BY <2>1, <2>2 DEF Continues
<1>3. st'[p] = s
  BY DEF IInv, Types, EngineTypes
<1>4. CommandOK(p)' /\ s.pc \notin Running
  BY <1>3 DEF CommandOK, Locked, Running
<1>5. JournalOK(Host[p])'
  BY HostOf DEF IInv, EngineInv, JournalOK
<1>6. store' \in [Hosts -> [lock : BOOLEAN, anchor : BOOLEAN, file : Journals \cup {None}]]
  BY DEF IInv, Types, EngineTypes
<1> QED
  BY <1>1, <1>2, <1>4, <1>5, <1>6, EngineMove

LEMMA CommandNamed == \A p \in Procs : Commands[p] \subseteq CommandNames
BY Zenon DEF CommandNames

\* What the state of a process says of it.
LEMMA StateFacts ==
  ASSUME IInv, NEW p \in Procs
  PROVE  /\ st[p] \in States /\ CommandOK(p) /\ Host[p] \in Hosts
         /\ st[p].cand # None => st[p].cand \in Candidates /\ st[p].cand.cmp \in Comparison
         /\ st[p].run # None => st[p].run \in Runs
         /\ store[Host[p]].file # None =>
               store[Host[p]].file \in Journals /\ store[Host[p]].file.runs \subseteq Runs
         /\ store[Host[p]] \in [lock : BOOLEAN, anchor : BOOLEAN, file : Journals \cup {None}]
BY HostOf DEF IInv, Types, EngineTypes, EngineInv, States, Candidates, Journals

LEMMA StartGateStep ==
  ASSUME IInv, NEW p \in Procs, StartGate(p), UNCHANGED dispatchVars
  PROVE  Engine'
<1> DEFINE s == [Idle EXCEPT !.pc = "begin", !.cmd = "gate"]
<1>1. /\ st[p].pc = "idle" /\ "gate" \in Commands[p] /\ st' = [st EXCEPT ![p] = s]
      /\ UNCHANGED <<store, holder, nextId, log, late, jobs, worker>>
  BY DEF StartGate, dispatchVars
<1>2. s \in States /\ s.pc = "begin" /\ s.cmd = "gate"
  BY <1>1, IdleTypes, CommandNamed DEF States, Idle
<1> HIDE DEF s
<1>3. LockInv' /\ holder' \in [Hosts -> Procs \cup {None}]
  BY <1>1, <1>2, Locks DEF Locked
<1> QED
  BY <1>1, <1>2, <1>3, Away, Quiet DEF Locked

\* The steps after the outcome: nothing but the state of the process.
LEMMA AfterStep ==
  ASSUME IInv, NEW p \in Procs,
         Publish(p) \/ Dispose(p) \/ MergeCheck(p) \/ MergeInspect(p) \/ MergeFinal(p) \/ Put(p)
  PROVE  /\ st[p].pc \in {"publish", "dispose"} \cup Merging
         /\ UNCHANGED <<store, holder, nextId, late, provider>>
         /\ \E s \in States :
               /\ st' = [st EXCEPT ![p] = s]
               /\ s.pc \in {"idle", "mergeInspect", "mergeFinal", "put"}
               /\ s.pc # "idle" => s.cmd = st[p].cmd /\ s.cand = st[p].cand /\ st[p].pc \in Merging
               /\ s.verdict = "Ready" => st[p].verdict = "Ready" /\ s.cand = st[p].cand
<1>1. /\ st[p].pc \in {"publish", "dispose"} \cup Merging
      /\ UNCHANGED <<store, holder, nextId, late, provider>>
      /\ \/ st' = [st EXCEPT ![p] = Idle]
         \/ st[p].pc \in Merging /\ \E pc \in {"mergeInspect", "mergeFinal", "put"} :
                                       st' = [st EXCEPT ![p].pc = pc]
  BY Zenon DEF Publish, Dispose, MergeCheck, MergeInspect, MergeFinal, Put, Goto, Merging, forgeVars
<1>2. Idle \in States /\ Idle.pc = "idle" /\ Idle.verdict # "Ready"
  BY IdleTypes, NotReady DEF Idle
<1>3. ASSUME NEW pc \in {"mergeInspect", "mergeFinal", "put"}
      PROVE  LET s == [st[p] EXCEPT !.pc = pc]
             IN  s \in States /\ s.pc = pc /\ s.cmd = st[p].cmd /\ s.cand = st[p].cand
                 /\ s.verdict = st[p].verdict
  BY StateFacts DEF States, Merging
<1> QED
  BY <1>1, <1>2, <1>3

LEMMA AfterEngine ==
  ASSUME IInv, NEW p \in Procs, SamePosts, SameNames,
         Publish(p) \/ Dispose(p) \/ MergeCheck(p) \/ MergeInspect(p) \/ MergeFinal(p) \/ Put(p)
  PROVE  Engine'
<1>1. PICK s \in States :
         /\ st' = [st EXCEPT ![p] = s]
         /\ s.pc \in {"idle", "mergeInspect", "mergeFinal", "put"}
         /\ s.pc # "idle" => s.cmd = st[p].cmd /\ s.cand = st[p].cand /\ st[p].pc \in Merging
  BY AfterStep
<1>2. st[p].pc \in {"publish", "dispose"} \cup Merging
      /\ UNCHANGED <<store, holder, nextId>>
  BY AfterStep
<1>3. s.pc \notin Locked /\ st[p].pc \notin Locked
  BY <1>1, <1>2 DEF Locked, Merging
<1>4. LockInv' /\ holder' \in [Hosts -> Procs \cup {None}]
  BY <1>1, <1>2, <1>3, Locks
<1>5. s.pc # "idle" => s.cmd \in Commands[p] /\ s.cand # None
  BY <1>1, StateFacts DEF CommandOK, Merging
<1> QED
  BY <1>1, <1>2, <1>3, <1>4, <1>5, Away

LEMMA CrashStep ==
  ASSUME IInv, NEW p \in Procs, Crash(p), SamePosts, SameNames
  PROVE  Engine'
<1>1. /\ st' = [st EXCEPT ![p] = Idle] /\ UNCHANGED <<store, nextId>>
      /\ holder' = [h \in Hosts |-> IF holder[h] = p THEN None ELSE holder[h]]
  BY Zenon DEF Crash
<1>2. Idle \in States /\ Idle.pc = "idle" /\ Idle.pc \notin Locked
  BY IdleTypes DEF Idle, Locked
<1>3. LockInv' /\ holder' \in [Hosts -> Procs \cup {None}]
  <2>1. /\ st \in [Procs -> States] /\ holder \in [Hosts -> Procs \cup {None}]
        /\ \A q \in Procs : st[q].pc \in Locked <=> holder[Host[q]] = q
        /\ \A h \in Hosts : holder[h] # None => Host[holder[h]] = h
    BY DEF IInv, Types, EngineTypes, EngineInv, LockInv
  <2>2. st'[p] = Idle /\ \A q \in Procs \ {p} : st'[q] = st[q]
    BY <1>1, <2>1
  <2> QED
    BY <1>1, <1>2, <2>1, <2>2, HostOf, NoneAssumption DEF LockInv
<1> QED
  BY <1>1, <1>2, <1>3, Away

LEMMA OutcomeStep ==
  ASSUME IInv, NEW p \in Procs, NEW cand \in Candidates, NEW verdict \in Verdicts,
         NEW review \in Reviews \cup {None}, Outcome(p, cand, verdict, review),
         st[p].pc \in Locked, UNCHANGED <<store, nextId>>, SamePosts, SameNames
  PROVE  Engine'
<1>1. /\ holder' = [holder EXCEPT ![Host[p]] = None]
      /\ \E s \in States :
            /\ st' = [st EXCEPT ![p] = s]
            /\ s.pc \in {"idle", "mergeCheck", "publish", "dispose"}
            /\ s.pc # "idle" => s.cmd = st[p].cmd /\ s.cand = cand
            /\ s.pc = "dispose" => s.review # None
  BY OutcomeCases DEF IInv
<1>2. PICK s \in States :
            /\ st' = [st EXCEPT ![p] = s]
            /\ s.pc \in {"idle", "mergeCheck", "publish", "dispose"}
            /\ s.pc # "idle" => s.cmd = st[p].cmd /\ s.cand = cand
            /\ s.pc = "dispose" => s.review # None
  BY <1>1
<1>3. s.pc \notin Locked
  BY <1>2 DEF Locked
<1>4. LockInv' /\ holder' \in [Hosts -> Procs \cup {None}]
  BY <1>1, <1>2, <1>3, Locks
<1>5. s.pc # "idle" => s.cmd \in Commands[p] /\ s.cand # None
  BY <1>2, StateFacts, NoneAssumption DEF CommandOK, Locked
<1> QED
  BY <1>2, <1>3, <1>4, <1>5, Away

\* Saving a run over the one of its identity.
LEMMA SaveRunDoes ==
  ASSUME IInv, NEW p \in Procs, st[p].pc \in Locked \ {"create"},
         NEW run \in Runs, SaveRun(Host[p], run), run.id # None,
         \A r \in store[Host[p]].file.runs : r.cmp = run.cmp => r.id = run.id
  PROVE  LET disk == store[Host[p]]
             next == store'[Host[p]]
         IN  /\ \A h \in Hosts \ {Host[p]} : store'[h] = store[h]
             /\ store' \in [Hosts -> [lock : BOOLEAN, anchor : BOOLEAN, file : Journals \cup {None}]]
             /\ disk.file # None /\ next.file # None
             /\ next.lock = disk.lock /\ next.anchor = disk.anchor
             /\ next.file.complete = disk.file.complete
             /\ next.file.runs = {r \in disk.file.runs : r.id # run.id} \cup {run}
             /\ \A r \in next.file.runs : r.id # None /\ (r = run \/ From(p, r))
             /\ JournalOK(Host[p])'
<1> DEFINE disk == store[Host[p]]
           next == store'[Host[p]]
<1>1. disk.file # None /\ disk.file \in Journals /\ Host[p] \in Hosts
      /\ disk \in [lock : BOOLEAN, anchor : BOOLEAN, file : Journals \cup {None}]
  BY StateFacts DEF CommandOK
<1>2. store \in [Hosts -> [lock : BOOLEAN, anchor : BOOLEAN, file : Journals \cup {None}]]
  BY DEF IInv, Types, EngineTypes
<1>3. /\ \A h \in Hosts \ {Host[p]} : store'[h] = store[h]
      /\ next = [disk EXCEPT !.file =
                   [disk.file EXCEPT !.runs = {r \in disk.file.runs : r.id # run.id} \cup {run}]]
  BY <1>1, <1>2 DEF SaveRun, Saved
<1>4. /\ next.lock = disk.lock /\ next.anchor = disk.anchor
      /\ next.file.complete = disk.file.complete
      /\ next.file.runs = {r \in disk.file.runs : r.id # run.id} \cup {run}
  BY <1>1, <1>3 DEF Journals
<1>5. store' \in [Hosts -> [lock : BOOLEAN, anchor : BOOLEAN, file : Journals \cup {None}]]
  BY <1>1, SaveRunTypes DEF IInv
<1>6. next.file # None
  <2>1. next.file = [disk.file EXCEPT !.runs = {r \in disk.file.runs : r.id # run.id} \cup {run}]
    BY <1>1, <1>3
  <2>2. next.file \in Journals
    BY <1>1, <2>1 DEF Journals
  <2> QED
    BY <2>2, NoneAssumption
<1>7. \A r \in disk.file.runs : r.id # None
  <2>1. PICK f \in [1 .. nextId - 1 -> Comparison] : Named(f)
    BY DEF IInv, NameInv
  <2>2. \A r \in disk.file.runs : NameOK(f, r)
    BY <1>1, <2>1 DEF Named
  <2> QED
    BY <2>1, <2>2, NoneAssumption DEF NameOK, IInv, Types, EngineTypes
<1>8. \A r \in next.file.runs : r.id # None /\ (r = run \/ From(p, r))
  BY <1>1, <1>4, <1>7 DEF From
<1>9. JournalOK(Host[p])'
  <2>1. JournalOK(Host[p])
    BY <1>1 DEF IInv, EngineInv
  <2> QED
    BY <1>1, <1>4, <2>1 DEF JournalOK
<1> QED
  BY <1>1, <1>3, <1>4, <1>5, <1>6, <1>8, <1>9

LEMMA SaveOutcomeStep ==
  ASSUME IInv, NEW p \in Procs, NEW cand \in Candidates, NEW verdict \in Verdicts,
         NEW review \in Reviews \cup {None}, Outcome(p, cand, verdict, review),
         st[p].pc \in Locked \ {"create"}, nextId' = nextId, SamePosts, SameNames,
         NEW run \in Runs, SaveRun(Host[p], run), run.id # None, From(p, run),
         \A r \in store[Host[p]].file.runs : r.cmp = run.cmp => r.id = run.id
  PROVE  Engine'
<1>1. PICK s \in States :
            /\ st' = [st EXCEPT ![p] = s]
            /\ s.pc \in {"idle", "mergeCheck", "publish", "dispose"}
            /\ s.pc # "idle" => s.cmd = st[p].cmd /\ s.cand = cand
            /\ s.pc = "dispose" => s.review # None
  BY OutcomeCases DEF IInv
<1>2. s.pc \notin Locked
  BY <1>1 DEF Locked
<1>3. holder' = [holder EXCEPT ![Host[p]] = None]
  BY OutcomeCases DEF IInv
<1>4. LockInv' /\ holder' \in [Hosts -> Procs \cup {None}]
  BY <1>1, <1>2, <1>3, Locks
<1>5. s.pc # "idle" => s.cmd \in Commands[p] /\ s.cand # None
  BY <1>1, StateFacts, NoneAssumption DEF CommandOK, Locked
<1>6. /\ \A h \in Hosts \ {Host[p]} : store'[h] = store[h]
      /\ store' \in [Hosts -> [lock : BOOLEAN, anchor : BOOLEAN, file : Journals \cup {None}]]
      /\ \A r \in store'[Host[p]].file.runs : r.id # None /\ From(p, r)
      /\ JournalOK(Host[p])'
  BY SaveRunDoes
<1>7. Moves(p, s)
  BY <1>1, <1>6 DEF Moves
<1>8. Continues(p, s) /\ s.pc \notin Running
  BY <1>2, <1>6 DEF Continues, Running, Locked
<1>9. st'[p] = s
  BY <1>1 DEF IInv, Types, EngineTypes
<1>10. CommandOK(p)'
  BY <1>1, <1>2, <1>5, <1>8, <1>9 DEF CommandOK, Locked, Running
<1> QED
  BY <1>4, <1>6, <1>7, <1>8, <1>10, EngineMove

LEMMA NamedRuns ==
  ASSUME IInv, NEW h \in Hosts, store[h].file # None
  PROVE  \A r \in store[h].file.runs : r.id # None /\ r.id \in 1 .. nextId - 1
<1>1. PICK f \in [1 .. nextId - 1 -> Comparison] : Named(f)
  BY DEF IInv, NameInv
<1>2. \A r \in store[h].file.runs : NameOK(f, r)
  BY <1>1 DEF Named
<1> QED
  BY <1>1, <1>2, NoneAssumption DEF NameOK, IInv, Types, EngineTypes

\* The journals of the host as they are.
LEMMA SameJournal ==
  ASSUME IInv, NEW p \in Procs,
         store'[Host[p]].file # None => store'[Host[p]].file.runs = store[Host[p]].file.runs,
         store'[Host[p]].file # None => store[Host[p]].file # None
  PROVE  store'[Host[p]].file # None =>
            \A r \in store'[Host[p]].file.runs : r.id # None /\ From(p, r)
BY NamedRuns, HostOf DEF From

LEMMA BeginStep ==
  ASSUME IInv, NEW p \in Procs, NEW cmd \in Commands[p], Begin(p, cmd), SamePosts, SameNames
  PROVE  Engine'
<1> DEFINE h == Host[p]
           d == store[h]
           s == [Idle EXCEPT !.cmd = cmd, !.cand = Seen,
                             !.pc = IF d.anchor THEN "inspect"
                                    ELSE IF d.lock THEN "migrate" ELSE "create"]
<1>1. MayStart(p, cmd) /\ nextId' = nextId /\ st[p].pc \in {"begin", "idle"}
  BY DEF Begin, MayStart
<1>2. Idle \in States /\ Idle.pc = "idle" /\ Idle.pc \notin Locked /\ st[p].pc \notin Locked
  BY <1>1, IdleTypes DEF Idle, Locked
<1>3. CASE st' = [st EXCEPT ![p] = Idle] /\ UNCHANGED <<store, holder>>
  <2>1. LockInv' /\ holder' \in [Hosts -> Procs \cup {None}]
    BY <1>2, <1>3, Locks
  <2> QED
    BY <1>1, <1>2, <1>3, <2>1, Away
<1>4. CASE /\ holder[h] = None /\ ~(d.lock /\ d.file = None)
           /\ holder' = [holder EXCEPT ![h] = p] /\ store' = [store EXCEPT ![h].lock = TRUE]
           /\ st' = [st EXCEPT ![p] = s]
  <2>1. /\ d \in [lock : BOOLEAN, anchor : BOOLEAN, file : Journals \cup {None}] /\ h \in Hosts
        /\ store \in [Hosts -> [lock : BOOLEAN, anchor : BOOLEAN, file : Journals \cup {None}]]
        /\ JournalOK(h) /\ st \in [Procs -> States]
    BY StateFacts DEF IInv, Types, EngineTypes, EngineInv
  <2>2. /\ store'[h].lock = TRUE /\ store'[h].anchor = d.anchor /\ store'[h].file = d.file
        /\ store' \in [Hosts -> [lock : BOOLEAN, anchor : BOOLEAN, file : Journals \cup {None}]]
        /\ \A g \in Hosts \ {h} : store'[g] = store[g]
    BY <1>4, <2>1
  <2>3. /\ s \in States /\ s.cmd = cmd /\ s.cand = Seen /\ s.run = None
        /\ s.pc = IF d.anchor THEN "inspect" ELSE IF d.lock THEN "migrate" ELSE "create"
    BY CommandNamed, Candidate, IdleTypes DEF States, Idle, Locked, IInv
  <2> HIDE DEF s
  <2>4. s.pc \in Locked /\ s.pc \notin Running
    BY <2>3 DEF Locked, Running
  <2>5. LockInv' /\ holder' \in [Hosts -> Procs \cup {None}]
    BY <1>4, <2>3, <2>4, Locks
  <2>6. Moves(p, s)
    BY <1>4, <2>2 DEF Moves
  <2>7. Continues(p, s)
    BY <2>2, <2>4, SameJournal DEF Continues
  <2>8. JournalOK(h)'
    BY <2>1, <2>2 DEF JournalOK
  <2>9. st'[p] = s
    BY <1>4, <2>1
  <2>10. CommandOK(p)'
    <3>1. s.cand # None
      BY <2>3, Candidate, NoneAssumption DEF IInv
    <3>2. d.lock => d.file # None
      BY <1>4
    <3>3. ~d.lock => d.file = None /\ ~d.anchor
      BY <2>1 DEF JournalOK
    <3> QED
      BY <2>1, <2>2, <2>3, <2>4, <2>9, <3>1, <3>2, <3>3 DEF CommandOK, Locked, Running
  <2> QED
    BY <1>1, <2>2, <2>3, <2>4, <2>5, <2>6, <2>7, <2>8, <2>10, EngineMove
<1> QED
  BY <1>3, <1>4 DEF Begin

LEMMA SaveJournalStep ==
  ASSUME IInv, NEW p \in Procs, SaveJournal(p), SamePosts, SameNames
  PROVE  Engine'
<1> DEFINE h == Host[p]
           d == store[h]
           file == IF st[p].pc = "create" THEN FreshJournal ELSE [d.file EXCEPT !.complete = FALSE]
           s == [st[p] EXCEPT !.pc = "anchor"]
<1>1. /\ st[p].pc \in {"create", "migrate"} /\ store' = [store EXCEPT ![h].file = file]
      /\ st' = [st EXCEPT ![p] = s] /\ UNCHANGED <<holder, nextId>>
  BY DEF SaveJournal, Saved, Goto
<1>2. /\ d \in [lock : BOOLEAN, anchor : BOOLEAN, file : Journals \cup {None}] /\ h \in Hosts
      /\ store \in [Hosts -> [lock : BOOLEAN, anchor : BOOLEAN, file : Journals \cup {None}]]
      /\ JournalOK(h) /\ st \in [Procs -> States] /\ CommandOK(p)
  BY StateFacts DEF IInv, Types, EngineTypes, EngineInv
<1>3. d.lock /\ ~d.anchor /\ (st[p].pc = "migrate" => d.file # None)
      /\ st[p].cmd \in Commands[p] /\ st[p].cand # None /\ st[p].pc \in Locked
  BY <1>1, <1>2 DEF CommandOK, Locked
<1>4. file \in Journals /\ file # None
      /\ file.runs = IF st[p].pc = "create" THEN {} ELSE d.file.runs
  <2>1. file \in Journals /\ file.runs = IF st[p].pc = "create" THEN {} ELSE d.file.runs
    BY <1>1, <1>2, <1>3 DEF FreshJournal, Journals
  <2> QED
    BY <2>1, NoneAssumption
<1> HIDE DEF file
<1>5. /\ store'[h].lock = d.lock /\ store'[h].anchor = d.anchor /\ store'[h].file = file
      /\ store' \in [Hosts -> [lock : BOOLEAN, anchor : BOOLEAN, file : Journals \cup {None}]]
      /\ \A g \in Hosts \ {h} : store'[g] = store[g]
  BY <1>1, <1>2, <1>4
<1>6. s \in States /\ s.pc = "anchor" /\ s.cmd = st[p].cmd /\ s.cand = st[p].cand
  BY <1>2 DEF States, Locked
<1> HIDE DEF s
<1>7. s.pc \in Locked /\ s.pc \notin Running
  BY <1>6 DEF Locked, Running
<1>8. LockInv' /\ holder' \in [Hosts -> Procs \cup {None}]
  BY <1>1, <1>3, <1>6, <1>7, Locks
<1>9. Moves(p, s)
  BY <1>1, <1>3, <1>5 DEF Moves
<1>10. \A r \in store'[h].file.runs : r.id # None /\ From(p, r)
  <2>1. CASE st[p].pc = "create"
    BY <1>4, <1>5, <2>1
  <2>2. CASE st[p].pc = "migrate"
    BY <1>3, <1>4, <1>5, <2>2, SameJournal
  <2> QED
    BY <1>1, <2>1, <2>2
<1>11. Continues(p, s)
  BY <1>7, <1>10 DEF Continues
<1>12. JournalOK(h)'
  BY <1>1, <1>2, <1>3, <1>4, <1>5 DEF JournalOK
<1>13. st'[p] = s
  BY <1>1, <1>2
<1>14. CommandOK(p)'
  BY <1>3, <1>4, <1>5, <1>6, <1>7, <1>13 DEF CommandOK, Locked, Running
<1> QED
  BY <1>1, <1>5, <1>6, <1>7, <1>8, <1>9, <1>11, <1>12, <1>14, EngineMove

LEMMA WriteAnchorStep ==
  ASSUME IInv, NEW p \in Procs, WriteAnchor(p), SamePosts, SameNames
  PROVE  Engine'
<1> DEFINE h == Host[p]
           d == store[h]
           s == [st[p] EXCEPT !.pc = "inspect"]
<1>1. /\ st[p].pc = "anchor" /\ store' = [store EXCEPT ![h].anchor = TRUE]
      /\ st' = [st EXCEPT ![p] = s] /\ UNCHANGED <<holder, nextId>>
  BY DEF WriteAnchor, Goto
<1>2. /\ d \in [lock : BOOLEAN, anchor : BOOLEAN, file : Journals \cup {None}] /\ h \in Hosts
      /\ store \in [Hosts -> [lock : BOOLEAN, anchor : BOOLEAN, file : Journals \cup {None}]]
      /\ JournalOK(h) /\ st \in [Procs -> States] /\ CommandOK(p)
  BY StateFacts DEF IInv, Types, EngineTypes, EngineInv
<1>3. d.lock /\ d.file # None
      /\ st[p].cmd \in Commands[p] /\ st[p].cand # None /\ st[p].pc \in Locked
  BY <1>1, <1>2 DEF CommandOK, Locked
<1>4. /\ store'[h].lock = d.lock /\ store'[h].anchor = TRUE /\ store'[h].file = d.file
      /\ store' \in [Hosts -> [lock : BOOLEAN, anchor : BOOLEAN, file : Journals \cup {None}]]
      /\ \A g \in Hosts \ {h} : store'[g] = store[g]
  BY <1>1, <1>2
<1>5. s \in States /\ s.pc = "inspect" /\ s.cmd = st[p].cmd /\ s.cand = st[p].cand
  BY <1>2 DEF States, Locked
<1> HIDE DEF s
<1>6. s.pc \in Locked /\ s.pc \notin Running
  BY <1>5 DEF Locked, Running
<1>7. LockInv' /\ holder' \in [Hosts -> Procs \cup {None}]
  BY <1>1, <1>3, <1>5, <1>6, Locks
<1>8. Moves(p, s)
  BY <1>1, <1>3, <1>4 DEF Moves
<1>9. Continues(p, s)
  BY <1>4, <1>6, SameJournal DEF Continues
<1>10. JournalOK(h)'
  BY <1>2, <1>3, <1>4 DEF JournalOK
<1>11. st'[p] = s
  BY <1>1, <1>2
<1>12. CommandOK(p)'
  BY <1>3, <1>4, <1>5, <1>6, <1>11 DEF CommandOK, Locked, Running
<1> QED
  BY <1>1, <1>4, <1>5, <1>6, <1>7, <1>8, <1>9, <1>10, <1>12, EngineMove

LEMMA LoseJournalStep ==
  ASSUME IInv, NEW p \in Procs, LoseJournal(Host[p]), SamePosts, SameNames
  PROVE  Engine'
<1> DEFINE h == Host[p]
           d == store[h]
           s == st[p]
<1>1. /\ d.file # None /\ holder[h] = None /\ store' = [store EXCEPT ![h].file = None]
      /\ UNCHANGED <<holder, st, nextId>>
  BY DEF LoseJournal
<1>2. /\ d \in [lock : BOOLEAN, anchor : BOOLEAN, file : Journals \cup {None}] /\ h \in Hosts
      /\ store \in [Hosts -> [lock : BOOLEAN, anchor : BOOLEAN, file : Journals \cup {None}]]
      /\ JournalOK(h) /\ st \in [Procs -> States] /\ CommandOK(p) /\ s \in States
  BY StateFacts DEF IInv, Types, EngineTypes, EngineInv
<1>3. s.pc \notin Locked /\ s.pc \notin Running
  BY <1>1, NoneAssumption DEF IInv, EngineInv, LockInv, Locked, Running
<1>4. /\ store'[h].lock = d.lock /\ store'[h].anchor = d.anchor /\ store'[h].file = None
      /\ store' \in [Hosts -> [lock : BOOLEAN, anchor : BOOLEAN, file : Journals \cup {None}]]
      /\ \A g \in Hosts \ {h} : store'[g] = store[g]
  BY <1>1, <1>2
<1>5. st' = [st EXCEPT ![p] = s]
  BY <1>1, <1>2
<1>6. LockInv' /\ holder' \in [Hosts -> Procs \cup {None}]
  BY <1>1, <1>2, <1>5, Locks
<1>7. Moves(p, s)
  BY <1>1, <1>4, <1>5 DEF Moves
<1>8. Continues(p, s)
  BY <1>3, <1>4 DEF Continues
<1>9. JournalOK(h)'
  BY <1>2, <1>4 DEF JournalOK
<1>10. CommandOK(p)'
  BY <1>1, <1>2, <1>3, <1>4 DEF CommandOK, Locked, Running
<1> QED
  BY <1>1, <1>2, <1>3, <1>4, <1>6, <1>7, <1>8, <1>9, <1>10, EngineMove

\* A run in progress is what its host knows.
LEMMA RunningFacts ==
  ASSUME IInv, NEW p \in Procs, st[p].pc \in Running
  PROVE  /\ st[p].run \in Runs /\ st[p].run.cmp = st[p].cand.cmp /\ RunOK(p)
         /\ st[p].cmd \in Commands[p] /\ st[p].cand \in Candidates /\ st[p].cand # None
         /\ store[Host[p]].lock /\ store[Host[p]].anchor /\ store[Host[p]].file # None
         /\ st[p].pc \in Locked \ {"create"} /\ From(p, st[p].run)
         /\ st[p].verdict \in Verdicts
<1>1. st[p].pc \in Locked \ {"create"} /\ st[p].pc \notin {"idle", "begin"}
  BY DEF Running, Locked
<1>2. CommandOK(p) /\ RunOK(p)
  BY DEF IInv, EngineInv
<1>3. From(p, st[p].run)
  BY DEF From
<1>4. st[p].verdict \in Verdicts
  BY <1>2, StateFacts DEF CommandOK, States
<1> QED
  BY <1>1, <1>2, <1>3, <1>4, StateFacts DEF CommandOK

LEMMA ChecksStep ==
  ASSUME IInv, NEW p \in Procs, Checks(p), SamePosts, SameNames
  PROVE  Engine'
<1>1. PICK ci \in BOOLEAN :
        st' = [st EXCEPT ![p].pc = "finish",
                         ![p].verdict = IF ChecksPass(st[p].cand.cmp.head, ci) THEN st[p].verdict
                                        ELSE "Blocked"]
  BY DEF Checks
<1>2. st[p].pc = "checks" /\ UNCHANGED <<store, holder, nextId>>
  BY DEF Checks
<1> DEFINE verdict == IF ChecksPass(st[p].cand.cmp.head, ci) THEN st[p].verdict ELSE "Blocked"
           s == [st[p] EXCEPT !.pc = "finish", !.verdict = verdict]
<1>3. /\ st[p] \in States /\ st \in [Procs -> States] /\ Host[p] \in Hosts /\ CommandOK(p)
      /\ store \in [Hosts -> [lock : BOOLEAN, anchor : BOOLEAN, file : Journals \cup {None}]]
      /\ JournalOK(Host[p])
  BY StateFacts DEF IInv, Types, EngineTypes, EngineInv
<1>4. verdict \in Verdicts
  BY <1>2, RunningFacts DEF Running, Verdicts
<1>5. st' = [st EXCEPT ![p] = s]
  BY <1>1, <1>3
<1> HIDE DEF verdict
<1>6. /\ s \in States /\ s.pc = "finish" /\ s.cmd = st[p].cmd /\ s.cand = st[p].cand
      /\ s.run = st[p].run /\ s.verdict = verdict
  BY <1>3, <1>4 DEF States, Locked
<1> HIDE DEF s
<1>7. st[p].pc \in Running /\ s.pc \in Locked \cap Running /\ st[p].pc \in Locked
  BY <1>2, <1>6 DEF Running, Locked
<1>8. LockInv' /\ holder' \in [Hosts -> Procs \cup {None}]
  BY <1>2, <1>5, <1>6, <1>7, Locks
<1>9. Moves(p, s)
  BY <1>2, <1>5 DEF Moves
<1>10. Continues(p, s)
  BY <1>2, <1>6, <1>7, SameJournal, RunningFacts DEF Continues
<1>11. JournalOK(Host[p])' /\ st'[p] = s
  BY <1>2, <1>3, <1>5 DEF JournalOK
<1>12. CommandOK(p)'
  BY <1>2, <1>3, <1>4, <1>6, <1>7, <1>11, NoneAssumption DEF CommandOK, Locked, Running
<1>13. RunOK(p)'
  BY <1>2, <1>6, <1>7, <1>11, RunningFacts DEF RunOK
<1> QED
  BY <1>2, <1>3, <1>6, <1>7, <1>8, <1>9, <1>10, <1>11, <1>12, <1>13, EngineMove

LEMMA FinishStep ==
  ASSUME IInv, NEW p \in Procs, Finish(p), SamePosts, SameNames
  PROVE  Engine'
<1> DEFINE result == Finished(st[p].cand, st[p].verdict)
<1>1. /\ st[p].pc = "finish" /\ nextId' = nextId /\ SaveRun(Host[p], st[p].run)
      /\ Outcome(p, result.cand, result.verdict, st[p].review)
  BY DEF Finish
<1>2. st[p].pc \in Running
  BY <1>1 DEF Running
<1>3. /\ st[p].run \in Runs /\ RunOK(p) /\ st[p].cand \in Candidates
      /\ st[p].pc \in Locked \ {"create"} /\ From(p, st[p].run)
  BY <1>2, RunningFacts
<1>4. st[p].run.id # None
      /\ \A r \in store[Host[p]].file.runs : r.cmp = st[p].run.cmp => r.id = st[p].run.id
  BY <1>1, <1>3 DEF RunOK
<1>5. st[p].review \in Reviews \cup {None} /\ st[p].verdict \in Verdicts
  BY <1>2, StateFacts, RunningFacts DEF States
<1>6. result.cand \in Candidates /\ result.verdict \in Verdicts
  BY <1>3, <1>5, Candidate DEF Finished, Verdicts, IInv
<1> HIDE DEF result
<1> QED
  BY <1>1, <1>3, <1>4, <1>5, <1>6, SaveOutcomeStep

LEMMA ReadFailsStep ==
  ASSUME IInv, NEW p \in Procs, ReadFails(p), SamePosts, SameNames
  PROVE  Engine'
<1>1. /\ st[p].pc = "inspect" /\ nextId' = nextId
      /\ Outcome(p, st[p].cand, "Blocked", None)
      /\ \/ UNCHANGED store
         \/ Kept(p) # None /\ \E wait \in BOOLEAN : SaveRun(Host[p], [Kept(p) EXCEPT !.wait = wait])
  BY Zenon DEF ReadFails, Kept
<1>2. st[p].pc \in Locked \ {"create"} /\ st[p].cand # None /\ st[p].cand \in Candidates
  BY <1>1, StateFacts DEF CommandOK, Locked
<1>3. CASE UNCHANGED store
  BY <1>1, <1>2, <1>3, OutcomeStep DEF Verdicts
<1>4. ASSUME Kept(p) # None, NEW wait \in BOOLEAN, SaveRun(Host[p], [Kept(p) EXCEPT !.wait = wait])
      PROVE  Engine'
  <2> DEFINE run == [Kept(p) EXCEPT !.wait = wait]
  <2>1. Kept(p) \in store[Host[p]].file.runs /\ Host[p] \in Hosts /\ store[Host[p]].file # None
    BY <1>2, <1>4, KeptRun, StateFacts DEF CommandOK, IInv
  <2>2. Kept(p) \in Runs /\ Kept(p).id # None
    BY <2>1, StateFacts, NamedRuns
  <2>3. run \in Runs /\ run.id = Kept(p).id /\ run.cmp = Kept(p).cmp
        /\ run.submission = Kept(p).submission
    BY <2>2 DEF Runs
  <2>4. SaveRun(Host[p], run)
    BY <1>4
  <2> HIDE DEF run
  <2>5. From(p, run)
    BY <2>1, <2>3 DEF From
  <2>6. \A r \in store[Host[p]].file.runs : r.cmp = run.cmp => r.id = run.id
    BY <2>1, <2>3 DEF IInv, EngineInv, JournalOK
  <2> QED
    BY <1>1, <1>2, <2>2, <2>3, <2>4, <2>5, <2>6, SaveOutcomeStep DEF Verdicts
<1> QED
  BY <1>1, <1>3, <1>4

LEMMA InspectStep ==
  ASSUME IInv, NEW p \in Procs, InspectRun(p), SamePosts, SameNames
  PROVE  Engine'
<1>1. st[p].pc = "inspect" /\ nextId' = nextId
  BY InspectCases
<1>2. /\ st[p].pc \in Locked \ {"create"} /\ st[p].cand # None /\ st[p].cand \in Candidates
      /\ Host[p] \in Hosts /\ store[Host[p]].file # None
      /\ store[Host[p]].lock /\ store[Host[p]].anchor /\ st[p].cmd \in Commands[p]
  BY <1>1, StateFacts DEF CommandOK, Locked
<1>3. Kept(p) # None =>
        /\ Kept(p) \in store[Host[p]].file.runs /\ Kept(p) \in Runs /\ Kept(p).id # None
        /\ \A r \in store[Host[p]].file.runs : r.cmp = Kept(p).cmp => r.id = Kept(p).id
  BY <1>2, KeptRun, NamedRuns, StateFacts DEF IInv, EngineInv, JournalOK
<1>4. CASE Outcome(p, st[p].cand, "Blocked", None) /\ UNCHANGED store
  BY <1>1, <1>2, <1>4, OutcomeStep DEF Verdicts
<1>5. CASE /\ Outcome(p, st[p].cand, "Blocked", None) /\ Kept(p) # None
           /\ SaveRun(Host[p], [Kept(p) EXCEPT !.wait = FALSE])
  <2> DEFINE run == [Kept(p) EXCEPT !.wait = FALSE]
  <2>1. run \in Runs /\ run.id = Kept(p).id /\ run.cmp = Kept(p).cmp
        /\ run.submission = Kept(p).submission
    BY <1>3, <1>5 DEF Runs
  <2>2. SaveRun(Host[p], run)
    BY <1>5
  <2> HIDE DEF run
  <2>3. From(p, run)
    BY <1>2, <1>3, <1>5, <2>1 DEF From
  <2> QED
    BY <1>1, <1>2, <1>3, <1>5, <2>1, <2>2, <2>3, SaveOutcomeStep DEF Verdicts
<1>6. ASSUME UNCHANGED <<store, holder>>,
             Kept(p) = None /\ Found(p).request = None => AllowSubmit(st[p].cmd),
             NEW verdict \in Verdicts, NEW review \in {None, Found(p).review},
             NEW pc \in {"checks", "dispatch", "finish"}, GoesOn(p, verdict, review, pc)
      PROVE  Engine'
  <2> USE DEF GoesOn
  <2> DEFINE s == [st[p] EXCEPT !.run = RunNow(p), !.verdict = verdict, !.review = review, !.pc = pc]
  <2>1. /\ st[p] \in States /\ st \in [Procs -> States] /\ CommandOK(p)
        /\ store \in [Hosts -> [lock : BOOLEAN, anchor : BOOLEAN, file : Journals \cup {None}]]
        /\ JournalOK(Host[p])
    BY <1>2, StateFacts DEF IInv, Types, EngineTypes, EngineInv
  <2>2. st' = [st EXCEPT ![p] = s]
    BY <1>6, <2>1
  <2>3. RunNow(p) \in Runs /\ RunNow(p).cmp = st[p].cand.cmp /\ RunNow(p) # None
    BY <1>1, RunNowFacts, NoneAssumption
  <2>4. /\ s \in States /\ s.pc = pc /\ s.cmd = st[p].cmd /\ s.cand = st[p].cand
        /\ s.run = RunNow(p) /\ s.verdict = verdict
    <3>1. review \in Reviews \cup {None}
      BY <1>1, <1>6, FoundReview
    <3>2. pc \in Locked \cup Merging \cup {"idle", "begin", "publish", "dispose"}
      BY <1>6 DEF Locked
    <3> QED
      BY <2>1, <2>3, <3>1, <3>2 DEF States
  <2> HIDE DEF s
  <2>5. s.pc \in Locked \cap Running /\ s.pc # "submit"
    BY <2>4 DEF Locked, Running
  <2>6. LockInv' /\ holder' \in [Hosts -> Procs \cup {None}]
    BY <1>2, <1>6, <2>2, <2>4, <2>5, Locks
  <2>7. Moves(p, s)
    BY <1>6, <2>2 DEF Moves
  <2>8. RunNow(p).id # None => From(p, RunNow(p))
    <3>1. CASE Kept(p) # None
      BY <1>1, <1>2, <1>3, <2>3, <3>1, RunNowFacts, KeptRun DEF From, IInv
    <3>2. CASE Kept(p) = None /\ Found(p).request # None
      <4> DEFINE i == Found(p).request
      <4>1. /\ i \in At("request") /\ RunNow(p).id = log[i].id /\ RunNow(p).submission = "Submitted"
        BY <1>1, <3>2, RunNowFacts
      <4>2. log[i].cmp = st[p].cand.cmp
        <5>1. i = RequestFor(st[p].cand.cmp, None)
          BY <3>2 DEF Found, Inspect
        <5> QED
          BY <3>2, <5>1, Requested DEF IInv
      <4> QED
        BY <2>3, <4>1, <4>2 DEF From, Posts
    <3>3. CASE Kept(p) = None /\ Found(p).request = None
      BY <1>1, <3>3, RunNowFacts
    <3> QED
      BY <3>1, <3>2, <3>3
  <2>9. Continues(p, s)
    BY <1>6, <2>4, <2>5, <2>8, SameJournal DEF Continues
  <2>10. JournalOK(Host[p])' /\ st'[p] = s
    BY <1>6, <2>1, <2>2 DEF JournalOK
  <2>11. CommandOK(p)'
    BY <1>2, <1>6, <2>3, <2>4, <2>5, <2>10, NoneAssumption DEF CommandOK, Locked, Running
  <2>12. RunOK(p)'
    <3>1. RunNow(p).id = None => pc = "dispatch" /\ Kept(p) = None
      BY <1>1, <1>3, <1>6, RunNowFacts, Requested, Sequences, Kinds, NoneAssumption
         DEF IInv, At, Requests
    <3>2. Kept(p) = None => \A r \in store[Host[p]].file.runs : r.cmp # RunNow(p).cmp
      BY <1>1, <2>1, <2>3, NoKeptRun DEF IInv
    <3>3. Kept(p) # None => \A r \in store[Host[p]].file.runs :
                               r.cmp = RunNow(p).cmp => r.id = RunNow(p).id
      BY <1>1, <1>3, <2>3, RunNowFacts, KeptRun DEF IInv
    <3> QED
      BY <1>6, <2>4, <2>5, <2>10, <3>1, <3>2, <3>3 DEF RunOK
  <2> QED
    BY <1>1, <1>6, <2>1, <2>4, <2>6, <2>7, <2>9, <2>10, <2>11, <2>12, EngineMove
<1> QED
  BY <1>4, <1>5, <1>6, InspectCases

-----------------------------------------------------------------------------
(* Asking for a review.                                                    *)

\* A command ready to ask saves its run and goes on with it.
IdOf(p) == IF st[p].run.id = None THEN nextId ELSE st[p].run.id
RunOf(p) == [st[p].run EXCEPT !.id = IdOf(p), !.submission = "Unknown"]
Asks(p) == [st[p] EXCEPT !.run = RunOf(p), !.pc = "submit"]

LEMMA DispatchDoes ==
  ASSUME IInv, NEW p \in Procs, Dispatch(p), Seen = st[p].cand
  PROVE  LET id == IdOf(p)
             run == RunOf(p)
             s == Asks(p)
         IN  /\ st[p].pc = "dispatch" /\ holder' = holder
             /\ nextId' = IF id = nextId THEN nextId + 1 ELSE nextId
             /\ s \in States /\ s.pc = "submit" /\ s.cmd = st[p].cmd /\ s.cand = st[p].cand
             /\ s.run = run /\ s.verdict = st[p].verdict
             /\ run \in Runs /\ run.id = id /\ run.cmp = st[p].run.cmp /\ run.submission = "Unknown"
             /\ run # None /\ id # None /\ SaveRun(Host[p], run)
             /\ Moves(p, s) /\ LockInv' /\ holder' \in [Hosts -> Procs \cup {None}]
             /\ JournalOK(Host[p])' /\ CommandOK(p)' /\ RunOK(p)'
             /\ store' \in [Hosts -> [lock : BOOLEAN, anchor : BOOLEAN, file : Journals \cup {None}]]
             /\ store'[Host[p]].file # None
             /\ \A r \in store'[Host[p]].file.runs : r.id # None /\ (r = run \/ From(p, r))
<1> DEFINE id == IdOf(p)
           run == RunOf(p)
           s == Asks(p)
<1>1. /\ st[p].pc = "dispatch" /\ holder' = holder /\ SaveRun(Host[p], run)
      /\ st' = [st EXCEPT ![p].run = run, ![p].pc = "submit"]
      /\ nextId' = IF id = nextId THEN nextId + 1 ELSE nextId
  BY DEF Dispatch, IdOf, RunOf
<1>2. st[p].pc \in Running
  BY <1>1 DEF Running
<1>3. /\ st[p].run \in Runs /\ st[p].run.cmp = st[p].cand.cmp /\ RunOK(p)
      /\ st[p].cmd \in Commands[p] /\ st[p].cand \in Candidates /\ st[p].cand # None
      /\ store[Host[p]].lock /\ store[Host[p]].anchor /\ store[Host[p]].file # None
      /\ st[p].pc \in Locked \ {"create"} /\ st[p].verdict \in Verdicts
  BY <1>2, RunningFacts
<1>4. st[p] \in States /\ st \in [Procs -> States] /\ nextId \in Nat
  BY StateFacts DEF IInv, Types, EngineTypes
<1>5. id \in Nat /\ id # None
  BY <1>3, <1>4, NoneAssumption DEF Runs, IdOf
<1> HIDE DEF id
<1>6. run \in Runs /\ run.id = id /\ run.cmp = st[p].run.cmp /\ run.submission = "Unknown"
  BY <1>3, <1>5 DEF Runs, RunOf, id
<1> HIDE DEF run
<1>7. run # None
  BY <1>6, NoneAssumption
<1>8. st' = [st EXCEPT ![p] = s]
  BY <1>1, <1>4 DEF Asks, run
<1>9. /\ s \in States /\ s.pc = "submit" /\ s.cmd = st[p].cmd /\ s.cand = st[p].cand
      /\ s.run = run /\ s.verdict = st[p].verdict
  BY <1>4, <1>6 DEF States, Locked, Asks, run
<1> HIDE DEF s
<1>10. \A r \in store[Host[p]].file.runs : r.cmp = run.cmp => r.id = run.id
  BY <1>3, <1>6 DEF RunOK, IdOf, id
<1>11. /\ \A h \in Hosts \ {Host[p]} : store'[h] = store[h]
       /\ store' \in [Hosts -> [lock : BOOLEAN, anchor : BOOLEAN, file : Journals \cup {None}]]
       /\ store'[Host[p]].file # None
       /\ store'[Host[p]].lock = store[Host[p]].lock /\ store'[Host[p]].anchor = store[Host[p]].anchor
       /\ store'[Host[p]].file.runs = {r \in store[Host[p]].file.runs : r.id # run.id} \cup {run}
       /\ \A r \in store'[Host[p]].file.runs : r.id # None /\ (r = run \/ From(p, r))
       /\ JournalOK(Host[p])'
  BY <1>1, <1>3, <1>5, <1>6, <1>10, SaveRunDoes
<1>12. s.pc \in Locked \cap Running
  BY <1>9 DEF Locked, Running
<1>13. LockInv' /\ holder' \in [Hosts -> Procs \cup {None}]
  BY <1>1, <1>3, <1>8, <1>9, <1>12, Locks
<1>14. Moves(p, s) /\ st'[p] = s
  BY <1>3, <1>4, <1>8, <1>11 DEF Moves
<1>15. CommandOK(p)'
  BY <1>3, <1>6, <1>7, <1>9, <1>11, <1>12, <1>14, NoneAssumption DEF CommandOK, Locked, Running
<1>16. RunOK(p)'
  <2>1. st'[p].pc = "submit" /\ st'[p].run = run /\ st'[p].cmd = st[p].cmd
    BY <1>9, <1>14
  <2>2. run \in store'[Host[p]].file.runs
    BY <1>11
  <2>3. \A r \in store'[Host[p]].file.runs : r.cmp = run.cmp => r.id = run.id
    BY <1>10, <1>11
  <2>4. AllowSubmit(st[p].cmd)
    BY <1>1, <1>3 DEF RunOK
  <2>5. run.id # None /\ run.submission = "Unknown"
    BY <1>5, <1>6
  <2> QED
    BY <2>1, <2>2, <2>3, <2>4, <2>5 DEF RunOK
<1> QED
  BY <1>1, <1>5, <1>6, <1>7, <1>9, <1>11, <1>13, <1>14, <1>15, <1>16 DEF s, run, id

\* A fresh identity is nobody's.
LEMMA Fresh ==
  ASSUME IInv
  PROVE  /\ ~Asked(nextId) /\ nextId # None /\ nextId \in Nat
         /\ \A h \in Hosts : ~Knows(h, nextId)
<1>1. PICK f \in [1 .. nextId - 1 -> Comparison] : Named(f)
  BY DEF IInv, NameInv
<1>2. nextId \in Nat /\ nextId # None /\ nextId \notin 1 .. nextId - 1
  BY NoneAssumption DEF IInv, Types, EngineTypes
<1>3. \A i \in Posts : log[i].id \in 1 .. nextId - 1
  BY <1>1 DEF Named, NameOK
<1>4. \A x \in LatePosts : x.id \in 1 .. nextId - 1
  BY <1>1 DEF Named, NameOK, LatePosts
<1>5. \A h \in Hosts : store[h].file # None => \A r \in store[h].file.runs : r.id \in 1 .. nextId - 1
  BY <1>1 DEF Named, NameOK
<1>6. \A q \in Procs : st[q].pc \in Running /\ st[q].run.id # None
                          => st[q].run.id \in 1 .. nextId - 1
  BY <1>1 DEF Named, NameOK
<1> QED
  BY <1>2, <1>3, <1>4, <1>5, <1>6 DEF Asked, Knows

LEMMA FreshStep ==
  ASSUME IInv, NEW p \in Procs, Dispatch(p), Seen = st[p].cand, st[p].run.id = None,
         SamePosts, SameNames
  PROVE  Engine'
<1> DEFINE run == RunOf(p)
           s == Asks(p)
<1>1. /\ nextId' = nextId + 1 /\ s \in States /\ s.pc = "submit" /\ s.run = run
      /\ run \in Runs /\ run.id = nextId /\ run.submission = "Unknown" /\ nextId # None
      /\ Moves(p, s) /\ LockInv' /\ holder' \in [Hosts -> Procs \cup {None}]
      /\ JournalOK(Host[p])' /\ CommandOK(p)' /\ RunOK(p)'
      /\ store' \in [Hosts -> [lock : BOOLEAN, anchor : BOOLEAN, file : Journals \cup {None}]]
      /\ store'[Host[p]].file # None
      /\ \A r \in store'[Host[p]].file.runs : r.id # None /\ (r = run \/ From(p, r))
  BY DispatchDoes DEF IdOf
<1> HIDE DEF s, run
<1>2. /\ st' \in [Procs -> States] /\ st'[p] = s /\ \A q \in Procs \ {p} : st'[q] = st[q]
      /\ nextId \in Nat \ {0} /\ nextId' \in Nat \ {0} /\ Host[p] \in Hosts
      /\ \A h \in Hosts \ {Host[p]} : store'[h] = store[h]
  BY <1>1, HostOf DEF Moves, IInv, Types, EngineTypes
<1>3. EngineInv'
  BY <1>1, EngineKept
<1>4. EngineTypes'
  BY <1>1, <1>2 DEF EngineTypes
<1>5. NameInv'
  <2>1. PICK f \in [1 .. nextId - 1 -> Comparison] : Named(f)
    BY DEF IInv, NameInv
  <2>2. PICK g \in [1 .. nextId + 1 - 1 -> Comparison] :
           /\ \A i \in DOMAIN f : i \in DOMAIN g /\ g[i] = f[i]
           /\ nextId \in DOMAIN g /\ g[nextId] = run.cmp
    <3> DEFINE g == [i \in 1 .. nextId + 1 - 1 |-> IF i = nextId THEN run.cmp ELSE f[i]]
    <3>1. \A i \in 1 .. nextId + 1 - 1 : i # nextId => i \in 1 .. nextId - 1
      BY <1>2
    <3>2. \A i \in 1 .. nextId - 1 : i \in 1 .. nextId + 1 - 1 /\ i # nextId
      BY <1>2
    <3>3. nextId \in 1 .. nextId + 1 - 1
      BY <1>2
    <3>4. run.cmp \in Comparison
      BY <1>1 DEF Runs
    <3>5. g \in [1 .. nextId + 1 - 1 -> Comparison]
      BY <3>1, <3>4
    <3>6. \A i \in DOMAIN f : i \in DOMAIN g /\ g[i] = f[i]
      BY <3>2
    <3>7. nextId \in DOMAIN g /\ g[nextId] = run.cmp
      BY <3>3
    <3> HIDE DEF g
    <3> QED
      BY <3>5, <3>6, <3>7
  <2>3. \A x : NameOK(f, x) => NameOK(g, x)
    BY <2>2 DEF NameOK
  <2>4. NameOK(g, run)
    BY <1>1, <2>2 DEF NameOK
  <2>5. NamedElsewhere(g)'
    BY <2>1, <2>3 DEF SameNames, NamedElsewhere
  <2>6. ASSUME NEW h \in Hosts, store'[h].file # None, NEW r \in store'[h].file.runs
        PROVE  NameOK(g, r)
    BY <1>1, <1>2, <2>1, <2>3, <2>4, <2>6, FromNamed DEF Named
  <2>7. ASSUME NEW q \in Procs, st'[q].pc \in Running, st'[q].run.id # None
        PROVE  NameOK(g, st'[q].run)
    BY <1>1, <1>2, <2>1, <2>3, <2>4, <2>7 DEF Named
  <2>8. g \in [1 .. nextId' - 1 -> Comparison]
    BY <1>1, <2>2
  <2>9. Named(g)'
    BY <2>5, <2>6, <2>7, <2>8 DEF Named, NamedElsewhere
  <2> QED
    BY <2>8, <2>9 DEF NameInv
<1>6. RequestInv'
  <2>1. /\ Posts' = Posts /\ LatePosts' = LatePosts
        /\ \A i \in Posts : log'[i].id = log[i].id
        /\ \A id : Asked(id)' <=> Asked(id)
    BY DEF SamePosts, Asked
  <2>2. /\ \A i, j \in Posts' : log'[i].id = log'[j].id => i = j
        /\ \A x, y \in LatePosts' : x.id = y.id => x = y
        /\ \A i \in Posts', x \in LatePosts' : log'[i].id # x.id
    BY <2>1 DEF IInv, RequestInv
  <2>3. ASSUME NEW h \in Hosts, store'[h].file # None, NEW r \in store'[h].file.runs,
               r.submission = "Deferred"
        PROVE  ~Asked(r.id)'
    <3>1. CASE h = Host[p]
      <4>1. r.id # None /\ (r.id = nextId \/ From(p, r))
        BY <1>1, <2>3, <3>1
      <4>2. ~Asked(r.id)
        BY <1>1, <2>3, <4>1, Fresh, FromUnasked
      <4> QED
        BY <2>1, <4>2
    <3>2. CASE h # Host[p]
      <4>1. store'[h] = store[h]
        BY <1>2, <3>2
      <4>2. ~Asked(r.id)
        BY <2>3, <4>1 DEF RequestInv, IInv
      <4> QED
        BY <2>1, <4>2
    <3> QED
      BY <3>1, <3>2
  <2>4. ASSUME NEW q \in Procs, st'[q].pc \in Running, st'[q].run.id # None,
               st'[q].run.submission = "Deferred" \/ st'[q].pc = "submit"
        PROVE  ~Asked(st[q].run.id)'
    <3>1. CASE q = p
      BY <1>1, <1>2, <2>1, <2>4, <3>1, Fresh
    <3>2. CASE q # p
      BY <1>2, <2>1, <2>4, <3>2 DEF RequestInv, IInv
    <3> QED
      BY <3>1, <3>2
  <2>5. ASSUME NEW h \in Hosts, NEW id \in 1 .. nextId' - 1, Knows(h, id)'
        PROVE  IF id = nextId THEN h = Host[p] ELSE Knows(h, id) \/ Asked(id)
    <3>1. id # None
      BY <1>2, NoneAssumption
    <3>2. CASE store'[h].file # None /\ \E r \in store'[h].file.runs : r.id = id
      <4>1. CASE h = Host[p]
        BY <1>1, <3>2, <4>1, FromKnown
      <4>2. CASE h # Host[p]
        BY <1>2, <3>2, <4>2, Fresh DEF Knows
      <4> QED
        BY <4>1, <4>2
    <3>3. CASE \E q \in Procs : Host[q] = h /\ st'[q].pc \in Running /\ st'[q].run.id = id
      BY <1>1, <1>2, <3>1, <3>3, Fresh, HostOf DEF Knows
    <3> QED
      BY <2>5, <3>2, <3>3 DEF Knows
  <2>6. ASSUME NEW g \in Hosts, NEW h \in Hosts, NEW id \in 1 .. nextId' - 1,
               g # h, Knows(g, id)', Knows(h, id)'
        PROVE  Asked(id)'
    <3>1. id # nextId /\ (Knows(g, id) \/ Asked(id)) /\ (Knows(h, id) \/ Asked(id))
      BY <2>5, <2>6
    <3>2. id \in 1 .. nextId - 1
      BY <1>1, <1>2, <3>1
    <3> QED
      BY <2>1, <2>6, <3>1, <3>2 DEF RequestInv, IInv
  <2>7. \A g, h \in Hosts, id \in 1 .. nextId' - 1 :
          g # h /\ Knows(g, id)' /\ Knows(h, id)' => Asked(id)'
    BY <2>6
  <2> QED
    BY <2>2, <2>3, <2>4, <2>7, Zenon DEF RequestInv
<1> QED
  BY <1>3, <1>4, <1>5, <1>6 DEF Engine

LEMMA KnownStep ==
  ASSUME IInv, NEW p \in Procs, Dispatch(p), Seen = st[p].cand, st[p].run.id # None,
         SamePosts, SameNames
  PROVE  Engine'
<1> DEFINE id == IdOf(p)
           run == RunOf(p)
           s == Asks(p)
<1>0. id = st[p].run.id
  BY DEF IdOf
<1>1. /\ nextId' = (IF id = nextId THEN nextId + 1 ELSE nextId)
      /\ st[p].pc = "dispatch" /\ s \in States /\ s.pc = "submit" /\ s.run = run
      /\ run \in Runs /\ run.id = id /\ run.cmp = st[p].run.cmp
      /\ run.submission = "Unknown"
      /\ Moves(p, s) /\ LockInv' /\ holder' \in [Hosts -> Procs \cup {None}]
      /\ JournalOK(Host[p])' /\ CommandOK(p)' /\ RunOK(p)'
      /\ store' \in [Hosts -> [lock : BOOLEAN, anchor : BOOLEAN, file : Journals \cup {None}]]
      /\ store'[Host[p]].file # None
      /\ \A r \in store'[Host[p]].file.runs : r.id # None /\ (r = run \/ From(p, r))
  BY DispatchDoes
<1> HIDE DEF s, run, id
<1>2. st[p].pc \in Running
  BY <1>1 DEF Running
<1>3. st[p].run.submission = "Deferred"
  BY <1>1, <1>2, RunningFacts DEF RunOK
<1>4. nextId' = nextId
  <2>1. Knows(Host[p], st[p].run.id)
    BY <1>2 DEF Knows
  <2> QED
    BY <1>0, <1>1, <2>1, Fresh, HostOf
<1>5. From(p, run)
  BY <1>0, <1>1, <1>2, <1>3 DEF From
<1>6. Continues(p, s)
  BY <1>0, <1>1, <1>2, <1>3, <1>5 DEF Continues
<1> QED
  BY <1>1, <1>4, <1>6, EngineMove

LEMMA DispatchStep ==
  ASSUME IInv, NEW p \in Procs, Dispatch(p), SamePosts, SameNames
  PROVE  Engine'
<1>1. CASE Seen = st[p].cand
  BY <1>1, FreshStep, KnownStep
<1>2. CASE Seen # st[p].cand
  <2>1. /\ st[p].pc = "dispatch" /\ Outcome(p, Seen, "Stale", None)
        /\ UNCHANGED <<store, nextId>>
    BY <1>2, Zenon DEF Dispatch
  <2>2. st[p].pc \in Locked
    BY <2>1 DEF Locked
  <2> QED
    BY <2>1, <2>2, Candidate, OutcomeStep DEF IInv, Verdicts
<1> QED
  BY <1>1, <1>2

\* What a process about to submit asks for, nobody has asked for, and nobody else
\* may: the journal of its host says so.
LEMMA Submitting ==
  ASSUME IInv, NEW p \in Procs, st[p].pc = "submit"
  PROVE  LET id == st[p].run.id
         IN  /\ id # None /\ id \in Nat /\ ~Asked(id) /\ st[p].run.cmp \in Comparison
             /\ \A h \in Hosts : store[h].file # None =>
                   \A r \in store[h].file.runs : r.submission = "Deferred" => r.id # id
             /\ \A q \in Procs \ {p} : st[q].pc \in Running => st[q].run.id # id
<1> DEFINE id == st[p].run.id
           run == st[p].run
<1> USE DEF IInv
<1>1. st[p].pc \in Running
  BY DEF Running
<1>2. /\ run \in Runs /\ RunOK(p) /\ st[p].pc \in Locked /\ store[Host[p]].file # None
      /\ Host[p] \in Hosts
  BY <1>1, RunningFacts, HostOf
<1>3. id # None /\ run.submission = "Unknown" /\ run \in store[Host[p]].file.runs
  BY <1>2 DEF RunOK
<1>4. ~Asked(id)
  BY <1>1, <1>3 DEF RequestInv
<1>5. id \in 1 .. nextId - 1
  BY <1>2, <1>3, NamedRuns
<1>6. Knows(Host[p], id)
  BY <1>1 DEF Knows
<1>7. \A h \in Hosts \ {Host[p]} : ~Knows(h, id)
  BY <1>2, <1>4, <1>5, <1>6 DEF RequestInv
<1>8. ASSUME NEW h \in Hosts, store[h].file # None, NEW r \in store[h].file.runs,
             r.submission = "Deferred"
      PROVE  r.id # id
  <2>1. CASE h # Host[p]
    BY <1>7, <1>8, <2>1 DEF Knows
  <2>2. CASE h = Host[p] /\ r.id = id
    <3>1. PICK f \in [1 .. nextId - 1 -> Comparison] : Named(f)
      BY DEF NameInv
    <3>2. NameOK(f, r) /\ NameOK(f, run)
      BY <1>2, <1>3, <1>8, <2>2, <3>1 DEF Named
    <3>3. r.cmp = run.cmp
      BY <2>2, <3>2 DEF NameOK
    <3>4. r = run
      BY <1>2, <1>3, <1>8, <2>2, <3>3 DEF EngineInv, JournalOK
    <3> QED
      BY <1>3, <1>8, <3>4
  <2> QED
    BY <2>1, <2>2
<1>9. ASSUME NEW q \in Procs \ {p}, st[q].pc \in Running
      PROVE  st[q].run.id # id
  <2>1. CASE Host[q] # Host[p]
    BY <1>7, <1>9, <2>1, HostOf DEF Knows
  <2>2. CASE Host[q] = Host[p]
    <3>1. st[q].pc \in Locked
      BY <1>9 DEF Running, Locked
    <3> QED
      BY <1>2, <2>2, <3>1 DEF EngineInv, LockInv
  <2> QED
    BY <2>1, <2>2
<1> QED
  BY <1>2, <1>3, <1>4, <1>5, <1>8, <1>9 DEF Runs

\* The post arrives, or may arrive later: its identity is asked for from now on.
LEMMA Asking ==
  ASSUME IInv, NEW p \in Procs, st[p].pc = "submit", NEW s \in States,
         st' = [st EXCEPT ![p] = s], UNCHANGED <<store, nextId>>,
         s.pc = "finish", s.run.id = st[p].run.id, s.run.submission # "Deferred",
         \A id : Asked(id)' <=> Asked(id) \/ id = st[p].run.id,
         \A i, j \in Posts' : log'[i].id = log'[j].id => i = j,
         \A x, y \in LatePosts' : x.id = y.id => x = y,
         \A i \in Posts', x \in LatePosts' : log'[i].id # x.id
  PROVE  RequestInv'
<1> USE DEF IInv
<1>1. /\ st' \in [Procs -> States] /\ st'[p] = s /\ \A q \in Procs \ {p} : st'[q] = st[q]
      /\ st[p].pc \in Running
  BY DEF Types, EngineTypes, Running
<1>2. ASSUME NEW h \in Hosts, store'[h].file # None, NEW r \in store'[h].file.runs,
             r.submission = "Deferred"
      PROVE  ~Asked(r.id)'
  BY <1>2, Submitting DEF RequestInv
<1>3. ASSUME NEW q \in Procs, st'[q].pc \in Running, st'[q].run.id # None,
             st'[q].run.submission = "Deferred" \/ st'[q].pc = "submit"
      PROVE  ~Asked(st[q].run.id)'
  <2>1. q # p
    BY <1>1, <1>3
  <2> QED
    BY <1>1, <1>3, <2>1, Submitting DEF RequestInv
<1>4. ASSUME NEW h \in Hosts, NEW id, Knows(h, id)'
      PROVE  Knows(h, id)
  BY <1>1, <1>4 DEF Knows
<1>5. ASSUME NEW g \in Hosts, NEW h \in Hosts, NEW id \in 1 .. nextId' - 1,
             g # h, Knows(g, id)', Knows(h, id)'
      PROVE  Asked(id)'
  BY <1>4, <1>5 DEF RequestInv
<1>6. \A g, h \in Hosts, id \in 1 .. nextId' - 1 :
        g # h /\ Knows(g, id)' /\ Knows(h, id)' => Asked(id)'
  BY <1>5
<1>7. \A q \in Procs :
        /\ st'[q].pc \in Running /\ st'[q].run.id # None
        /\ st'[q].run.submission = "Deferred" \/ st'[q].pc = "submit"
        => ~Asked(st[q].run.id)'
  BY <1>3
<1>8. \A q \in Procs : st'[q].run.id = st[q].run.id
  BY <1>1
<1> QED
  BY <1>2, <1>6, <1>7, Zenon DEF RequestInv

\* The three ends of a submission.
LEMMA SubmitCases ==
  ASSUME IInv, NEW p \in Procs, Submit(p)
  PROVE  /\ st[p].pc = "submit" /\ UNCHANGED <<provider, pr, passing, merged, store, holder, nextId>>
         /\ RequestEntry(st[p].run) \in Requests
         /\ \E s \in States :
               /\ st' = [st EXCEPT ![p] = s] /\ s.pc = "finish"
               /\ s.cmd = st[p].cmd /\ s.cand = st[p].cand
               /\ s.run \in Runs /\ s.run.id = st[p].run.id /\ s.run.cmp = st[p].run.cmp
               /\ s.verdict \in {"Pending", "Blocked"}
               /\ \/ /\ log' = Append(log, RequestEntry(st[p].run)) /\ UNCHANGED <<late, used>>
                     /\ s.run.submission = "Submitted"
                  \/ Fault /\ UNCHANGED <<log, late>> /\ s.run.submission = "Deferred"
                  \/ /\ Fault /\ late' = late \cup {RequestEntry(st[p].run)} /\ UNCHANGED log
                     /\ s.run.submission = "Unknown"
<1> DEFINE entry == RequestEntry(st[p].run)
<1>1. st[p].pc = "submit" /\ UNCHANGED <<provider, pr, passing, merged, store, holder, nextId>>
  BY DEF Submit
<1>2. /\ st[p] \in States /\ st \in [Procs -> States] /\ st[p].run \in Runs
      /\ st[p].run.submission = "Unknown"
  BY <1>1, StateFacts, RunningFacts DEF IInv, Types, EngineTypes, Running, RunOK
<1>3. entry \in Requests
  BY <1>1, <1>2, Submitting DEF RequestEntry, Requests
<1>4. ASSUME NEW run \in Runs, NEW verdict \in {"Pending", "Blocked"}
      PROVE  LET s == [st[p] EXCEPT !.run = run, !.verdict = verdict, !.pc = "finish"]
             IN  /\ s \in States /\ s.pc = "finish" /\ s.cmd = st[p].cmd /\ s.cand = st[p].cand
                 /\ s.run = run /\ s.verdict = verdict
  BY <1>2 DEF States, Locked, Verdicts
<1>5. CASE /\ log' = Append(log, entry) /\ UNCHANGED <<late, used>>
           /\ st' = [st EXCEPT ![p].run.submission = "Submitted", ![p].verdict = "Pending",
                               ![p].pc = "finish"]
  <2> DEFINE run == [st[p].run EXCEPT !.submission = "Submitted"]
             s == [st[p] EXCEPT !.run = run, !.verdict = "Pending", !.pc = "finish"]
  <2>1. run \in Runs /\ run.id = st[p].run.id /\ run.cmp = st[p].run.cmp
        /\ run.submission = "Submitted"
    BY <1>2 DEF Runs
  <2>2. st' = [st EXCEPT ![p] = s]
    BY <1>2, <1>5
  <2> HIDE DEF run
  <2>3. /\ s \in States /\ s.pc = "finish" /\ s.cmd = st[p].cmd /\ s.cand = st[p].cand
        /\ s.run = run /\ s.verdict = "Pending"
    BY <1>4, <2>1
  <2> HIDE DEF s
  <2> QED
    BY <1>1, <1>3, <1>5, <2>1, <2>2, <2>3
<1>6. CASE /\ Fault /\ UNCHANGED <<log, late>>
           /\ st' = [st EXCEPT ![p].run.submission = "Deferred", ![p].run.wait = TRUE,
                               ![p].verdict = "Blocked", ![p].pc = "finish"]
  <2> DEFINE run == [st[p].run EXCEPT !.submission = "Deferred", !.wait = TRUE]
             s == [st[p] EXCEPT !.run = run, !.verdict = "Blocked", !.pc = "finish"]
  <2>1. run \in Runs /\ run.id = st[p].run.id /\ run.cmp = st[p].run.cmp
        /\ run.submission = "Deferred"
    BY <1>2 DEF Runs
  <2>2. st' = [st EXCEPT ![p] = s]
    BY <1>2, <1>6
  <2> HIDE DEF run
  <2>3. /\ s \in States /\ s.pc = "finish" /\ s.cmd = st[p].cmd /\ s.cand = st[p].cand
        /\ s.run = run /\ s.verdict = "Blocked"
    BY <1>4, <2>1
  <2> HIDE DEF s
  <2> QED
    BY <1>1, <1>3, <1>6, <2>1, <2>2, <2>3
<1>7. CASE /\ PostLost(entry) /\ UNCHANGED log
           /\ st' = [st EXCEPT ![p].verdict = "Blocked", ![p].pc = "finish"]
  <2> DEFINE run == st[p].run
             s == [st[p] EXCEPT !.run = run, !.verdict = "Blocked", !.pc = "finish"]
  <2>2. st' = [st EXCEPT ![p] = s]
    BY <1>2, <1>7
  <2>3. /\ s \in States /\ s.pc = "finish" /\ s.cmd = st[p].cmd /\ s.cand = st[p].cand
        /\ s.run = run /\ s.verdict = "Blocked"
    BY <1>2, <1>4
  <2> HIDE DEF s
  <2> QED
    BY <1>1, <1>2, <1>3, <1>7, <2>2, <2>3 DEF PostLost
<1> QED
  BY <1>5, <1>6, <1>7, Zenon DEF Submit

\* The request is one more of the posts, or of those that may arrive.
LEMMA PostRequest ==
  ASSUME IInv, NEW x \in Requests, x.kind = "request", ~Asked(x.id),
         \/ log' = Append(log, x) /\ late' = late
         \/ late' = late \cup {x} /\ log' = log
  PROVE  /\ \A id : Asked(id)' <=> Asked(id) \/ id = x.id
         /\ \A i, j \in Posts' : log'[i].id = log'[j].id => i = j
         /\ \A y, z \in LatePosts' : y.id = z.id => y = z
         /\ \A i \in Posts', y \in LatePosts' : log'[i].id # y.id
<1> USE DEF IInv
<1>1. CASE log' = Append(log, x) /\ late' = late
  <2>1. /\ DOMAIN log' = DOMAIN log \cup {Len(log) + 1} /\ log'[Len(log) + 1] = x
        /\ Len(log) + 1 \notin DOMAIN log /\ \A i \in DOMAIN log : log'[i] = log[i]
    BY <1>1, Sequences, Appending
  <2>2. Posts' = Posts \cup {Len(log) + 1} /\ LatePosts' = LatePosts
        /\ \A i \in Posts : i \in DOMAIN log
    BY <1>1, <2>1 DEF Posts, At, LatePosts
  <2> QED
    BY <2>1, <2>2 DEF Asked, RequestInv
<1>2. CASE late' = late \cup {x} /\ log' = log
  <2>1. Posts' = Posts /\ LatePosts' = LatePosts \cup {x}
    BY <1>2 DEF Posts, At, LatePosts
  <2> QED
    BY <1>2, <2>1 DEF Asked, RequestInv
<1> QED
  BY <1>1, <1>2

\* One more named entry.
LEMMA NamedPost ==
  ASSUME IInv, NEW x, NEW f, Named(f), NameOK(f, x),
         \/ log' = Append(log, x) /\ late' = late
         \/ late' = late \cup {x} /\ log' = log,
         UNCHANGED <<jobs, worker>>
  PROVE  NamedElsewhere(f)'
<1> USE DEF IInv
<1>1. CASE log' = Append(log, x) /\ late' = late
  <2>1. /\ DOMAIN log' = DOMAIN log \cup {Len(log) + 1} /\ log'[Len(log) + 1] = x
        /\ \A i \in DOMAIN log : log'[i] = log[i]
    BY <1>1, Sequences, Appending
  <2> QED
    BY <1>1, <2>1 DEF NamedElsewhere, Named, Posts, At, NameOK
<1>2. CASE late' = late \cup {x} /\ log' = log
  BY <1>2 DEF NamedElsewhere, Named, Posts, At, NameOK
<1> QED
  BY <1>1, <1>2

LEMMA SubmitStep ==
  ASSUME IInv, NEW p \in Procs, Submit(p), UNCHANGED <<jobs, worker>>
  PROVE  Engine'
<1> DEFINE x == RequestEntry(st[p].run)
<1>1. st[p].pc = "submit" /\ UNCHANGED <<store, holder, nextId>> /\ x \in Requests
  BY SubmitCases
<1>2. PICK s \in States :
         /\ st' = [st EXCEPT ![p] = s] /\ s.pc = "finish"
         /\ s.cmd = st[p].cmd /\ s.cand = st[p].cand
         /\ s.run \in Runs /\ s.run.id = st[p].run.id /\ s.run.cmp = st[p].run.cmp
         /\ s.verdict \in {"Pending", "Blocked"}
         /\ \/ log' = Append(log, x) /\ late' = late /\ s.run.submission = "Submitted"
            \/ UNCHANGED <<log, late>> /\ s.run.submission = "Deferred"
            \/ late' = late \cup {x} /\ log' = log /\ s.run.submission = "Unknown"
  BY SubmitCases
<1>3. x.kind = "request" /\ x.id = st[p].run.id /\ x.cmp = st[p].run.cmp
  BY DEF RequestEntry
<1> HIDE DEF x
<1>4. st[p].pc \in Running /\ s.pc \in Locked \cap Running /\ s.pc # "submit"
  BY <1>1, <1>2 DEF Running, Locked
<1>5. /\ st[p].run.cmp = st[p].cand.cmp /\ RunOK(p) /\ st[p].cmd \in Commands[p]
      /\ st[p].cand # None /\ store[Host[p]].lock /\ store[Host[p]].anchor
      /\ store[Host[p]].file # None /\ st[p].pc \in Locked
  BY <1>4, RunningFacts
<1>6. LockInv' /\ holder' \in [Hosts -> Procs \cup {None}]
  BY <1>1, <1>2, <1>4, <1>5, Locks
<1>7. Moves(p, s)
  BY <1>1, <1>2 DEF Moves
<1>8. Continues(p, s)
  BY <1>1, <1>2, <1>4, SameJournal DEF Continues, From
<1>9. JournalOK(Host[p])' /\ st'[p] = s
      /\ store' \in [Hosts -> [lock : BOOLEAN, anchor : BOOLEAN, file : Journals \cup {None}]]
  BY <1>1, <1>2, HostOf DEF JournalOK, IInv, Types, EngineTypes, EngineInv
<1>10. CommandOK(p)'
  <2>1. s.verdict # None /\ s.run # None
    BY <1>2, NoneAssumption DEF Verdicts
  <2> QED
    BY <1>1, <1>2, <1>4, <1>5, <1>9, <2>1 DEF CommandOK, Locked, Running
<1>11. RunOK(p)'
  BY <1>1, <1>2, <1>4, <1>5, <1>9 DEF RunOK
<1>12. CASE UNCHANGED <<log, late>>
  BY <1>1, <1>4, <1>6, <1>7, <1>8, <1>9, <1>10, <1>11, <1>12, EngineMove, Quiet
<1>13. CASE \/ log' = Append(log, x) /\ late' = late
            \/ late' = late \cup {x} /\ log' = log
  <2>1. s.run.submission # "Deferred" \/ UNCHANGED <<log, late>>
    BY <1>2
  <2>2. ~Asked(x.id)
    BY <1>1, <1>3, Submitting
  <2>3. CASE s.run.submission # "Deferred"
    <3>1. RequestInv'
      BY <1>1, <1>2, <1>3, <1>13, <2>2, <2>3, PostRequest, Asking
    <3>2. ASSUME NEW f, Named(f) PROVE NamedElsewhere(f)'
      <4>1. NameOK(f, x)
        BY <1>1, <1>3, <1>4, <3>2, Submitting DEF Named, NameOK
      <4> QED
        BY <1>13, <3>2, <4>1, NamedPost
    <3>3. NameInv'
      BY <1>1, <1>7, <1>8, <3>2, NamesKept DEF SameNames
    <3>4. EngineInv'
      BY <1>6, <1>7, <1>9, <1>10, <1>11, EngineKept
    <3>5. EngineTypes'
      BY <1>1, <1>2, <1>6, <1>9 DEF IInv, Types, EngineTypes
    <3> QED
      BY <3>1, <3>3, <3>4, <3>5 DEF Engine
  <2> QED
    BY <1>12, <2>1, <2>3
<1> QED
  BY <1>2, <1>12, <1>13

-----------------------------------------------------------------------------
(* What others do to the engine's invariant.                               *)

LEMMA EngineStill ==
  ASSUME IInv, UNCHANGED engineVars, SameNames,
         \A id : Asked(id)' <=> Asked(id),
         \A i, j \in Posts' : log'[i].id = log'[j].id => i = j,
         \A x, y \in LatePosts' : x.id = y.id => x = y,
         \A i \in Posts', x \in LatePosts' : log'[i].id # x.id
  PROVE  Engine'
<1> USE DEF IInv, engineVars
<1>1. EngineTypes'
  BY DEF Types, EngineTypes
<1>2. EngineInv'
  BY DEF EngineInv, LockInv, JournalOK, CommandOK, RunOK
<1>3. NameInv'
  <2>1. PICK f \in [1 .. nextId - 1 -> Comparison] : Named(f)
    BY DEF NameInv
  <2>2. NamedElsewhere(f)'
    BY <2>1 DEF SameNames
  <2>3. Named(f)'
    BY <2>1, <2>2 DEF Named, NamedElsewhere, NameOK
  <2> QED
    BY <2>1, <2>3 DEF NameInv
<1>4. \A h \in Hosts : \A id : Knows(h, id)' <=> Knows(h, id)
  BY DEF Knows
<1>5. RequestInv'
  BY <1>4 DEF RequestInv
<1> QED
  BY <1>1, <1>2, <1>3, <1>5 DEF Engine

LEMMA EngineQuiet ==
  ASSUME IInv, UNCHANGED engineVars, SameNames, SamePosts
  PROVE  Engine'
<1>1. /\ \A id : Asked(id)' <=> Asked(id)
      /\ \A i, j \in Posts' : log'[i].id = log'[j].id => i = j
      /\ \A x, y \in LatePosts' : x.id = y.id => x = y
      /\ \A i \in Posts', x \in LatePosts' : log'[i].id # x.id
  BY DEF IInv, RequestInv, SamePosts, Asked
<1> QED
  BY <1>1, EngineStill

\* What an entry adds to the log.
LEMMA Adding ==
  ASSUME Types, NEW x, log' = Append(log, x)
  PROVE  LET n == Len(log) + 1
         IN  /\ n \notin DOMAIN log /\ n \in Nat /\ DOMAIN log' = DOMAIN log \cup {n} /\ log'[n] = x
             /\ \A i \in DOMAIN log : log'[i] = log[i] /\ i < n
             /\ \A kind : At(kind) \subseteq DOMAIN log
             /\ \A kind : At(kind)' = IF x.kind = kind THEN At(kind) \cup {n} ELSE At(kind)
             /\ x \in Comments => log' \in Seq(Comments)
<1> DEFINE n == Len(log) + 1
<1>1. /\ n \notin DOMAIN log /\ n \in Nat /\ DOMAIN log' = DOMAIN log \cup {n} /\ log'[n] = x
      /\ \A i \in DOMAIN log : log'[i] = log[i]
      /\ x \in Comments => log' \in Seq(Comments)
  BY Sequences, Appending
<1>2. \A i \in DOMAIN log : i < n
  BY Sequences
<1> HIDE DEF n
<1>3. \A kind : At(kind) \subseteq DOMAIN log
  BY DEF At
<1>4. \A kind : At(kind)' = IF x.kind = kind THEN At(kind) \cup {n} ELSE At(kind)
  BY <1>1 DEF At
<1> QED
  BY <1>1, <1>2, <1>3, <1>4 DEF n

\* Entries that are neither requests nor receipts name nothing.
LEMMA AddingOther ==
  ASSUME Types, NEW x, x.kind \notin {"request", "withdrawn", "result"}, log' = Append(log, x),
         UNCHANGED <<late, jobs, worker>>
  PROVE  /\ SamePosts /\ SameNames
         /\ At("result")' = At("result") /\ \A i \in At("result") : log'[i] = log[i]
<1>1. /\ Posts' = Posts /\ At("result")' = At("result")
      /\ \A i \in Posts \cup At("result") : log'[i] = log[i]
  BY Adding DEF Posts
<1>2. SamePosts
  BY <1>1 DEF SamePosts, LatePosts
<1>3. ASSUME NEW f, Named(f) PROVE NamedElsewhere(f)'
  BY <1>1, <1>3 DEF Named, NamedElsewhere, NameOK
<1> QED
  BY <1>1, <1>2, <1>3 DEF SameNames

LEMMA Withdrawing ==
  ASSUME Types, Withdraw, UNCHANGED dispatchVars
  PROVE  /\ SamePosts /\ SameNames
         /\ At("result")' = At("result") /\ \A i \in At("result") : log'[i] = log[i]
         /\ log' \in Seq(Comments)
<1>1. PICK i \in At("request") : log' = [log EXCEPT ![i].kind = "withdrawn"]
  BY DEF Withdraw
<1> DEFINE x == [log[i] EXCEPT !.kind = "withdrawn"]
<1>2. log[i] \in Requests /\ i \in DOMAIN log /\ log[i].kind = "request"
  BY Sequences, Kinds DEF At
<1>3. x \in Requests /\ x.kind = "withdrawn" /\ x.id = log[i].id /\ x.cmp = log[i].cmp
  BY <1>2 DEF Requests
<1>4. log' = [log EXCEPT ![i] = x]
  BY <1>1, <1>2, Sequences
<1> HIDE DEF x
<1>5. /\ DOMAIN log' = DOMAIN log /\ log'[i] = x
      /\ \A j \in DOMAIN log \ {i} : log'[j] = log[j]
      /\ log' \in Seq(Comments)
  BY <1>2, <1>3, <1>4, Sequences DEF Comments
<1>6. /\ Posts' = Posts /\ At("result")' = At("result")
      /\ \A j \in At("result") : log'[j] = log[j]
      /\ \A j \in Posts : log'[j].id = log[j].id /\ log'[j].cmp = log[j].cmp
  BY <1>2, <1>3, <1>5 DEF Posts, At
<1>7. UNCHANGED <<late, jobs, worker>>
  BY DEF Withdraw, dispatchVars
<1>8. ASSUME NEW f, Named(f) PROVE NamedElsewhere(f)'
  BY <1>6, <1>7, <1>8 DEF Named, NamedElsewhere, NameOK
<1> QED
  BY <1>5, <1>6, <1>7, <1>8 DEF SameNames, SamePosts, LatePosts

\* A late post arrives, under the name it had.
LEMMA ArrivingNames ==
  ASSUME IInv, NEW x \in late, log' = Append(log, x), late' = late \ {x}, UNCHANGED <<jobs, worker>>
  PROVE  SameNames
<1>1. ASSUME NEW f, Named(f) PROVE NamedElsewhere(f)'
  <2>1. NameOK(f, x)
    BY <1>1 DEF Named
  <2>2. \A i \in Posts' \cup At("result")' :
           (i \in Posts \cup At("result") /\ log'[i] = log[i]) \/ log'[i] = x
    BY Adding DEF Posts, IInv
  <2> QED
    BY <1>1, <2>1, <2>2 DEF Named, NamedElsewhere, NameOK
<1> QED
  BY <1>1 DEF SameNames

LEMMA ArrivingEngine ==
  ASSUME IInv, NEW x \in late, x.kind # "job", log' = Append(log, x), late' = late \ {x},
         UNCHANGED <<jobs, worker>>, UNCHANGED engineVars
  PROVE  Engine'
<1> DEFINE n == Len(log) + 1
<1>0. SameNames
  BY ArrivingNames
<1>1. x.kind \in {"request", "result"} /\ x \in Requests \cup Receipts
  BY Kinds DEF IInv, Types, ForgeTypes, Requests, Receipts, Jobs
<1>2. CASE x.kind = "result"
  <2>1. SamePosts
    BY <1>2, Adding DEF SamePosts, Posts, LatePosts, IInv
  <2> QED
    BY <1>0, <2>1, EngineQuiet
<1>3. CASE x.kind = "request"
  <2>1. /\ Posts' = Posts \cup {n} /\ log'[n] = x /\ n \notin Posts
        /\ \A i \in Posts : log'[i] = log[i]
        /\ LatePosts' = LatePosts \ {x} /\ x \in LatePosts
    BY <1>3, Adding DEF Posts, LatePosts, IInv
  <2> HIDE DEF n
  <2>2. /\ \A i, j \in Posts : log[i].id = log[j].id => i = j
        /\ \A y, z \in LatePosts : y.id = z.id => y = z
        /\ \A i \in Posts, y \in LatePosts : log[i].id # y.id
    BY DEF IInv, RequestInv
  <2>3. \A id : Asked(id)' <=> Asked(id)
    BY <2>1 DEF Asked
  <2>4. /\ \A i, j \in Posts' : log'[i].id = log'[j].id => i = j
        /\ \A y, z \in LatePosts' : y.id = z.id => y = z
        /\ \A i \in Posts', y \in LatePosts' : log'[i].id # y.id
    <3>1. \A i \in Posts : log'[i].id = log[i].id /\ log'[i].id # x.id
      BY <2>1, <2>2
    <3>2. ASSUME NEW y \in LatePosts' PROVE y \in LatePosts /\ y.id # x.id
      <4>1. x \in LatePosts /\ y \in LatePosts /\ y # x
        BY <2>1
      <4> QED
        BY <2>2, <4>1
    <3>3. log'[n].id = x.id
      BY <2>1
    <3>4. ASSUME NEW i \in Posts', NEW j \in Posts', log'[i].id = log'[j].id
          PROVE  i = j
      <4>1. (i \in Posts \/ i = n) /\ (j \in Posts \/ j = n)
        BY <2>1
      <4>2. CASE i \in Posts /\ j \in Posts
        <5>1. log[i].id = log[j].id
          BY <3>1, <3>4, <4>2
        <5> QED
          BY <2>2, <4>2, <5>1
      <4>3. CASE i = n \/ j = n
        BY <3>1, <3>3, <3>4, <4>1, <4>3
      <4> QED
        BY <4>1, <4>2, <4>3
    <3>5. ASSUME NEW i \in Posts', NEW y \in LatePosts'
          PROVE  log'[i].id # y.id
      <4>1. i \in Posts \/ i = n
        BY <2>1
      <4>2. y \in LatePosts /\ y.id # x.id
        BY <3>2
      <4>3. CASE i \in Posts
        <5>1. log[i].id # y.id
          BY <2>2, <4>2, <4>3
        <5> QED
          BY <3>1, <4>3, <5>1
      <4>4. CASE i = n
        BY <3>3, <4>2, <4>4
      <4> QED
        BY <4>1, <4>3, <4>4
    <3>6. \A y, z \in LatePosts' : y.id = z.id => y = z
      BY <2>2, <3>2
    <3> QED
      BY <3>4, <3>5, <3>6
  <2> QED
    BY <1>0, <2>3, <2>4, EngineStill
<1> QED
  BY <1>1, <1>2, <1>3

-----------------------------------------------------------------------------
(* What others do to the coordinator's invariant.                          *)

Coordinator == DispatchTypes /\ WorkerInv /\ HoldInv /\ JobInv /\ ReceiptInv /\ ResultInv

\* An identity that no request has was given no receipt.
LEMMA NoPostNoResult ==
  ASSUME ReceiptInv, NEW id, \A c \in Posts : log[c].id # id
  PROVE  NoResult(id)
BY DEF ReceiptInv, NoResult

LEMMA CoordinatorStill ==
  ASSUME IInv, UNCHANGED dispatchVars,
         \A c \in Posts : c \in Posts' /\ log'[c].id = log[c].id,
         \A c \in Posts' \ Posts : \A d \in Posts : log[d].id # log'[c].id,
         At("result")' = At("result"), \A i \in At("result") : log'[i] = log[i],
         LateJobs' = LateJobs, LateResults' = LateResults
  PROVE  Coordinator'
<1> USE DEF IInv, dispatchVars
<1>1. DispatchTypes'
  BY DEF Types, DispatchTypes
<1>2. \A id : JobsOf(id)' = JobsOf(id)
  BY DEF JobsOf
<1>3. WorkerInv'
  BY <1>2 DEF WorkerInv
<1>4. HoldInv'
  BY DEF HoldInv
<1>5. JobInv'
  BY <1>2 DEF JobInv, OneJobAtMost, NoJob
<1>6. \A id : NoResult(id)' <=> NoResult(id)
  BY DEF NoResult
<1>7. \A id : OneResultAtMost(id)' <=> OneResultAtMost(id)
  BY DEF OneResultAtMost
<1>8. \A c \in Posts' \ Posts : NoResult(log'[c].id)
  BY NoPostNoResult
<1>9. /\ \A id \in Nat : OneResultAtMost(id)'
      /\ \A c \in Posts' : c \notin DOMAIN receipt' => NoResult(log[c].id)'
      /\ \A c \in Posts' \cap DOMAIN receipt' : receipt'[c].file = None => NoResult(log[c].id)'
  BY <1>6, <1>7, <1>8 DEF ReceiptInv
<1>10. \A w \in Workers : worker'[w].pc = "post" =>
          NoResult(worker[w].req.id)' /\ receipt'[worker'[w].req.comment].file # None
  BY <1>6 DEF ReceiptInv
<1>11. /\ \A x \in LateResults' : \E c \in Posts' : log'[c].id = x.id
       /\ \A i \in At("result")' : \E c \in Posts' : log'[c].id = log'[i].id
  <2>1. \A x \in LateResults : \E c \in Posts : log[c].id = x.id
    BY DEF ReceiptInv
  <2>2. \A i \in At("result") : \E c \in Posts : log[c].id = log[i].id
    BY DEF ReceiptInv
  <2> QED
    BY <2>1, <2>2
<1>12. ReceiptInv'
  BY <1>9, <1>10, <1>11 DEF ReceiptInv
<1>13. ResultInv'
  BY <1>2 DEF ResultInv, ReceiptOK
<1> QED
  BY <1>1, <1>3, <1>4, <1>5, <1>12, <1>13 DEF Coordinator

LEMMA CoordinatorQuiet ==
  ASSUME IInv, UNCHANGED dispatchVars, SamePosts, late' = late,
         At("result")' = At("result"), \A i \in At("result") : log'[i] = log[i]
  PROVE  Coordinator'
<1>1. LateJobs' = LateJobs /\ LateResults' = LateResults
  BY DEF LateJobs, LateResults
<1>2. \A c \in Posts : c \in Posts' /\ log'[c].id = log[c].id
  BY DEF SamePosts
<1>3. \A c \in Posts' \ Posts : \A d \in Posts : log[d].id # log'[c].id
  BY DEF SamePosts
<1> QED
  BY <1>1, <1>2, <1>3, CoordinatorStill

\* A new request, on its way or arriving.
LEMMA CoordinatorPost ==
  ASSUME IInv, UNCHANGED dispatchVars, NEW x, x.kind = "request",
         \/ /\ log' = Append(log, x) /\ late' \in {late, late \ {x}}
            /\ \A d \in Posts : log[d].id # x.id
         \/ log' = log /\ late' = late \cup {x}
  PROVE  Coordinator'
<1>1. LateJobs' = LateJobs /\ LateResults' = LateResults
  BY DEF LateJobs, LateResults
<1>2. CASE log' = log
  <2>1. Posts' = Posts /\ At("result")' = At("result")
    BY <1>2 DEF Posts, At
  <2> QED
    BY <1>1, <1>2, <2>1, CoordinatorStill
<1>3. CASE log' = Append(log, x) /\ \A d \in Posts : log[d].id # x.id
  <2> DEFINE n == Len(log) + 1
  <2>1. /\ Posts' = Posts \cup {n} /\ log'[n] = x /\ At("result")' = At("result")
        /\ \A i \in Posts \cup At("result") : log'[i] = log[i]
    BY <1>3, Adding DEF Posts, IInv
  <2> HIDE DEF n
  <2> QED
    BY <1>1, <1>3, <2>1, CoordinatorStill
<1> QED
  BY <1>2, <1>3

\* A late receipt arrives.
LEMMA CoordinatorReceipt ==
  ASSUME IInv, UNCHANGED dispatchVars, NEW x \in late, x.kind = "result",
         log' = Append(log, x), late' = late \ {x}
  PROVE  Coordinator'
<1> USE DEF IInv, dispatchVars
<1> DEFINE n == Len(log) + 1
<1>1. /\ Posts' = Posts /\ At("result")' = At("result") \cup {n} /\ log'[n] = x
      /\ n \notin At("result")
      /\ \A i \in Posts \cup At("result") : log'[i] = log[i]
  BY Adding DEF Posts
<1> HIDE DEF n
<1>2. LateJobs' = LateJobs /\ LateResults' = LateResults \ {x} /\ x \in LateResults
  BY DEF LateJobs, LateResults
<1>3. \A id : JobsOf(id)' = JobsOf(id)
  BY DEF JobsOf
<1>4. DispatchTypes' /\ WorkerInv' /\ HoldInv' /\ JobInv'
  <2>1. DispatchTypes'
    BY DEF Types, DispatchTypes
  <2>2. WorkerInv'
    BY <1>1, <1>3 DEF WorkerInv
  <2>3. HoldInv' /\ JobInv'
    BY <1>2, <1>3 DEF HoldInv, JobInv, OneJobAtMost, NoJob
  <2> QED
    BY <2>1, <2>2, <2>3
<1>5. ResultInv'
  <2>1. ReceiptOK(x) /\ \A i \in At("result") : ReceiptOK(log[i])
    BY <1>2 DEF ResultInv
  <2>2. ASSUME NEW y, ReceiptOK(y) PROVE ReceiptOK(y)'
    BY <1>3, <2>2 DEF ReceiptOK
  <2>3. \A i \in At("result")' : ReceiptOK(log'[i])
    BY <1>1, <2>1
  <2>4. \A i \in At("result")' : ReceiptOK(log[i])'
    BY <1>3, <2>3 DEF ReceiptOK
  <2>5. \A y \in LateResults' : ReceiptOK(y)'
    BY <1>2, <2>2 DEF ResultInv
  <2> QED
    BY <2>4, <2>5 DEF ResultInv
<1>6. \A id : NoResult(id) => NoResult(id)'
  BY <1>1, <1>2 DEF NoResult
<1>7. ASSUME NEW id \in Nat PROVE OneResultAtMost(id)'
  <2>1. OneResultAtMost(id)
    BY DEF ReceiptInv
  <2>2. \A i \in At("result") : x.id = id => log[i].id # id
    BY <1>2, <2>1 DEF OneResultAtMost
  <2>3. \A y \in LateResults' : y \in LateResults /\ (x.id = id => y.id # id)
    BY <1>2, <2>1 DEF OneResultAtMost
  <2>4. ASSUME NEW i \in At("result")', NEW j \in At("result")', log'[i].id = id, log'[j].id = id
        PROVE  i = j
    <3>1. (i \in At("result") \/ i = n) /\ (j \in At("result") \/ j = n)
      BY <1>1
    <3>2. CASE i \in At("result") /\ j \in At("result")
      BY <1>1, <2>1, <2>4, <3>2 DEF OneResultAtMost
    <3>3. CASE i = n \/ j = n
      BY <1>1, <2>2, <2>4, <3>1, <3>3
    <3> QED
      BY <3>1, <3>2, <3>3
  <2>5. \A y, z \in LateResults' : y.id = id /\ z.id = id => y = z
    BY <2>1, <2>3 DEF OneResultAtMost
  <2>6. ASSUME NEW i \in At("result")', NEW y \in LateResults', log'[i].id = id
        PROVE  y.id # id
    <3>1. i \in At("result") \/ i = n
      BY <1>1
    <3>2. CASE i \in At("result")
      BY <1>1, <2>1, <2>3, <2>6, <3>2 DEF OneResultAtMost
    <3>3. CASE i = n
      BY <1>1, <2>3, <2>6, <3>3
    <3> QED
      BY <3>1, <3>2, <3>3
  <2> QED
    BY <2>4, <2>5, <2>6 DEF OneResultAtMost
<1>8. \E c \in Posts : log[c].id = x.id
  BY <1>2 DEF ReceiptInv
<1>9. ReceiptInv'
  <2>1. /\ \A c \in Posts' : c \notin DOMAIN receipt' => NoResult(log[c].id)'
        /\ \A c \in Posts' \cap DOMAIN receipt' : receipt'[c].file = None => NoResult(log[c].id)'
    BY <1>1, <1>6 DEF ReceiptInv
  <2>2. \A w \in Workers : worker'[w].pc = "post" =>
           NoResult(worker[w].req.id)' /\ receipt'[worker'[w].req.comment].file # None
    BY <1>6 DEF ReceiptInv
  <2>3. \A y \in LateResults' : \E c \in Posts' : log'[c].id = y.id
    <3> SUFFICES ASSUME NEW y \in LateResults' PROVE \E c \in Posts' : log'[c].id = y.id
      OBVIOUS
    <3>1. PICK c \in Posts : log[c].id = y.id
      BY <1>2 DEF ReceiptInv
    <3>2. c \in Posts' /\ log'[c] = log[c]
      BY <1>1
    <3> QED
      BY <3>1, <3>2
  <2>4. \A i \in At("result")' : \E c \in Posts' : log'[c].id = log'[i].id
    <3> SUFFICES ASSUME NEW i \in At("result")' PROVE \E c \in Posts' : log'[c].id = log'[i].id
      OBVIOUS
    <3>1. PICK y : y = log'[i]
      OBVIOUS
    <3>2. y = x \/ \E j \in At("result") : y = log[j]
      BY <1>1, <3>1
    <3>3. PICK c \in Posts : log[c].id = y.id
      BY <1>8, <3>2 DEF ReceiptInv
    <3>4. c \in Posts' /\ log'[c] = log[c]
      BY <1>1
    <3> QED
      BY <3>1, <3>3, <3>4
  <2> QED
    BY <1>7, <2>1, <2>2, <2>3, <2>4 DEF ReceiptInv
<1> QED
  BY <1>4, <1>5, <1>9 DEF Coordinator

-----------------------------------------------------------------------------
(* What is earned.                                                         *)

Holds(s) == s.verdict = "Ready" \/ s.pc \in Merging

LEMMA Earned ==
  ASSUME IInv, Grows,
         \A p \in Procs : Holds(st'[p]) =>
            \/ Holds(st[p]) /\ st'[p].cand = st[p].cand
            \/ Reviewed(st'[p].cand.cmp),
         \A h \in passing' \ passing : \E b \in Bases : Reviewed([head |-> h, base |-> b]),
         \/ merged' = merged
         \/ merged'.head \in passing
  PROVE  EarnInv'
<1>1. \A cmp : Reviewed(cmp) => Reviewed(cmp)'
  BY ReviewedStays DEF IInv
<1>2. \A p \in Procs : Holds(st[p]) => Reviewed(st[p].cand.cmp)
  BY DEF IInv, EarnInv, Holds
<1>3. ASSUME NEW p \in Procs, Holds(st'[p]) PROVE Reviewed(st[p].cand.cmp)'
  <2>1. PICK cmp : cmp = st'[p].cand.cmp
    OBVIOUS
  <2>2. Reviewed(cmp)
    BY <1>2, <1>3, <2>1
  <2> QED
    BY <1>1, <2>1, <2>2
<1>4. \A h \in passing : \E b \in Bases : Reviewed([head |-> h, base |-> b])
  BY DEF IInv, EarnInv
<1>5. \A h \in passing' : \E b \in Bases : Reviewed([head |-> h, base |-> b])
  BY <1>4
<1>6. ASSUME NEW h \in passing'
      PROVE  \E b \in Bases : Reviewed([head |-> h, base |-> b])'
  BY <1>1, <1>5
<1>7. ASSUME merged' # None
      PROVE  \E b \in Bases : Reviewed([head |-> merged.head, base |-> b])'
  <2>1. PICK h : h = merged'.head
    OBVIOUS
  <2>2. \E b \in Bases : Reviewed([head |-> h, base |-> b])
    BY <1>4, <1>7, <2>1 DEF IInv, EarnInv
  <2> QED
    BY <1>1, <2>1, <2>2
<1> QED
  BY <1>3, <1>6, <1>7 DEF EarnInv, Holds

\* A step of one process that publishes and merges nothing.
LEMMA EarnedBy ==
  ASSUME IInv, Grows, NEW p \in Procs, NEW s \in States, st' = [st EXCEPT ![p] = s],
         UNCHANGED <<passing, merged>>,
         Holds(s) => \/ Holds(st[p]) /\ s.cand = st[p].cand
                     \/ Reviewed(s.cand.cmp)
  PROVE  EarnInv'
<1>1. st'[p] = s /\ \A q \in Procs \ {p} : st'[q] = st[q]
  BY DEF IInv, Types, EngineTypes
<1>2. \A q \in Procs : Holds(st'[q]) =>
         \/ Holds(st[q]) /\ st'[q].cand = st[q].cand
         \/ Reviewed(st'[q].cand.cmp)
  BY <1>1
<1> QED
  BY <1>2, Earned

LEMMA EarnedStill ==
  ASSUME IInv, Grows, st' = st, passing' \subseteq passing, merged' = merged
  PROVE  EarnInv'
BY Earned

LEMMA PublishEarned ==
  ASSUME IInv, Grows, NEW p \in Procs, Publish(p)
  PROVE  EarnInv'
<1> DEFINE cmp == st[p].cand.cmp
<1>1. /\ st[p].pc = "publish" /\ st' = [st EXCEPT ![p] = Idle] /\ merged' = merged
      /\ passing' = IF st[p].verdict = "Ready" THEN passing \cup {cmp.head} ELSE passing \ {cmp.head}
  BY DEF Publish
<1>2. ~Holds(Idle)
  BY NotReady DEF Holds, Idle, Merging
<1>3. cmp \in Comparison
  BY <1>1, StateFacts DEF CommandOK
<1>4. cmp = [head |-> cmp.head, base |-> cmp.base] /\ cmp.base \in Bases
  BY <1>3 DEF Comparison
<1>5. st[p].verdict = "Ready" => Reviewed([head |-> cmp.head, base |-> cmp.base])
  BY <1>4 DEF IInv, EarnInv
<1>6. \A h \in passing' \ passing : \E b \in Bases : Reviewed([head |-> h, base |-> b])
  BY <1>1, <1>4, <1>5
<1>7. \A q \in Procs : Holds(st'[q]) => Holds(st[q]) /\ st'[q].cand = st[q].cand
  BY <1>1, <1>2 DEF IInv, Types, EngineTypes
<1> QED
  BY <1>1, <1>6, <1>7, Earned

LEMMA PutEarned ==
  ASSUME IInv, Grows, NEW p \in Procs, Put(p)
  PROVE  EarnInv'
<1>1. /\ st' = [st EXCEPT ![p] = Idle] /\ passing' = passing
      /\ merged' = merged \/ (merged' = Current /\ pr.head \in passing)
  BY Zenon DEF Put
<1>2. ~Holds(Idle)
  BY NotReady DEF Holds, Idle, Merging
<1>3. merged' = merged \/ merged'.head \in passing
  BY <1>1 DEF Current
<1>4. \A q \in Procs : Holds(st'[q]) => Holds(st[q]) /\ st'[q].cand = st[q].cand
  BY <1>1, <1>2 DEF IInv, Types, EngineTypes
<1> QED
  BY <1>1, <1>3, <1>4, Earned

LEMMA AfterEarned ==
  ASSUME IInv, Grows, NEW p \in Procs,
         Dispose(p) \/ MergeCheck(p) \/ MergeInspect(p) \/ MergeFinal(p)
  PROVE  EarnInv'
<1>1. UNCHANGED <<passing, merged>>
  BY Zenon DEF Dispose, MergeCheck, MergeInspect, MergeFinal, forgeVars
<1>2. PICK s \in States :
         /\ st' = [st EXCEPT ![p] = s]
         /\ s.pc \in {"idle", "mergeInspect", "mergeFinal", "put"}
         /\ s.pc # "idle" => s.cmd = st[p].cmd /\ s.cand = st[p].cand /\ st[p].pc \in Merging
         /\ s.verdict = "Ready" => st[p].verdict = "Ready" /\ s.cand = st[p].cand
  BY AfterStep
<1>3. Holds(s) => Holds(st[p]) /\ s.cand = st[p].cand
  BY <1>2 DEF Holds, Merging
<1> QED
  BY <1>1, <1>2, <1>3, EarnedBy

LEMMA OutcomeEarned ==
  ASSUME IInv, Grows, NEW p \in Procs, NEW cand \in Candidates, NEW verdict \in Verdicts,
         NEW review \in Reviews \cup {None}, Outcome(p, cand, verdict, review),
         UNCHANGED <<passing, merged>>,
         verdict = "Ready" => Holds(st[p]) /\ cand = st[p].cand
  PROVE  EarnInv'
<1>1. PICK s \in States :
         /\ st' = [st EXCEPT ![p] = s]
         /\ s.pc \in {"idle", "mergeCheck", "publish", "dispose"}
         /\ s.verdict = "Ready" \/ s.pc = "mergeCheck" => verdict = "Ready" /\ s.cand = cand
  BY OutcomeCases DEF IInv
<1>2. Holds(s) => Holds(st[p]) /\ s.cand = st[p].cand
  BY <1>1 DEF Holds, Merging
<1> QED
  BY <1>1, <1>2, EarnedBy

LEMMA InspectEarned ==
  ASSUME IInv, Grows, NEW p \in Procs, InspectRun(p)
  PROVE  EarnInv'
<1>1. st[p].pc = "inspect" /\ UNCHANGED <<passing, merged>>
  BY InspectCases DEF forgeVars
<1>2. st[p].cand \in Candidates /\ st[p].cand.cmp \in Comparison
  BY <1>1, StateFacts DEF CommandOK
<1>3. CASE Outcome(p, st[p].cand, "Blocked", None)
  BY <1>1, <1>2, <1>3, OutcomeEarned DEF Verdicts
<1>4. ASSUME ~Found(p).error,
             NEW verdict \in Verdicts, NEW review \in {None, Found(p).review},
             NEW pc \in {"checks", "dispatch", "finish"}, GoesOn(p, verdict, review, pc)
      PROVE  EarnInv'
  <2> DEFINE s == [st[p] EXCEPT !.run = RunNow(p), !.verdict = verdict, !.review = review, !.pc = pc]
  <2>1. st[p] \in States /\ st \in [Procs -> States]
    BY StateFacts DEF IInv, Types, EngineTypes
  <2>2. st' = [st EXCEPT ![p] = s]
    BY <1>4, <2>1 DEF GoesOn
  <2>3. s \in States /\ s.pc = pc /\ s.verdict = verdict /\ s.cand = st[p].cand
    <3>1. RunNow(p) \in Runs
      BY <1>1, RunNowFacts
    <3>2. review \in Reviews \cup {None}
      BY <1>1, <1>4, FoundReview
    <3>3. pc \in Locked \cup Merging \cup {"idle", "begin", "publish", "dispose"}
      BY <1>4 DEF Locked
    <3> QED
      BY <2>1, <3>1, <3>2, <3>3 DEF States
  <2> HIDE DEF s
  <2>4. verdict = "Ready" => Reviewed(st[p].cand.cmp)
    BY <1>2, <1>4, ReadyIsReviewed DEF GoesOn, Found
  <2>5. Holds(s) => Reviewed(s.cand.cmp)
    BY <2>3, <2>4 DEF Holds, Merging
  <2> QED
    BY <1>1, <2>2, <2>3, <2>5, EarnedBy
<1> QED
  BY <1>3, <1>4, InspectCases

LEMMA LockedEarned ==
  ASSUME IInv, Grows, NEW p \in Procs,
         \/ SaveJournal(p) \/ WriteAnchor(p) \/ ReadFails(p) \/ InspectRun(p) \/ Checks(p)
         \/ Dispatch(p) \/ Submit(p) \/ Finish(p)
  PROVE  EarnInv'
<1>0. st \in [Procs -> States] /\ st[p] \in States /\ CommandOK(p)
      /\ (st[p].cand # None => st[p].cand \in Candidates)
  BY StateFacts DEF IInv, Types, EngineTypes
<1>1. CASE SaveJournal(p) \/ WriteAnchor(p)
  <2>1. UNCHANGED <<passing, merged>> /\ \E pc \in {"anchor", "inspect"} : st' = [st EXCEPT ![p].pc = pc]
    BY <1>1, Zenon DEF SaveJournal, WriteAnchor, Goto, forgeVars
  <2>2. PICK pc \in {"anchor", "inspect"} : st' = [st EXCEPT ![p] = [st[p] EXCEPT !.pc = pc]]
    BY <2>1, <1>0
  <2>3. LET s == [st[p] EXCEPT !.pc = pc]
        IN  s \in States /\ s.pc = pc /\ s.verdict = st[p].verdict /\ s.cand = st[p].cand
    BY <1>0 DEF States, Locked
  <2>4. LET s == [st[p] EXCEPT !.pc = pc] IN Holds(s) => Holds(st[p]) /\ s.cand = st[p].cand
    BY <2>3 DEF Holds, Merging
  <2> QED
    BY <2>1, <2>2, <2>3, <2>4, EarnedBy
<1>2. CASE ReadFails(p)
  <2>1. st[p].pc = "inspect" /\ UNCHANGED <<passing, merged>>
        /\ Outcome(p, st[p].cand, "Blocked", None)
    BY <1>2, Zenon DEF ReadFails
  <2> QED
    BY <1>0, <2>1, OutcomeEarned DEF CommandOK, Verdicts
<1>3. CASE InspectRun(p)
  BY <1>3, InspectEarned
<1>4. CASE Checks(p)
  <2>1. PICK ci \in BOOLEAN :
          st' = [st EXCEPT ![p].pc = "finish",
                           ![p].verdict = IF ChecksPass(st[p].cand.cmp.head, ci) THEN st[p].verdict
                                          ELSE "Blocked"]
    BY <1>4 DEF Checks
  <2> DEFINE verdict == IF ChecksPass(st[p].cand.cmp.head, ci) THEN st[p].verdict ELSE "Blocked"
             s == [st[p] EXCEPT !.pc = "finish", !.verdict = verdict]
  <2>2. UNCHANGED <<passing, merged>> /\ st[p].pc = "checks"
    BY <1>4 DEF Checks, forgeVars
  <2>3. verdict \in Verdicts \cup {None} /\ (verdict = "Ready" => st[p].verdict = "Ready")
    BY <1>0 DEF States, Verdicts
  <2>4. st' = [st EXCEPT ![p] = s]
    BY <1>0, <2>1
  <2> HIDE DEF verdict
  <2>5. s \in States /\ s.pc = "finish" /\ s.verdict = verdict /\ s.cand = st[p].cand
    BY <1>0, <2>3 DEF States, Locked
  <2> HIDE DEF s
  <2>6. Holds(s) => Holds(st[p]) /\ s.cand = st[p].cand
    BY <2>3, <2>5 DEF Holds, Merging
  <2> QED
    BY <2>2, <2>4, <2>5, <2>6, EarnedBy
<1>5. CASE Dispatch(p)
  <2>1. UNCHANGED <<passing, merged>> /\ st[p].pc = "dispatch"
    BY <1>5, Zenon DEF Dispatch, forgeVars
  <2>2. CASE Seen = st[p].cand
    <3>1. Asks(p) \in States /\ Asks(p).pc = "submit" /\ Asks(p).verdict = st[p].verdict
          /\ Asks(p).cand = st[p].cand /\ Moves(p, Asks(p))
      BY <1>5, <2>2, DispatchDoes
    <3>2. Holds(Asks(p)) => Holds(st[p]) /\ Asks(p).cand = st[p].cand
      BY <3>1 DEF Holds, Merging
    <3> QED
      BY <2>1, <3>1, <3>2, EarnedBy DEF Moves
  <2>3. CASE Seen # st[p].cand
    <3>1. Outcome(p, Seen, "Stale", None)
      BY <1>5, <2>3, Zenon DEF Dispatch
    <3> QED
      BY <2>1, <3>1, Candidate, OutcomeEarned DEF IInv, Verdicts
  <2> QED
    BY <2>2, <2>3
<1>6. CASE Submit(p)
  <2>1. UNCHANGED <<passing, merged>>
    BY <1>6, SubmitCases
  <2>2. PICK s \in States :
          st' = [st EXCEPT ![p] = s] /\ s.pc = "finish" /\ s.verdict \in {"Pending", "Blocked"}
    BY <1>6, SubmitCases
  <2>3. ~Holds(s)
    BY <2>2 DEF Holds, Merging
  <2> QED
    BY <2>1, <2>2, <2>3, EarnedBy
<1>7. CASE Finish(p)
  <2> DEFINE result == Finished(st[p].cand, st[p].verdict)
  <2>1. /\ st[p].pc = "finish" /\ UNCHANGED <<passing, merged>>
        /\ Outcome(p, result.cand, result.verdict, st[p].review)
    BY <1>7 DEF Finish, forgeVars
  <2>2. st[p].review \in Reviews \cup {None} /\ st[p].verdict \in Verdicts /\ st[p].cand \in Candidates
    BY <1>0, <2>1, RunningFacts DEF States, Running
  <2>3. /\ result.cand \in Candidates /\ result.verdict \in Verdicts
        /\ result.verdict = "Ready" => st[p].verdict = "Ready" /\ result.cand = st[p].cand
    BY <2>2, Candidate DEF Finished, Verdicts, IInv
  <2> HIDE DEF result
  <2> QED
    BY <2>1, <2>2, <2>3, OutcomeEarned DEF Holds
<1> QED
  BY <1>1, <1>2, <1>3, <1>4, <1>5, <1>6, <1>7

LEMMA EngineEarned ==
  ASSUME IInv, Grows, EngineNext
  PROVE  EarnInv'
<1>1. ASSUME NEW p \in Procs, Step(p) PROVE EarnInv'
  <2>1. \/ \/ SaveJournal(p) \/ WriteAnchor(p) \/ ReadFails(p) \/ InspectRun(p) \/ Checks(p)
           \/ Dispatch(p) \/ Submit(p) \/ Finish(p)
        \/ Publish(p) \/ Put(p)
        \/ Dispose(p) \/ MergeCheck(p) \/ MergeInspect(p) \/ MergeFinal(p)
    BY <1>1, Zenon DEF Step
  <2> QED
    BY <2>1, LockedEarned, PublishEarned, PutEarned, AfterEarned, Zenon
<1>2. ASSUME NEW p \in Procs, Crash(p) PROVE EarnInv'
  <2>1. st' = [st EXCEPT ![p] = Idle] /\ UNCHANGED <<passing, merged>>
    BY <1>2 DEF Crash
  <2>2. Idle \in States /\ ~Holds(Idle)
    BY IdleTypes, NotReady DEF Holds, Idle, Merging
  <2> QED
    BY <2>1, <2>2, EarnedBy
<1>3. ASSUME NEW p \in Procs, StartGate(p) PROVE EarnInv'
  <2> DEFINE s == [Idle EXCEPT !.pc = "begin", !.cmd = "gate"]
  <2>1. st' = [st EXCEPT ![p] = s] /\ merged' = merged /\ passing' \subseteq passing
    BY <1>3 DEF StartGate
  <2>2. ~Holds(s)
    BY NotReady DEF Holds, Idle, Merging
  <2> HIDE DEF s
  <2>3. \A q \in Procs : Holds(st'[q]) => Holds(st[q]) /\ st'[q].cand = st[q].cand
    BY <2>1, <2>2 DEF IInv, Types, EngineTypes
  <2>4. \A h \in passing' \ passing : \E b \in Bases : Reviewed([head |-> h, base |-> b])
    BY <2>1
  <2> QED
    BY <2>1, <2>3, <2>4, Earned
<1>4. ASSUME NEW p \in Procs, NEW cmd \in Commands[p], Begin(p, cmd) PROVE EarnInv'
  <2> DEFINE d == store[Host[p]]
             s == [Idle EXCEPT !.cmd = cmd, !.cand = Seen,
                               !.pc = IF d.anchor THEN "inspect"
                                      ELSE IF d.lock THEN "migrate" ELSE "create"]
  <2>1. UNCHANGED <<passing, merged>> /\ (st' = [st EXCEPT ![p] = Idle] \/ st' = [st EXCEPT ![p] = s])
    BY <1>4 DEF Begin, forgeVars
  <2>2. ~Holds(Idle) /\ ~Holds(s)
    BY NotReady DEF Holds, Idle, Merging
  <2> HIDE DEF s
  <2>3. \A q \in Procs : Holds(st'[q]) => Holds(st[q]) /\ st'[q].cand = st[q].cand
    BY <2>1, <2>2 DEF IInv, Types, EngineTypes
  <2> QED
    BY <2>1, <2>3, Earned
<1>5. ASSUME NEW p \in Faulty, LoseJournal(Host[p]) PROVE EarnInv'
  BY <1>5, EarnedStill DEF LoseJournal
<1> QED
  BY <1>1, <1>2, <1>3, <1>4, <1>5 DEF EngineNext

-----------------------------------------------------------------------------
(* The engine's steps, together.                                           *)

LEMMA QuietCoordinator ==
  ASSUME IInv, UNCHANGED <<log, late>>, UNCHANGED dispatchVars
  PROVE  Coordinator'
<1>1. SamePosts
  BY DEF SamePosts, Posts, At, LatePosts
<1>2. At("result")' = At("result")
  BY DEF At
<1> QED
  BY <1>1, <1>2, CoordinatorQuiet

LEMMA QuietSteps ==
  ASSUME IInv, UNCHANGED dispatchVars, NEW p \in Procs,
         \/ SaveJournal(p) \/ WriteAnchor(p) \/ InspectRun(p) \/ ReadFails(p) \/ Checks(p)
         \/ Dispatch(p) \/ Finish(p) \/ Publish(p)
         \/ MergeCheck(p) \/ MergeInspect(p) \/ MergeFinal(p) \/ Put(p)
         \/ Crash(p) \/ StartGate(p) \/ (\E cmd \in Commands[p] : Begin(p, cmd))
         \/ LoseJournal(Host[p])
  PROVE  ForgeTypes' /\ Engine' /\ Coordinator'
<1>1. UNCHANGED <<log, late, provider>>
  <2>1. CASE InspectRun(p)
    BY <2>1, InspectCases DEF forgeVars
  <2>2. CASE Dispatch(p)
    BY <2>2, Zenon DEF Dispatch, forgeVars
  <2>3. CASE \/ SaveJournal(p) \/ WriteAnchor(p) \/ ReadFails(p) \/ Checks(p)
             \/ Finish(p) \/ Publish(p)
             \/ MergeCheck(p) \/ MergeInspect(p) \/ MergeFinal(p) \/ Put(p)
             \/ Crash(p) \/ StartGate(p) \/ (\E cmd \in Commands[p] : Begin(p, cmd))
             \/ LoseJournal(Host[p])
    BY <2>3, Zenon DEF SaveJournal, WriteAnchor, ReadFails, Checks, Finish, Publish, MergeCheck,
       MergeInspect, MergeFinal, Put, Crash, StartGate, Begin, LoseJournal, forgeVars
  <2> QED
    BY <2>1, <2>2, <2>3
<1>2. SamePosts /\ SameNames
  BY <1>1, Quiet DEF dispatchVars
<1>3. Coordinator'
  BY <1>1, QuietCoordinator
<1>4. Engine'
  <2>1. CASE Publish(p) \/ MergeCheck(p) \/ MergeInspect(p) \/ MergeFinal(p) \/ Put(p)
    BY <1>2, <2>1, AfterEngine
  <2>2. CASE \/ SaveJournal(p) \/ WriteAnchor(p) \/ InspectRun(p) \/ ReadFails(p) \/ Checks(p)
             \/ Dispatch(p) \/ Finish(p)
    BY <1>2, <2>2, SaveJournalStep, WriteAnchorStep, InspectStep, ReadFailsStep, ChecksStep,
       DispatchStep, FinishStep, Zenon
  <2>3. CASE Crash(p) \/ StartGate(p) \/ LoseJournal(Host[p])
    BY <1>2, <2>3, CrashStep, StartGateStep, LoseJournalStep, Zenon
  <2>4. CASE \E cmd \in Commands[p] : Begin(p, cmd)
    BY <1>2, <2>4, BeginStep
  <2> QED
    BY <2>1, <2>2, <2>3, <2>4
<1>5. ForgeTypes'
  <2> USE DEF IInv, Types, ForgeTypes
  <2>1. CASE ReadFails(p) \/ Crash(p) \/ LoseJournal(Host[p])
    <3>1. Fault /\ UNCHANGED <<pr, passing, merged>>
      BY <2>1, Zenon DEF ReadFails, Crash, LoseJournal
    <3> QED
      BY <1>1, <3>1, Faults
  <2>2. CASE StartGate(p)
    BY <1>1, <2>2 DEF StartGate
  <2>3. CASE Publish(p)
    <3>1. st[p].cand.cmp.head \in Heads
      BY <2>3, StateFacts DEF Publish, CommandOK, Comparison
    <3>2. /\ UNCHANGED <<pr, merged, used>>
          /\ passing' \in {passing \cup {st[p].cand.cmp.head}, passing \ {st[p].cand.cmp.head}}
      BY <2>3 DEF Publish
    <3> QED
      BY <1>1, <3>1, <3>2
  <2>4. CASE Put(p)
    <3>1. UNCHANGED <<passing, used>>
          /\ (UNCHANGED <<merged, pr>> \/ (merged' = Current /\ pr' = [pr EXCEPT !.open = FALSE]))
      BY <2>4, Zenon DEF Put
    <3> QED
      BY <1>1, <3>1, Candidate
  <2>5. CASE \/ SaveJournal(p) \/ WriteAnchor(p) \/ InspectRun(p) \/ Checks(p)
             \/ Dispatch(p) \/ Finish(p)
             \/ MergeCheck(p) \/ MergeInspect(p) \/ MergeFinal(p)
             \/ (\E cmd \in Commands[p] : Begin(p, cmd))
    <3>1. CASE InspectRun(p)
      BY <1>1, <3>1, InspectCases DEF forgeVars
    <3>2. CASE ~InspectRun(p)
      <4>1. UNCHANGED forgeVars
        BY <2>5, <3>2, Zenon DEF SaveJournal, WriteAnchor, Checks, Dispatch, Finish, MergeCheck,
           MergeInspect, MergeFinal, Begin
      <4> QED
        BY <4>1 DEF forgeVars
    <3> QED
      BY <3>1, <3>2
  <2> QED
    BY <2>1, <2>2, <2>3, <2>4, <2>5
<1> QED
  BY <1>3, <1>4, <1>5

LEMMA SubmitAll ==
  ASSUME IInv, UNCHANGED dispatchVars, NEW p \in Procs, Submit(p)
  PROVE  ForgeTypes' /\ Engine' /\ Coordinator'
<1> DEFINE x == RequestEntry(st[p].run)
<1>1. st[p].pc = "submit" /\ UNCHANGED <<provider, pr, passing, merged>> /\ x \in Requests
  BY SubmitCases
<1>2. \/ log' = Append(log, x) /\ UNCHANGED <<late, used>>
      \/ Fault /\ UNCHANGED <<log, late>>
      \/ Fault /\ late' = late \cup {x} /\ UNCHANGED log
  BY SubmitCases
<1>3. x.kind = "request" /\ x.id = st[p].run.id
  BY DEF RequestEntry
<1> HIDE DEF x
<1>4. Engine'
  BY SubmitStep DEF dispatchVars
<1>5. ForgeTypes'
  <2>1. log' \in Seq(Comments)
    BY <1>1, <1>2, Sequences, Appending DEF IInv, Comments
  <2>2. used' \in [moves : Nat, reviews : Nat, faults : Nat]
    BY <1>2, Faults DEF IInv, Types, ForgeTypes
  <2>3. late' \subseteq {y \in Requests \cup Receipts \cup Jobs : y.kind # "withdrawn"}
    BY <1>1, <1>2, <1>3 DEF IInv, Types, ForgeTypes
  <2> QED
    BY <1>1, <2>1, <2>2, <2>3 DEF IInv, Types, ForgeTypes
<1>6. Coordinator'
  <2>1. CASE UNCHANGED <<log, late>>
    BY <2>1, QuietCoordinator
  <2>2. CASE \/ log' = Append(log, x) /\ late' = late
             \/ log' = log /\ late' = late \cup {x}
    <3>1. \A d \in Posts : log[d].id # x.id
      BY <1>1, <1>3, Submitting DEF Asked
    <3> QED
      BY <1>3, <2>2, <3>1, CoordinatorPost
  <2> QED
    BY <1>2, <2>1, <2>2
<1> QED
  BY <1>4, <1>5, <1>6

LEMMA DisposeAll ==
  ASSUME IInv, UNCHANGED dispatchVars, NEW p \in Procs, Dispose(p)
  PROVE  ForgeTypes' /\ Engine' /\ Coordinator'
<1> DEFINE x == [kind |-> "disposition", cmp |-> st[p].cand.cmp, review |-> st[p].review.id]
<1>1. /\ st[p].pc = "dispose" /\ (log' = log \/ log' = Append(log, x))
      /\ UNCHANGED <<provider, pr, late, passing, merged, used>>
  BY Zenon DEF Dispose
<1>2. x \in Comments
  <2>1. st[p].cand.cmp \in Comparison /\ st[p].review \in Reviews
    BY <1>1, StateFacts DEF CommandOK, States
  <2> QED
    BY <2>1 DEF Comments, Dispositions, Reviews
<1>3. x.kind = "disposition"
  OBVIOUS
<1> HIDE DEF x
<1>4. ForgeTypes'
  <2>1. log' \in Seq(Comments)
    BY <1>1, <1>2, Sequences, Appending DEF IInv
  <2> QED
    BY <1>1, <2>1 DEF IInv, Types, ForgeTypes
<1>5. SamePosts /\ SameNames
      /\ At("result")' = At("result") /\ \A i \in At("result") : log'[i] = log[i]
  <2>1. CASE log' = log
    BY <1>1, <2>1, Quiet DEF At, dispatchVars
  <2>2. CASE log' = Append(log, x)
    BY <1>1, <1>3, <2>2, AddingOther DEF IInv, dispatchVars
  <2> QED
    BY <1>1, <2>1, <2>2
<1>6. Engine'
  BY <1>5, AfterEngine
<1>7. Coordinator'
  BY <1>1, <1>5, CoordinatorQuiet
<1> QED
  BY <1>4, <1>6, <1>7

LEMMA EngineSteps ==
  ASSUME IInv, EngineNext, UNCHANGED dispatchVars
  PROVE  ForgeTypes' /\ Engine' /\ Coordinator'
<1>1. ASSUME NEW p \in Procs, Step(p) \/ Crash(p) \/ StartGate(p) \/ \E cmd \in Commands[p] : Begin(p, cmd)
      PROVE  ForgeTypes' /\ Engine' /\ Coordinator'
  <2>1. \/ Submit(p) \/ Dispose(p)
        \/ \/ SaveJournal(p) \/ WriteAnchor(p) \/ InspectRun(p) \/ ReadFails(p) \/ Checks(p)
           \/ Dispatch(p) \/ Finish(p) \/ Publish(p)
           \/ MergeCheck(p) \/ MergeInspect(p) \/ MergeFinal(p) \/ Put(p)
           \/ Crash(p) \/ StartGate(p) \/ (\E cmd \in Commands[p] : Begin(p, cmd))
           \/ LoseJournal(Host[p])
    BY <1>1, Zenon DEF Step
  <2> QED
    BY <2>1, SubmitAll, DisposeAll, QuietSteps, Zenon
<1>2. ASSUME NEW p \in Faulty, LoseJournal(Host[p])
      PROVE  ForgeTypes' /\ Engine' /\ Coordinator'
  BY <1>2, EngineAssumption, QuietSteps
<1> QED
  BY <1>1, <1>2 DEF EngineNext

-----------------------------------------------------------------------------
(* The forge's steps.                                                      *)

LEMMA MoveAll ==
  ASSUME IInv, Move, UNCHANGED <<engineVars, dispatchVars>>
  PROVE  ForgeTypes' /\ Engine' /\ Coordinator'
<1>1. UNCHANGED <<log, late>> /\ UNCHANGED <<provider, passing, merged>> /\ Moved
      /\ \/ \E head \in Heads : pr' = [pr EXCEPT !.head = head]
         \/ \E base \in Bases : pr' = [pr EXCEPT !.base = base]
         \/ pr' = [pr EXCEPT !.open = ~@]
  BY DEF Move
<1>2. used' \in [moves : Nat, reviews : Nat, faults : Nat]
  BY <1>1, ForgeAssumption DEF Moved, IInv, Types, ForgeTypes
<1>3. pr' \in [head : Heads, base : Bases, open : BOOLEAN]
  BY <1>1 DEF IInv, Types, ForgeTypes
<1>4. ForgeTypes'
  BY <1>1, <1>2, <1>3 DEF IInv, Types, ForgeTypes
<1>5. Engine'
  BY <1>1, Quiet, EngineQuiet DEF dispatchVars
<1>6. Coordinator'
  BY <1>1, QuietCoordinator
<1> QED
  BY <1>4, <1>5, <1>6

LEMMA WithdrawAll ==
  ASSUME IInv, Withdraw, UNCHANGED <<engineVars, dispatchVars>>
  PROVE  ForgeTypes' /\ Engine' /\ Coordinator'
<1>1. Moved /\ UNCHANGED <<provider, pr, late, passing, merged>>
  BY DEF Withdraw
<1>2. /\ SamePosts /\ SameNames
      /\ At("result")' = At("result") /\ \A i \in At("result") : log'[i] = log[i]
      /\ log' \in Seq(Comments)
  BY Withdrawing DEF IInv
<1>3. used' \in [moves : Nat, reviews : Nat, faults : Nat]
  BY <1>1, ForgeAssumption DEF Moved, IInv, Types, ForgeTypes
<1>4. ForgeTypes'
  BY <1>1, <1>2, <1>3 DEF IInv, Types, ForgeTypes
<1>5. Engine'
  BY <1>2, EngineQuiet
<1>6. Coordinator'
  BY <1>1, <1>2, CoordinatorQuiet
<1> QED
  BY <1>4, <1>5, <1>6

LEMMA BotAll ==
  ASSUME IInv, BotReviews, UNCHANGED <<engineVars, dispatchVars>>
  PROVE  ForgeTypes' /\ Engine' /\ Coordinator'
<1>1. /\ used' = [used EXCEPT !.reviews = @ + 1] /\ UNCHANGED <<provider, pr, late, passing, merged>>
      /\ used.reviews < MaxReviews
  BY DEF BotReviews
<1>2. PICK status \in {"done", "failed"}, clean \in BOOLEAN :
        log' = Append(log, [kind |-> "review", head |-> pr.head,
                            status |-> status, clean |-> clean /\ status = "done"])
  BY DEF BotReviews
<1> DEFINE x == [kind |-> "review", head |-> pr.head,
                 status |-> status, clean |-> clean /\ status = "done"]
<1>3. x \in Comments
  <2>1. pr.head \in Heads /\ (clean /\ status = "done") \in BOOLEAN
    BY DEF IInv, Types, ForgeTypes
  <2> QED
    BY <2>1 DEF Comments, BotReviewed
<1>4. x.kind = "review"
  OBVIOUS
<1> HIDE DEF x
<1>5. used' \in [moves : Nat, reviews : Nat, faults : Nat]
  BY <1>1 DEF IInv, Types, ForgeTypes
<1>6. log' \in Seq(Comments)
  BY <1>2, <1>3, Sequences, Appending DEF IInv, x
<1>7. ForgeTypes'
  BY <1>1, <1>5, <1>6 DEF IInv, Types, ForgeTypes
<1>8. log' = Append(log, x)
  BY <1>2 DEF x
<1>9. SamePosts /\ SameNames
      /\ At("result")' = At("result") /\ \A i \in At("result") : log'[i] = log[i]
  BY <1>1, <1>4, <1>8, AddingOther DEF IInv, dispatchVars
<1>10. Engine'
  BY <1>9, EngineQuiet
<1>11. Coordinator'
  BY <1>1, <1>9, CoordinatorQuiet
<1> QED
  BY <1>7, <1>10, <1>11

LEMMA ArriveAll ==
  ASSUME IInv, ArriveLate, UNCHANGED <<engineVars, dispatchVars>>
  PROVE  ForgeTypes' /\ Engine' /\ Coordinator'
<1>1. PICK x \in late :
         /\ x.kind # "job" /\ log' = Append(log, x) /\ late' = late \ {x}
         /\ UNCHANGED <<provider, pr, passing, merged, used>>
  BY DEF ArriveLate
<1>2. x \in Requests \cup Receipts \cup Jobs /\ x.kind # "withdrawn"
  BY DEF IInv, Types, ForgeTypes
<1>3. x \in Requests \cup Receipts /\ x.kind \in {"request", "result"}
  BY <1>1, <1>2 DEF Requests, Receipts, Jobs
<1>4. log' \in Seq(Comments)
  BY <1>1, <1>3, Sequences, Appending DEF IInv, Comments
<1>5. ForgeTypes'
  BY <1>1, <1>4 DEF IInv, Types, ForgeTypes
<1>6. Engine'
  BY <1>1, ArrivingEngine DEF dispatchVars
<1>7. Coordinator'
  <2>1. CASE x.kind = "request"
    <3>1. \A d \in Posts : log[d].id # x.id
      BY <2>1 DEF IInv, RequestInv, LatePosts
    <3> QED
      BY <1>1, <2>1, <3>1, CoordinatorPost
  <2>2. CASE x.kind = "result"
    BY <1>1, <2>2, CoordinatorReceipt
  <2> QED
    BY <1>3, <2>1, <2>2
<1> QED
  BY <1>5, <1>6, <1>7

LEMMA ForgeSteps ==
  ASSUME IInv, ForgeNext, UNCHANGED <<engineVars, dispatchVars>>, Grows
  PROVE  ForgeTypes' /\ Engine' /\ Coordinator' /\ EarnInv'
<1>1. ForgeTypes' /\ Engine' /\ Coordinator'
  BY MoveAll, WithdrawAll, BotAll, ArriveAll DEF ForgeNext
<1>2. st' = st /\ passing' = passing /\ merged' = merged
  BY Zenon DEF ForgeNext, Move, Withdraw, BotReviews, ArriveLate, engineVars
<1>3. EarnInv'
  BY <1>2, EarnedStill
<1> QED
  BY <1>1, <1>3

-----------------------------------------------------------------------------
(* A step of one coordinator.                                              *)

\* The ledgers f hold files of F.
Filed(f, F) == DOMAIN f \subseteq Nat /\ f \in [DOMAIN f -> Ledgers(F)]

\* What releasing does to ledgers.
LEMMA Releasing ==
  ASSUME NEW F, NEW f, Filed(f, F), NEW w \in Workers, NEW g, g = Release(f, w)
  PROVE  /\ Filed(g, F)
         /\ \A k : k \in DOMAIN g <=> k \in DOMAIN f
         /\ \A k \in DOMAIN f : /\ g[k].file = f[k].file
                                /\ g[k].by = IF f[k].by = w THEN None ELSE f[k].by
BY DEF Release, Ledgers, Filed

\* What claiming does to ledgers.
LEMMA Claiming ==
  ASSUME NEW F, NEW f, Filed(f, F), NEW key \in Nat, NEW w \in Workers, NEW g, g = Claimed(f, key, w)
  PROVE  /\ Filed(g, F)
         /\ \A k : k \in DOMAIN g <=> k \in DOMAIN f \/ k = key
         /\ \A k \in DOMAIN f : k # key => g[k] = f[k]
         /\ g[key].by = w
         /\ g[key].file = IF key \in DOMAIN f THEN f[key].file ELSE None
<1> DEFINE old == OnFile(f, key)
           new == [old EXCEPT !.lock = TRUE, !.by = w]
<1>1. /\ new.file = (IF key \in DOMAIN f THEN f[key].file ELSE None)
      /\ new.by = w /\ new \in Ledgers(F)
  <2>1. CASE key \in DOMAIN f
    BY <2>1 DEF OnFile, Ledgers, Filed
  <2>2. CASE key \notin DOMAIN f
    BY <2>2 DEF OnFile, Unclaimed, Ledgers
  <2> QED
    BY <2>1, <2>2
<1> HIDE DEF new
<1>2. Claimed(f, key, w) = [k \in DOMAIN f \cup {key} |-> IF k = key THEN new ELSE f[k]]
  BY DEF Claimed, With, new
<1> QED
  BY <1>1, <1>2 DEF Filed

\* The coordinator w goes to v.
Works(w, v) == worker' = [worker EXCEPT ![w] = v]

LEMMA WorkerFacts ==
  ASSUME IInv, NEW w \in Workers
  PROVE  /\ worker[w] \in WorkerStates
         /\ worker[w].pc # "rest" =>
               /\ worker[w].req \in Observed /\ worker[w].req # None
               /\ worker[w].req.id \in Nat /\ worker[w].req.comment \in Nat
               /\ worker[w].req.cmp \in Comparison
               /\ worker[w].req.comment \in Posts
               /\ log[worker[w].req.comment].id = worker[w].req.id
<1>1. worker[w] \in WorkerStates
  BY DEF IInv, Types, DispatchTypes
<1>2. worker[w].pc # "rest" =>
        /\ worker[w].req # None /\ worker[w].req.comment \in Posts
        /\ log[worker[w].req.comment].id = worker[w].req.id
  BY DEF IInv, WorkerInv
<1>3. worker[w].req # None => worker[w].req \in Observed
  BY <1>1 DEF WorkerStates
<1> QED
  BY <1>1, <1>2, <1>3 DEF Observed

LEMMA RestingTypes == Resting \in WorkerStates /\ Resting.pc = "rest"
BY DEF Resting, WorkerStates, Working

\* What the ledgers hold.
LEMMA LedgerFacts ==
  ASSUME IInv
  PROVE  /\ DOMAIN ledger \subseteq Nat /\ ledger \in [DOMAIN ledger -> Ledgers(Dispatches)]
         /\ DOMAIN receipt \subseteq Nat /\ receipt \in [DOMAIN receipt -> Ledgers(Publications)]
         /\ \A k \in DOMAIN ledger : /\ ledger[k].by \in Workers \cup {None}
                                     /\ ledger[k].file \in Dispatches \cup {None}
         /\ \A k \in DOMAIN receipt : /\ receipt[k].by \in Workers \cup {None}
                                      /\ receipt[k].file \in Publications \cup {None}
<1>1. /\ DOMAIN ledger \subseteq Nat /\ ledger \in [DOMAIN ledger -> Ledgers(Dispatches)]
      /\ DOMAIN receipt \subseteq Nat /\ receipt \in [DOMAIN receipt -> Ledgers(Publications)]
  BY DEF IInv, Types, DispatchTypes
<1>2. \A k \in DOMAIN ledger : ledger[k] \in Ledgers(Dispatches)
  BY <1>1
<1>3. \A k \in DOMAIN receipt : receipt[k] \in Ledgers(Publications)
  BY <1>1
<1> QED
  BY <1>1, <1>2, <1>3 DEF Ledgers

LEMMA WorkersKept ==
  ASSUME IInv, NEW w \in Workers, NEW v \in WorkerStates, Works(w, v),
         \A c \in Posts : c \in Posts' /\ log'[c].id = log[c].id,
         \A id : \A j \in JobsOf(id) : /\ j \in JobsOf(id)'
                                       /\ jobs[j].status # "queued" => jobs'[j].status # "queued",
         v.pc # "rest" => /\ v.req # None /\ v.req.comment \in Posts
                          /\ log[v.req.comment].id = v.req.id,
         v.pc \in {"receipt", "saveReceipt", "post"} =>
            v.job \in JobsOf(v.req.id)' /\ jobs'[v.job].status # "queued"
  PROVE  WorkerInv'
<1>1. worker'[w] = v /\ \A q \in Workers \ {w} : worker'[q] = worker[q]
  BY DEF IInv, Types, DispatchTypes, Works
<1>2. ASSUME NEW q \in Workers
      PROVE  /\ worker'[q].pc # "rest" =>
                   /\ worker'[q].req # None /\ worker'[q].req.comment \in Posts'
                   /\ log'[worker'[q].req.comment].id = worker'[q].req.id
             /\ worker'[q].pc \in {"receipt", "saveReceipt", "post"} =>
                   /\ worker'[q].job \in JobsOf(worker[q].req.id)'
                   /\ jobs'[worker'[q].job].status # "queued"
  <2>1. CASE q = w
    BY <1>1, <2>1
  <2>2. CASE q # w
    <3>1. worker'[q] = worker[q]
      BY <1>1, <2>2
    <3>2. /\ worker[q].pc # "rest" =>
               /\ worker[q].req # None /\ worker[q].req.comment \in Posts
               /\ log[worker[q].req.comment].id = worker[q].req.id
          /\ worker[q].pc \in {"receipt", "saveReceipt", "post"} =>
               /\ worker[q].job \in JobsOf(worker[q].req.id)
               /\ jobs[worker[q].job].status # "queued"
      BY DEF IInv, WorkerInv
    <3> QED
      BY <3>1, <3>2
  <2> QED
    BY <2>1, <2>2
<1> QED
  BY <1>2 DEF WorkerInv

\* The ledgers f, held at the steps pcs for the keys of the requests.
LEMMA HoldKept ==
  ASSUME IInv, NEW w \in Workers, NEW v \in WorkerStates, Works(w, v),
         DOMAIN ledger \subseteq DOMAIN ledger', DOMAIN receipt \subseteq DOMAIN receipt',
         \A k \in DOMAIN ledger' : ledger'[k].by = w => v.pc \in Dispatching /\ v.req.id = k,
         \A k \in DOMAIN ledger' : ledger'[k].by \notin {w, None} =>
            k \in DOMAIN ledger /\ ledger[k].by = ledger'[k].by,
         \A k \in DOMAIN ledger : ledger[k].by \notin {w, None} => ledger'[k].by = ledger[k].by,
         v.pc \in Dispatching => v.req.id \in DOMAIN ledger' /\ ledger'[v.req.id].by = w,
         \A k \in DOMAIN receipt' : receipt'[k].by = w => v.pc \in Receipting /\ v.req.comment = k,
         \A k \in DOMAIN receipt' : receipt'[k].by \notin {w, None} =>
            k \in DOMAIN receipt /\ receipt[k].by = receipt'[k].by,
         \A k \in DOMAIN receipt : receipt[k].by \notin {w, None} => receipt'[k].by = receipt[k].by,
         v.pc \in Receipting => v.req.comment \in DOMAIN receipt' /\ receipt'[v.req.comment].by = w
  PROVE  HoldInv'
<1>1. worker'[w] = v /\ \A q \in Workers \ {w} : worker'[q] = worker[q]
  BY DEF IInv, Types, DispatchTypes, Works
<1>2. ASSUME NEW q \in Workers
      PROVE  /\ worker'[q].pc \in Dispatching =>
                   worker'[q].req.id \in DOMAIN ledger' /\ ledger'[worker'[q].req.id].by = q
             /\ worker'[q].pc \in Receipting =>
                   worker'[q].req.comment \in DOMAIN receipt' /\ receipt'[worker'[q].req.comment].by = q
  <2>1. CASE q = w
    BY <1>1, <2>1
  <2>2. CASE q # w
    <3>1. q # None /\ worker'[q] = worker[q]
      BY <1>1, <2>2, NoneAssumption
    <3>2. /\ worker[q].pc \in Dispatching =>
               worker[q].req.id \in DOMAIN ledger /\ ledger[worker[q].req.id].by = q
          /\ worker[q].pc \in Receipting =>
               worker[q].req.comment \in DOMAIN receipt /\ receipt[worker[q].req.comment].by = q
      BY DEF IInv, HoldInv
    <3> QED
      BY <2>2, <3>1, <3>2
  <2> QED
    BY <2>1, <2>2
<1>3. ASSUME NEW k \in DOMAIN ledger', ledger'[k].by # None
      PROVE  worker'[ledger'[k].by].pc \in Dispatching /\ worker'[ledger'[k].by].req.id = k
  <2>1. CASE ledger'[k].by = w
    BY <1>1, <2>1
  <2>2. CASE ledger'[k].by # w
    <3>1. k \in DOMAIN ledger /\ ledger[k].by = ledger'[k].by
      BY <1>3, <2>2
    <3>2. ledger[k].by \in Workers
      BY <1>3, <3>1, LedgerFacts
    <3>3. worker[ledger[k].by].pc \in Dispatching /\ worker[ledger[k].by].req.id = k
      BY <1>3, <3>1 DEF IInv, HoldInv
    <3> QED
      BY <1>1, <2>2, <3>1, <3>2, <3>3
  <2> QED
    BY <2>1, <2>2
<1>4. ASSUME NEW k \in DOMAIN receipt', receipt'[k].by # None
      PROVE  worker'[receipt'[k].by].pc \in Receipting /\ worker'[receipt'[k].by].req.comment = k
  <2>1. CASE receipt'[k].by = w
    BY <1>1, <2>1
  <2>2. CASE receipt'[k].by # w
    <3>1. k \in DOMAIN receipt /\ receipt[k].by = receipt'[k].by
      BY <1>4, <2>2
    <3>2. receipt[k].by \in Workers
      BY <1>4, <3>1, LedgerFacts
    <3>3. worker[receipt[k].by].pc \in Receipting /\ worker[receipt[k].by].req.comment = k
      BY <1>4, <3>1 DEF IInv, HoldInv
    <3> QED
      BY <1>1, <2>2, <3>1, <3>2, <3>3
  <2> QED
    BY <2>1, <2>2
<1> QED
  BY <1>2, <1>3, <1>4 DEF HoldInv

\* No job is created, nor lost.
LEMMA JobsKept ==
  ASSUME IInv, NEW w \in Workers, NEW v \in WorkerStates, Works(w, v),
         \A id : JobsOf(id)' = JobsOf(id), LateJobs' = LateJobs, DOMAIN ledger' \subseteq Nat,
         \A k \in DOMAIN ledger :
            k \in DOMAIN ledger' /\ (ledger[k].file # None => ledger'[k].file # None),
         \A k \in DOMAIN ledger' : ledger'[k].file = None =>
            k \notin DOMAIN ledger \/ ledger[k].file = None,
         \A k \in DOMAIN ledger : ledger[k].by # w => ledger'[k].file = ledger[k].file,
         v.pc = "fresh" => ledger'[v.req.id].file = None,
         v.pc = "enqueue" => NoJob(v.req.id),
         v.pc \in {"enqueue", "collect"} => ledger'[v.req.id].file # None
  PROVE  JobInv'
<1>1. worker'[w] = v /\ \A q \in Workers \ {w} : worker'[q] = worker[q]
  BY DEF IInv, Types, DispatchTypes, Works
<1>2. \A id : (NoJob(id)' <=> NoJob(id)) /\ (OneJobAtMost(id)' <=> OneJobAtMost(id))
  BY DEF NoJob, OneJobAtMost
<1>3. /\ \A id \in Nat : OneJobAtMost(id)'
      /\ \A id \in Nat : id \notin DOMAIN ledger' => NoJob(id)'
  BY <1>2 DEF IInv, JobInv
<1>4. \A id \in DOMAIN ledger' : ledger'[id].file = None => NoJob(id)'
  <2>1. ASSUME NEW id \in DOMAIN ledger', ledger'[id].file = None PROVE NoJob(id)
    <3>1. CASE id \in DOMAIN ledger
      BY <2>1, <3>1 DEF IInv, JobInv
    <3>2. CASE id \notin DOMAIN ledger
      BY <3>2 DEF IInv, JobInv
    <3> QED
      BY <3>1, <3>2
  <2> QED
    BY <1>2, <2>1
<1>5. ASSUME NEW q \in Workers
      PROVE  /\ worker'[q].pc = "fresh" => ledger'[worker'[q].req.id].file = None
             /\ worker'[q].pc = "enqueue" => NoJob(worker[q].req.id)'
             /\ worker'[q].pc \in {"enqueue", "collect"} => ledger'[worker'[q].req.id].file # None
  <2>1. CASE q = w
    BY <1>1, <1>2, <2>1
  <2>2. CASE q # w
    <3>1. worker'[q] = worker[q]
      BY <1>1, <2>2
    <3>2. worker[q].pc = "enqueue" => NoJob(worker[q].req.id)
      BY DEF IInv, JobInv
    <3>3. worker[q].pc \in {"enqueue", "collect"} =>
             worker[q].req.id \in DOMAIN ledger /\ ledger[worker[q].req.id].file # None
      BY DEF IInv, JobInv, HoldInv, Dispatching
    <3>4. worker[q].pc = "fresh" =>
             /\ worker[q].req.id \in DOMAIN ledger /\ ledger[worker[q].req.id].file = None
             /\ ledger[worker[q].req.id].by # w
      BY <2>2 DEF IInv, JobInv, HoldInv, Dispatching
    <3> QED
      BY <1>2, <3>1, <3>2, <3>3, <3>4
  <2> QED
    BY <2>1, <2>2
<1> QED
  BY <1>3, <1>4, <1>5 DEF JobInv

\* No receipt is posted.
LEMMA ReceiptsKept ==
  ASSUME IInv, NEW w \in Workers, NEW v \in WorkerStates, Works(w, v),
         log' = log, LateResults' = LateResults,
         \A k \in DOMAIN receipt :
            k \in DOMAIN receipt' /\ (receipt[k].file # None => receipt'[k].file # None),
         \A k \in DOMAIN receipt' : receipt'[k].file = None =>
            k \notin DOMAIN receipt \/ receipt[k].file = None,
         v.pc = "post" => NoResult(v.req.id) /\ receipt'[v.req.comment].file # None
  PROVE  ReceiptInv'
<1>1. worker'[w] = v /\ \A q \in Workers \ {w} : worker'[q] = worker[q]
  BY DEF IInv, Types, DispatchTypes, Works
<1>2. /\ Posts' = Posts /\ At("result")' = At("result")
      /\ \A id : (NoResult(id)' <=> NoResult(id)) /\ (OneResultAtMost(id)' <=> OneResultAtMost(id))
  BY DEF NoResult, OneResultAtMost, Posts, At
<1>3. /\ \A id \in Nat : OneResultAtMost(id)'
      /\ \A c \in Posts' : c \notin DOMAIN receipt' => NoResult(log[c].id)'
      /\ \A x \in LateResults' : \E c \in Posts' : log'[c].id = x.id
      /\ \A i \in At("result")' : \E c \in Posts' : log'[c].id = log'[i].id
  BY <1>2 DEF IInv, ReceiptInv
<1>4. ASSUME NEW c \in Posts' \cap DOMAIN receipt', receipt'[c].file = None PROVE NoResult(log[c].id)'
  <2>1. NoResult(log[c].id)
    BY <1>2, <1>4 DEF IInv, ReceiptInv
  <2> QED
    BY <1>2, <2>1
<1>5. ASSUME NEW q \in Workers, worker'[q].pc = "post"
      PROVE  NoResult(worker[q].req.id)' /\ receipt'[worker'[q].req.comment].file # None
  <2>1. CASE q = w
    BY <1>1, <1>2, <1>5, <2>1
  <2>2. CASE q # w
    <3>1. worker'[q] = worker[q]
      BY <1>1, <2>2
    <3>2. /\ NoResult(worker[q].req.id) /\ worker[q].req.comment \in DOMAIN receipt
          /\ receipt[worker[q].req.comment].file # None
      BY <1>5, <3>1 DEF IInv, ReceiptInv, HoldInv, Receipting
    <3> QED
      BY <1>2, <3>1, <3>2
  <2> QED
    BY <2>1, <2>2
<1> QED
  BY <1>3, <1>4, <1>5 DEF ReceiptInv

LEMMA ResultsKept ==
  ASSUME IInv, At("result")' = At("result"), \A i \in At("result") : log'[i] = log[i],
         LateResults' = LateResults,
         \A id : \A j \in JobsOf(id) : j \in JobsOf(id)'
                                       /\ (jobs[j].status # "queued" => jobs'[j] = jobs[j])
  PROVE  ResultInv'
<1>1. ASSUME NEW x, ReceiptOK(x) PROVE ReceiptOK(x)'
  BY <1>1 DEF ReceiptOK
<1>2. \A i \in At("result")' : ReceiptOK(log[i])'
  <2>1. ASSUME NEW i \in At("result") PROVE ReceiptOK(log[i])'
    <3>1. PICK x : x = log[i]
      OBVIOUS
    <3>2. ReceiptOK(x)'
      BY <1>1, <3>1 DEF IInv, ResultInv
    <3> QED
      BY <3>1, <3>2
  <2> QED
    BY <2>1
<1>3. \A x \in LateResults' : ReceiptOK(x)'
  BY <1>1 DEF IInv, ResultInv
<1> QED
  BY <1>2, <1>3 DEF ResultInv

\* A step that leaves the log, the calls in flight and the jobs alone.
LEMMA WorkerQuiet ==
  ASSUME IInv, NEW w \in Workers, NEW v \in WorkerStates, Works(w, v),
         UNCHANGED <<engineVars, log, late, jobs>>,
         DOMAIN ledger' \subseteq Nat, ledger' \in [DOMAIN ledger' -> Ledgers(Dispatches)],
         DOMAIN receipt' \subseteq Nat, receipt' \in [DOMAIN receipt' -> Ledgers(Publications)],
         v.pc # "rest" =>
            \/ worker[w].pc # "rest" /\ v.req = worker[w].req
            \/ /\ v.req # None /\ v.req.comment \in Posts
               /\ log[v.req.comment].id = v.req.id /\ log[v.req.comment].cmp = v.req.cmp,
         v.pc \in {"receipt", "saveReceipt", "post"} =>
            v.job \in JobsOf(v.req.id) /\ jobs[v.job].status # "queued",
         HoldInv', JobInv', ReceiptInv'
  PROVE  Engine' /\ Coordinator'
<1>1. DispatchTypes'
  BY DEF IInv, Types, DispatchTypes, Works
<1>2. /\ Posts' = Posts /\ At("result")' = At("result") /\ LateResults' = LateResults
      /\ \A id : JobsOf(id)' = JobsOf(id)
  BY DEF Posts, At, LateResults, JobsOf
<1>3. WorkerInv'
  BY <1>2, WorkersKept, WorkerFacts
<1>4. ResultInv'
  BY <1>2, ResultsKept
<1>5. SamePosts
  BY <1>2 DEF SamePosts, LatePosts
<1>6. ASSUME NEW f, Named(f) PROVE NamedElsewhere(f)'
  <2>1. \A q \in Workers : worker'[q].pc # "rest" => NameOK(f, worker'[q].req)
    <3>1. v.pc # "rest" => NameOK(f, v.req)
      BY <1>6 DEF Named, NameOK
    <3> QED
      BY <1>6, <3>1 DEF IInv, Types, DispatchTypes, Works, Named
  <2> QED
    BY <1>2, <1>6, <2>1 DEF Named, NamedElsewhere, NameOK
<1>7. Engine'
  BY <1>5, <1>6, EngineQuiet DEF SameNames
<1> QED
  BY <1>1, <1>3, <1>4, <1>7 DEF Coordinator

\* Neither kind of ledger changes its domain or what it holds on file, but for the
\* locks that w gives back.
LEMMA ReleasedHold ==
  ASSUME IInv, NEW w \in Workers, NEW v \in WorkerStates, Works(w, v),
         v.pc \notin Dispatching \cup Receipting,
         \A k : k \in DOMAIN ledger <=> k \in DOMAIN ledger',
         \A k : k \in DOMAIN receipt <=> k \in DOMAIN receipt',
         \A k \in DOMAIN ledger : ledger'[k].by = IF ledger[k].by = w THEN None ELSE ledger[k].by,
         \A k \in DOMAIN receipt : receipt'[k].by = IF receipt[k].by = w THEN None ELSE receipt[k].by
  PROVE  HoldInv'
<1>1. w # None
  BY NoneAssumption
<1>2. /\ \A k \in DOMAIN ledger' : ledger'[k].by # w
      /\ \A k \in DOMAIN receipt' : receipt'[k].by # w
  BY <1>1
<1> QED
  BY <1>2, HoldKept

\* What w holds says which ledgers are its own.
LEMMA Own ==
  ASSUME IInv, NEW w \in Workers
  PROVE  /\ \A k \in DOMAIN ledger : ledger[k].by = w =>
               worker[w].pc \in Dispatching /\ worker[w].req.id = k
         /\ \A k \in DOMAIN receipt : receipt[k].by = w =>
               worker[w].pc \in Receipting /\ worker[w].req.comment = k
         /\ worker[w].pc \in Dispatching =>
               worker[w].req.id \in DOMAIN ledger /\ ledger[worker[w].req.id].by = w
         /\ worker[w].pc \in Receipting =>
               worker[w].req.comment \in DOMAIN receipt /\ receipt[worker[w].req.comment].by = w
BY NoneAssumption DEF IInv, HoldInv

\* The coordinator rests, or goes to wait for its job, without a lock.
LEMMA RestStep ==
  ASSUME IInv, NEW w \in Workers, NEW v \in WorkerStates, Works(w, v),
         UNCHANGED <<engineVars, log, late, jobs>>,
         \/ v.pc = "rest"
         \/ /\ v.pc = "receipt" /\ worker[w].pc # "rest" /\ v.req = worker[w].req
            /\ v.job \in JobsOf(v.req.id) /\ jobs[v.job].status # "queued",
         ledger' \in [DOMAIN ledger -> Ledgers(Dispatches)],
         receipt' \in [DOMAIN receipt -> Ledgers(Publications)],
         \A k \in DOMAIN ledger :
            /\ ledger'[k].by = IF ledger[k].by = w THEN None ELSE ledger[k].by
            /\ ledger[k].file = None <=> ledger'[k].file = None
            /\ ledger[k].by # w => ledger'[k].file = ledger[k].file,
         \A k \in DOMAIN receipt :
            /\ receipt'[k].by = IF receipt[k].by = w THEN None ELSE receipt[k].by
            /\ receipt[k].file # None => receipt'[k].file # None
  PROVE  Engine' /\ Coordinator'
<1>1. /\ DOMAIN ledger' = DOMAIN ledger /\ DOMAIN receipt' = DOMAIN receipt
      /\ DOMAIN ledger \subseteq Nat /\ DOMAIN receipt \subseteq Nat
  BY LedgerFacts
<1>2. HoldInv'
  BY <1>1, ReleasedHold DEF Dispatching, Receipting
<1>3. JobInv'
  <2>1. LateJobs' = LateJobs /\ \A id : JobsOf(id)' = JobsOf(id)
    BY DEF LateJobs, JobsOf
  <2> QED
    BY <1>1, <2>1, JobsKept
<1>4. ReceiptInv'
  <2>1. LateResults' = LateResults
    BY DEF LateResults
  <2> QED
    BY <1>1, <2>1, ReceiptsKept
<1> QED
  BY <1>1, <1>2, <1>3, <1>4, WorkerQuiet

\* Giving back what w holds, and nothing else.
LEMMA Idling ==
  ASSUME IInv, NEW w \in Workers, NEW v \in WorkerStates, Works(w, v),
         UNCHANGED <<engineVars, log, late, jobs>>, v.pc = "rest",
         ledger' = ledger \/ ledger' = Release(ledger, w),
         receipt' = receipt \/ receipt' = Release(receipt, w),
         ledger' = Release(ledger, w) \/ worker[w].pc \notin Dispatching,
         receipt' = Release(receipt, w) \/ worker[w].pc \notin Receipting
  PROVE  Engine' /\ Coordinator'
<1>1. /\ ledger' \in [DOMAIN ledger -> Ledgers(Dispatches)]
      /\ \A k \in DOMAIN ledger :
            /\ ledger'[k].by = IF ledger[k].by = w THEN None ELSE ledger[k].by
            /\ ledger[k].file = None <=> ledger'[k].file = None
            /\ ledger[k].by # w => ledger'[k].file = ledger[k].file
  <2>1. CASE ledger' = Release(ledger, w)
    <3>1. Filed(ledger, Dispatches)
      BY LedgerFacts DEF Filed
    <3>2. /\ Filed(ledger', Dispatches)
          /\ \A k : k \in DOMAIN ledger' <=> k \in DOMAIN ledger
          /\ \A k \in DOMAIN ledger : /\ ledger'[k].file = ledger[k].file
                                      /\ ledger'[k].by = IF ledger[k].by = w THEN None ELSE ledger[k].by
      BY <2>1, <3>1, Releasing
    <3> QED
      BY <3>2 DEF Filed
  <2>2. CASE ledger' = ledger /\ worker[w].pc \notin Dispatching
    BY <2>2, LedgerFacts, Own
  <2> QED
    BY <2>1, <2>2
<1>2. /\ receipt' \in [DOMAIN receipt -> Ledgers(Publications)]
      /\ \A k \in DOMAIN receipt :
            /\ receipt'[k].by = IF receipt[k].by = w THEN None ELSE receipt[k].by
            /\ receipt[k].file # None => receipt'[k].file # None
  <2>1. CASE receipt' = Release(receipt, w)
    <3>1. Filed(receipt, Publications)
      BY LedgerFacts DEF Filed
    <3>2. /\ Filed(receipt', Publications)
          /\ \A k : k \in DOMAIN receipt' <=> k \in DOMAIN receipt
          /\ \A k \in DOMAIN receipt : /\ receipt'[k].file = receipt[k].file
                                       /\ receipt'[k].by = IF receipt[k].by = w THEN None ELSE receipt[k].by
      BY <2>1, <3>1, Releasing
    <3> QED
      BY <3>2 DEF Filed
  <2>2. CASE receipt' = receipt /\ worker[w].pc \notin Receipting
    BY <2>2, LedgerFacts, Own
  <2> QED
    BY <2>1, <2>2
<1> QED
  BY <1>1, <1>2, RestStep

\* A change of step alone.
LEMMA Stepping ==
  ASSUME IInv, NEW w \in Workers, NEW pc \in Working, worker[w].pc # "rest", To(w, pc)
  PROVE  LET v == [worker[w] EXCEPT !.pc = pc]
         IN  /\ Works(w, v) /\ v \in WorkerStates /\ v.pc = pc
             /\ v.req = worker[w].req /\ v.job = worker[w].job
BY WorkerFacts DEF To, Works, WorkerStates, IInv, Types, DispatchTypes

LEMMA RestDoes ==
  ASSUME IInv, NEW w \in Workers, Rest(w)
  PROVE  Works(w, Resting) /\ Resting \in WorkerStates /\ Resting.pc = "rest"
BY RestingTypes DEF Rest, Works

LEMMA ClaimDispatchStep ==
  ASSUME IInv, NEW w \in Workers, ClaimDispatch(w), UNCHANGED engineVars
  PROVE  Engine' /\ Coordinator'
<1> DEFINE id == worker[w].req.id
           old == OnFile(ledger, id)
<1>1. worker[w].pc = "prepared" /\ UNCHANGED <<log, late, jobs, receipt>>
  BY DEF ClaimDispatch, forgeVars
<1>2. id \in Nat
  BY <1>1, WorkerFacts
<1>3. CASE Rest(w) /\ UNCHANGED ledger
  BY <1>1, <1>3, RestDoes, Idling DEF Dispatching, Receipting
<1>4. CASE /\ ~Wedged(ledger, id) /\ ledger' = Claimed(ledger, id, w)
           /\ To(w, IF old.lock THEN "collect" ELSE "fresh")
  <2>1. PICK pc \in {"collect", "fresh"} : pc = IF old.lock THEN "collect" ELSE "fresh"
    OBVIOUS
  <2>0. To(w, pc) /\ pc \in Working /\ worker[w].pc # "rest"
    BY <1>1, <1>4, <2>1 DEF Working
  <2> DEFINE v == [worker[w] EXCEPT !.pc = pc]
  <2>2. /\ Works(w, v) /\ v \in WorkerStates /\ v.pc = pc /\ v.req = worker[w].req
    BY <2>0, Stepping
  <2> HIDE DEF v
  <2>3. /\ Filed(ledger', Dispatches)
        /\ \A k : k \in DOMAIN ledger' <=> k \in DOMAIN ledger \/ k = id
        /\ \A k \in DOMAIN ledger : k # id => ledger'[k] = ledger[k]
        /\ ledger'[id].by = w
        /\ ledger'[id].file = IF id \in DOMAIN ledger THEN ledger[id].file ELSE None
    <3> HIDE DEF id
    <3>1. ledger' = Claimed(ledger, id, w)
      BY <1>4
    <3>2. Filed(ledger, Dispatches)
      BY LedgerFacts DEF Filed
    <3> QED
      BY <1>2, <3>1, <3>2, Claiming
  <2>4. /\ id \in DOMAIN ledger => ledger[id].by = None
        /\ pc = "collect" => ledger'[id].file # None
        /\ pc = "fresh" => ledger'[id].file = None
    <3>1. CASE id \in DOMAIN ledger
      <4>1. old = ledger[id] /\ ledger[id] \in Ledgers(Dispatches)
        BY <3>1, LedgerFacts DEF OnFile
      <4>2. old.lock /\ old.by = None /\ old.file # None
        BY <1>4, <4>1 DEF Wedged, Ledgers
      <4> QED
        BY <2>1, <2>3, <3>1, <4>1, <4>2
    <3>2. CASE id \notin DOMAIN ledger
      <4>1. old.lock = FALSE
        BY <3>2 DEF OnFile, Unclaimed
      <4> QED
        BY <2>1, <2>3, <3>2, <4>1
    <3> QED
      BY <3>1, <3>2
  <2> HIDE DEF id
  <2>5. v.req.id = id /\ v.pc \in Dispatching /\ v.pc \notin Receipting
    BY <2>1, <2>2 DEF id, Dispatching, Receipting
  <2>6. w # None /\ \A k \in DOMAIN receipt : receipt[k].by # w
    BY <1>1, Own, NoneAssumption DEF Receipting
  <2>7. \A k \in DOMAIN ledger : ledger[k].by # w
    BY <1>1, Own DEF Dispatching
  <2>8. HoldInv'
    BY <1>1, <2>2, <2>3, <2>4, <2>5, <2>6, <2>7, HoldKept
  <2>9. JobInv'
    <3>1. LateJobs' = LateJobs /\ \A i : JobsOf(i)' = JobsOf(i)
      BY <1>1 DEF LateJobs, JobsOf
    <3> QED
      BY <1>2, <2>1, <2>2, <2>3, <2>4, <2>5, <3>1, LedgerFacts, JobsKept DEF Filed
  <2>10. ReceiptInv'
    <3>1. LateResults' = LateResults
      BY <1>1 DEF LateResults
    <3> QED
      BY <1>1, <2>1, <2>2, <3>1, ReceiptsKept
  <2> QED
    BY <1>1, <1>2, <2>1, <2>2, <2>3, <2>8, <2>9, <2>10, LedgerFacts, WorkerQuiet DEF Filed
<1> QED
  BY <1>3, <1>4 DEF ClaimDispatch

LEMMA SaveUnknownStep ==
  ASSUME IInv, NEW w \in Workers, SaveUnknown(w), UNCHANGED engineVars
  PROVE  Engine' /\ Coordinator'
<1> DEFINE id == worker[w].req.id
<1>1. worker[w].pc = "fresh" /\ UNCHANGED <<log, late, jobs, receipt>>
  BY DEF SaveUnknown, forgeVars
<1>2. CASE ledger' = Release(ledger, w) /\ Rest(w)
  BY <1>1, <1>2, RestDoes, Idling DEF Receipting
<1>3. CASE ledger' = [ledger EXCEPT ![id].file = [job |-> None]] /\ To(w, "enqueue")
  <2> DEFINE v == [worker[w] EXCEPT !.pc = "enqueue"]
  <2>1. /\ Works(w, v) /\ v \in WorkerStates /\ v.pc = "enqueue" /\ v.req = worker[w].req
    BY <1>1, <1>3, Stepping DEF Working
  <2> HIDE DEF v
  <2>2. id \in DOMAIN ledger /\ ledger[id].by = w /\ id \in Nat /\ ledger[id].file = None
    BY <1>1, Own, WorkerFacts DEF Dispatching, IInv, JobInv
  <2>3. [job |-> None] \in Dispatches /\ [job |-> None] # None
    <3>1. [job |-> None] \in Dispatches
      BY DEF Dispatches
    <3> QED
      BY <3>1, NoneAssumption
  <2>4. PICK file \in Dispatches : file = [job |-> None] /\ file # None
    BY <2>3
  <2>5. ledger[id] \in Ledgers(Dispatches) /\ ledger' = [ledger EXCEPT ![id] = [ledger[id] EXCEPT !.file = file]]
    BY <1>3, <2>2, <2>4, LedgerFacts
  <2>6. LET e == [ledger[id] EXCEPT !.file = file]
        IN  e \in Ledgers(Dispatches) /\ e.by = w /\ e.file = file
    BY <2>2, <2>5 DEF Ledgers
  <2>7. /\ DOMAIN ledger' = DOMAIN ledger /\ ledger' \in [DOMAIN ledger -> Ledgers(Dispatches)]
        /\ \A k \in DOMAIN ledger \ {id} : ledger'[k] = ledger[k]
        /\ ledger'[id].by = w /\ ledger'[id].file = file
    BY <2>2, <2>5, <2>6, LedgerFacts
  <2>8. NoJob(id)
    BY <2>2 DEF IInv, JobInv
  <2> HIDE DEF id
  <2>9. v.req.id = id /\ v.pc \in Dispatching /\ v.pc \notin Receipting
    BY <2>1 DEF id, Dispatching, Receipting
  <2>10. w # None /\ \A k \in DOMAIN receipt : receipt[k].by # w
    BY <1>1, Own, NoneAssumption DEF Receipting
  <2>11. \A k \in DOMAIN ledger : ledger[k].by = w => k = id
    BY Own DEF id
  <2>12. HoldInv'
    BY <1>1, <2>1, <2>2, <2>7, <2>9, <2>10, <2>11, HoldKept
  <2>13. JobInv'
    <3>1. LateJobs' = LateJobs /\ \A i : JobsOf(i)' = JobsOf(i)
      BY <1>1 DEF LateJobs, JobsOf
    <3> QED
      BY <2>1, <2>2, <2>4, <2>7, <2>8, <2>9, <3>1, LedgerFacts, JobsKept
  <2>14. ReceiptInv'
    <3>1. LateResults' = LateResults
      BY <1>1 DEF LateResults
    <3> QED
      BY <1>1, <2>1, <3>1, ReceiptsKept
  <2> QED
    BY <1>1, <2>1, <2>7, <2>12, <2>13, <2>14, LedgerFacts, WorkerQuiet
<1> QED
  BY <1>2, <1>3 DEF SaveUnknown


LEMMA ObserveStep ==
  ASSUME IInv, NEW w \in Workers, Observe(w), UNCHANGED engineVars
  PROVE  Engine' /\ Coordinator'
<1> DEFINE v == [Resting EXCEPT !.pc = "prepared", !.req = Authorized]
<1>1. /\ worker[w].pc = "rest" /\ UNCHANGED <<log, late, jobs, ledger, receipt>>
      /\ Authorized # None /\ Works(w, v)
  BY DEF Observe, forgeVars, Works
<1>2. PICK i \in At("request") :
         log[i].cmp = Current /\ Authorized = [comment |-> i, id |-> log[i].id, cmp |-> Current]
  <2>1. PICK i : i = RequestFor(Current, None)
    OBVIOUS
  <2>2. i # None /\ Authorized = [comment |-> i, id |-> log[i].id, cmp |-> Current]
    BY <1>1, <2>1 DEF Authorized
  <2>3. i \in At("request") /\ log[i].cmp = Current
    BY <2>1, <2>2, Requested DEF IInv
  <2> QED
    BY <2>2, <2>3
<1>3. i \in Posts /\ log[i] \in Requests /\ i \in Nat
  BY Sequences, Kinds DEF At, Posts, IInv
<1>4. PICK req \in Observed : req = Authorized /\ req # None /\ req.comment = i /\ req.id = log[i].id
                              /\ req.cmp = log[i].cmp
  <2>1. log[i].id \in Nat /\ log[i].cmp \in Comparison
    BY <1>3 DEF Requests
  <2> QED
    BY <1>1, <1>2, <1>3, <2>1 DEF Observed
<1>5. v \in WorkerStates /\ v.pc = "prepared" /\ v.req = req
  BY <1>4 DEF WorkerStates, Resting, Working
<1> HIDE DEF v
<1>6. HoldInv'
  <2>1. /\ \A k \in DOMAIN ledger : ledger[k].by # w
        /\ \A k \in DOMAIN receipt : receipt[k].by # w
    BY <1>1, Own DEF Dispatching, Receipting
  <2>2. v.pc \notin Dispatching \cup Receipting
    BY <1>5 DEF Dispatching, Receipting
  <2>3. /\ \A k \in DOMAIN ledger : ledger'[k].by = IF ledger[k].by = w THEN None ELSE ledger[k].by
        /\ \A k \in DOMAIN receipt : receipt'[k].by = IF receipt[k].by = w THEN None ELSE receipt[k].by
    BY <1>1, <2>1
  <2> QED
    BY <1>1, <1>5, <2>2, <2>3, ReleasedHold
<1>7. JobInv'
  <2>1. LateJobs' = LateJobs /\ \A id : JobsOf(id)' = JobsOf(id)
    BY <1>1 DEF LateJobs, JobsOf
  <2> QED
    BY <1>1, <1>5, <2>1, LedgerFacts, JobsKept
<1>8. ReceiptInv'
  <2>1. LateResults' = LateResults
    BY <1>1 DEF LateResults
  <2> QED
    BY <1>1, <1>5, <2>1, ReceiptsKept
<1> QED
  BY <1>1, <1>3, <1>4, <1>5, <1>6, <1>7, <1>8, LedgerFacts, WorkerQuiet

LEMMA ClaimReceiptStep ==
  ASSUME IInv, NEW w \in Workers, ClaimReceipt(w), UNCHANGED engineVars
  PROVE  Engine' /\ Coordinator'
<1> DEFINE key == worker[w].req.comment
           old == OnFile(receipt, key)
<1>1. worker[w].pc = "receipt" /\ UNCHANGED <<log, late, jobs, ledger>>
  BY DEF ClaimReceipt, forgeVars
<1>2. key \in Nat
  BY <1>1, WorkerFacts
<1>3. CASE Rest(w) /\ UNCHANGED receipt
  BY <1>1, <1>3, RestDoes, Idling DEF Dispatching, Receipting
<1>4. CASE /\ ~Wedged(receipt, key) /\ receipt' = Claimed(receipt, key, w)
           /\ worker' = [worker EXCEPT ![w].pc = "saveReceipt", ![w].match = Published(w) # {}]
  <2> DEFINE v == [worker[w] EXCEPT !.pc = "saveReceipt", !.match = Published(w) # {}]
  <2>1. Works(w, v)
    BY <1>4, WorkerFacts DEF Works
  <2>2. /\ v \in WorkerStates /\ v.pc = "saveReceipt" /\ v.req = worker[w].req
        /\ v.job = worker[w].job
    BY WorkerFacts DEF WorkerStates, Working
  <2> HIDE DEF v
  <2>3. /\ Filed(receipt', Publications)
        /\ \A k : k \in DOMAIN receipt' <=> k \in DOMAIN receipt \/ k = key
        /\ \A k \in DOMAIN receipt : k # key => receipt'[k] = receipt[k]
        /\ receipt'[key].by = w
        /\ receipt'[key].file = IF key \in DOMAIN receipt THEN receipt[key].file ELSE None
    <3> HIDE DEF key
    <3>1. receipt' = Claimed(receipt, key, w)
      BY <1>4
    <3>2. Filed(receipt, Publications)
      BY LedgerFacts DEF Filed
    <3> QED
      BY <1>2, <3>1, <3>2, Claiming
  <2>4. key \in DOMAIN receipt => receipt[key].by = None
    BY <1>4 DEF Wedged, OnFile
  <2> HIDE DEF key
  <2>5. v.req.comment = key /\ v.pc \in Receipting /\ v.pc \notin Dispatching
    BY <2>2 DEF key, Dispatching, Receipting
  <2>6. w # None /\ \A k \in DOMAIN ledger : ledger[k].by # w
    BY <1>1, Own, NoneAssumption DEF Dispatching
  <2>7. \A k \in DOMAIN receipt : receipt[k].by # w
    BY <1>1, Own DEF Receipting
  <2>8. HoldInv'
    BY <1>1, <2>1, <2>2, <2>3, <2>4, <2>5, <2>6, <2>7, HoldKept
  <2>9. JobInv'
    <3>1. LateJobs' = LateJobs /\ \A i : JobsOf(i)' = JobsOf(i)
      BY <1>1 DEF LateJobs, JobsOf
    <3> QED
      BY <1>1, <2>1, <2>2, <3>1, LedgerFacts, JobsKept
  <2>10. ReceiptInv'
    <3>1. LateResults' = LateResults
      BY <1>1 DEF LateResults
    <3>2. /\ \A k \in DOMAIN receipt :
               k \in DOMAIN receipt' /\ (receipt[k].file # None => receipt'[k].file # None)
          /\ \A k \in DOMAIN receipt' : receipt'[k].file = None =>
               k \notin DOMAIN receipt \/ receipt[k].file = None
      BY <2>3
    <3> QED
      BY <1>1, <2>1, <2>2, <3>1, <3>2, ReceiptsKept
  <2>11. v.job \in JobsOf(v.req.id) /\ jobs[v.job].status # "queued"
    BY <1>1, <2>2 DEF IInv, WorkerInv
  <2> QED
    BY <1>1, <2>1, <2>2, <2>3, <2>8, <2>9, <2>10, <2>11, LedgerFacts, WorkerQuiet DEF Filed
<1> QED
  BY <1>3, <1>4 DEF ClaimReceipt

\* A run that ends with a note on the publication it holds.
LEMMA PostedReceipts ==
  ASSUME IInv, NEW w \in Workers, NEW key \in DOMAIN receipt,
         receipt' = Release([receipt EXCEPT ![key].file = "posted"], w)
  PROVE  /\ Filed(receipt', Publications)
         /\ \A k : k \in DOMAIN receipt' <=> k \in DOMAIN receipt
         /\ \A k \in DOMAIN receipt :
               /\ receipt'[k].by = IF receipt[k].by = w THEN None ELSE receipt[k].by
               /\ receipt[k].file # None => receipt'[k].file # None
               /\ k # key => receipt'[k].file = receipt[k].file
         /\ receipt'[key].file # None
<1>1. PICK file \in Publications : file = "posted" /\ file # None
  BY NoneAssumption DEF Publications
<1> DEFINE e == [receipt[key] EXCEPT !.file = file]
<1>2. /\ DOMAIN receipt \subseteq Nat /\ receipt \in [DOMAIN receipt -> Ledgers(Publications)]
      /\ receipt[key] \in Ledgers(Publications)
  BY LedgerFacts
<1>3. e \in Ledgers(Publications) /\ e.by = receipt[key].by /\ e.file = file
  BY <1>1, <1>2 DEF Ledgers
<1>4. [receipt EXCEPT ![key].file = "posted"] = [receipt EXCEPT ![key] = e]
  BY <1>1
<1> HIDE DEF e
<1>5. receipt' = [k \in DOMAIN receipt |->
                     IF k = key THEN IF e.by = w THEN [e EXCEPT !.by = None] ELSE e
                     ELSE IF receipt[k].by = w THEN [receipt[k] EXCEPT !.by = None] ELSE receipt[k]]
  BY <1>4 DEF Release
<1>6. \A x \in Ledgers(Publications) :
         LET y == IF x.by = w THEN [x EXCEPT !.by = None] ELSE x
         IN  /\ y \in Ledgers(Publications) /\ y.file = x.file
             /\ y.by = IF x.by = w THEN None ELSE x.by
  BY DEF Ledgers
<1>7. \A k \in DOMAIN receipt : receipt[k] \in Ledgers(Publications)
  BY <1>2
<1>8. ASSUME NEW k \in DOMAIN receipt
      PROVE  /\ receipt'[k] \in Ledgers(Publications)
             /\ receipt'[k].by = IF receipt[k].by = w THEN None ELSE receipt[k].by
             /\ k # key => receipt'[k].file = receipt[k].file
             /\ k = key => receipt'[k].file = file
  <2>1. PICK x \in Ledgers(Publications) :
           /\ x = (IF k = key THEN e ELSE receipt[k]) /\ x.by = receipt[k].by
           /\ x.file = IF k = key THEN file ELSE receipt[k].file
    BY <1>3, <1>7
  <2>2. receipt'[k] = IF x.by = w THEN [x EXCEPT !.by = None] ELSE x
    BY <1>5, <2>1
  <2> QED
    BY <1>6, <2>1, <2>2
<1>9. receipt' \in [DOMAIN receipt -> Ledgers(Publications)]
  BY <1>5, <1>8
<1>10. Filed(receipt', Publications) /\ \A k : k \in DOMAIN receipt' <=> k \in DOMAIN receipt
  BY <1>2, <1>9 DEF Filed
<1>11. receipt'[key].file # None
  BY <1>1, <1>8
<1>12. \A k \in DOMAIN receipt :
          /\ receipt'[k].by = IF receipt[k].by = w THEN None ELSE receipt[k].by
          /\ receipt[k].file # None => receipt'[k].file # None
          /\ k # key => receipt'[k].file = receipt[k].file
  BY <1>8, <1>11
<1> QED
  BY <1>10, <1>11, <1>12

LEMMA PostedRest ==
  ASSUME IInv, NEW w \in Workers, NEW key \in DOMAIN receipt, NEW v \in WorkerStates, Works(w, v),
         v.pc = "rest", worker[w].pc \in Receipting, UNCHANGED <<engineVars, log, late, jobs, ledger>>,
         receipt' = Release([receipt EXCEPT ![key].file = "posted"], w)
  PROVE  Engine' /\ Coordinator'
<1>1. \A k \in DOMAIN ledger : ledger[k].by # w
  BY Own DEF Dispatching, Receipting
<1>2. DOMAIN receipt' = DOMAIN receipt /\ receipt' \in [DOMAIN receipt -> Ledgers(Publications)]
  BY PostedReceipts DEF Filed
<1>3. \A k \in DOMAIN receipt :
         /\ receipt'[k].by = IF receipt[k].by = w THEN None ELSE receipt[k].by
         /\ receipt[k].file # None => receipt'[k].file # None
  BY PostedReceipts
<1> QED
  BY <1>1, <1>2, <1>3, LedgerFacts, RestStep

LEMMA SaveReceiptStep ==
  ASSUME IInv, NEW w \in Workers, SaveReceipt(w), UNCHANGED engineVars
  PROVE  Engine' /\ Coordinator'
<1> DEFINE key == worker[w].req.comment
<1>1. worker[w].pc = "saveReceipt" /\ UNCHANGED <<log, late, jobs, ledger>>
  BY DEF SaveReceipt, forgeVars
<1>2. /\ key \in DOMAIN receipt /\ receipt[key].by = w /\ key \in Posts
      /\ log[key].id = worker[w].req.id
      /\ \A k \in DOMAIN receipt : receipt[k].by = w => k = key
  BY <1>1, Own, WorkerFacts DEF Receipting
<1>3. "posted" \in Publications /\ "unknown" \in Publications
  BY DEF Publications
<1>4. CASE receipt' = Release(receipt, w) /\ Rest(w)
  BY <1>1, <1>4, RestDoes, Idling DEF Dispatching
<1>5. CASE receipt' = Release([receipt EXCEPT ![key].file = "posted"], w) /\ Rest(w)
  BY <1>1, <1>2, <1>5, RestDoes, PostedRest DEF Receipting
<1>6. CASE MayPost(receipt[key]) /\ receipt' = [receipt EXCEPT ![key].file = "unknown"] /\ To(w, "post")
  <2> DEFINE v == [worker[w] EXCEPT !.pc = "post"]
  <2>1. /\ Works(w, v) /\ v \in WorkerStates /\ v.pc = "post" /\ v.req = worker[w].req
        /\ v.job = worker[w].job
    BY <1>1, <1>6, Stepping DEF Working
  <2> HIDE DEF v
  <2>2. PICK file \in Publications : file = "unknown" /\ file # None
    BY <1>3, NoneAssumption
  <2> HIDE DEF key
  <2>3. /\ Filed(receipt', Publications)
        /\ \A k : k \in DOMAIN receipt' <=> k \in DOMAIN receipt
        /\ \A k \in DOMAIN receipt : k # key => receipt'[k] = receipt[k]
        /\ receipt'[key].by = receipt[key].by /\ receipt'[key].file = file
    <3> DEFINE e == [receipt[key] EXCEPT !.file = file]
    <3>1. /\ DOMAIN receipt \subseteq Nat /\ receipt \in [DOMAIN receipt -> Ledgers(Publications)]
          /\ receipt[key] \in Ledgers(Publications)
      BY <1>2, LedgerFacts
    <3>2. receipt' = [receipt EXCEPT ![key] = e]
      BY <1>6, <2>2
    <3>3. e \in Ledgers(Publications) /\ e.by = receipt[key].by /\ e.file = file
      BY <2>2, <3>1 DEF Ledgers
    <3> HIDE DEF e
    <3> QED
      BY <1>2, <3>1, <3>2, <3>3 DEF Filed
  <2>4. NoResult(worker[w].req.id)
    BY <1>2, <1>6 DEF IInv, ReceiptInv, MayPost
  <2>5. v.req.comment = key /\ v.pc \in Receipting /\ v.pc \notin Dispatching
    BY <2>1 DEF key, Dispatching, Receipting
  <2>6. w # None /\ \A k \in DOMAIN ledger : ledger[k].by # w
    BY <1>1, Own, NoneAssumption DEF Dispatching
  <2>7. HoldInv'
    BY <1>1, <1>2, <2>1, <2>3, <2>5, <2>6, HoldKept DEF Filed
  <2>8. JobInv'
    <3>1. LateJobs' = LateJobs /\ \A i : JobsOf(i)' = JobsOf(i)
      BY <1>1 DEF LateJobs, JobsOf
    <3> QED
      BY <1>1, <2>1, <3>1, LedgerFacts, JobsKept
  <2>9. ReceiptInv'
    <3>1. LateResults' = LateResults
      BY <1>1 DEF LateResults
    <3>2. /\ \A k \in DOMAIN receipt :
               k \in DOMAIN receipt' /\ (receipt[k].file # None => receipt'[k].file # None)
          /\ \A k \in DOMAIN receipt' : receipt'[k].file = None =>
               k \notin DOMAIN receipt \/ receipt[k].file = None
      BY <2>2, <2>3
    <3> QED
      BY <1>1, <2>1, <2>2, <2>3, <2>4, <2>5, <3>1, <3>2, ReceiptsKept
  <2>10. v.job \in JobsOf(v.req.id) /\ jobs[v.job].status # "queued"
    BY <1>1, <2>1 DEF IInv, WorkerInv
  <2> QED
    BY <1>1, <2>1, <2>3, <2>7, <2>8, <2>9, <2>10, LedgerFacts, WorkerQuiet DEF Filed
<1> QED
  BY <1>4, <1>5, <1>6 DEF SaveReceipt


\* What adopting a job does to the ledgers.
LEMMA Adopting ==
  ASSUME IInv, NEW w \in Workers, NEW id \in DOMAIN ledger, ledger[id].by = w,
         ledger[id].file # None, NEW j \in Nat,
         ledger' = Release([ledger EXCEPT ![id].file.job = j], w)
  PROVE  /\ ledger' \in [DOMAIN ledger -> Ledgers(Dispatches)]
         /\ \A k \in DOMAIN ledger :
               /\ ledger'[k].by = IF ledger[k].by = w THEN None ELSE ledger[k].by
               /\ ledger[k].file = None <=> ledger'[k].file = None
               /\ ledger[k].by # w => ledger'[k].file = ledger[k].file
<1> DEFINE file == [ledger[id].file EXCEPT !.job = j]
           e == [ledger[id] EXCEPT !.file = file]
<1>1. /\ ledger[id] \in Ledgers(Dispatches)
      /\ \A k \in DOMAIN ledger : ledger[k] \in Ledgers(Dispatches)
  BY LedgerFacts
<1>2. file \in Dispatches /\ file # None
  <2>1. ledger[id].file \in Dispatches
    BY LedgerFacts
  <2>2. file \in Dispatches
    BY <2>1 DEF Dispatches
  <2> HIDE DEF file
  <2> QED
    BY <2>2, NoneAssumption
<1>3. [ledger EXCEPT ![id].file.job = j] = [ledger EXCEPT ![id] = e]
  OBVIOUS
<1> HIDE DEF file
<1>4. e \in Ledgers(Dispatches) /\ e.by = w /\ e.file = file
  BY <1>1, <1>2 DEF Ledgers
<1> HIDE DEF e
<1>5. ledger' = [k \in DOMAIN ledger |->
                    IF k = id THEN IF e.by = w THEN [e EXCEPT !.by = None] ELSE e
                    ELSE IF ledger[k].by = w THEN [ledger[k] EXCEPT !.by = None] ELSE ledger[k]]
  BY <1>3 DEF Release
<1>6. \A x \in Ledgers(Dispatches) :
         LET y == IF x.by = w THEN [x EXCEPT !.by = None] ELSE x
         IN  /\ y \in Ledgers(Dispatches) /\ y.file = x.file
             /\ y.by = IF x.by = w THEN None ELSE x.by
  BY DEF Ledgers
<1>7. ASSUME NEW k \in DOMAIN ledger
      PROVE  /\ ledger'[k] \in Ledgers(Dispatches)
             /\ ledger'[k].by = IF ledger[k].by = w THEN None ELSE ledger[k].by
             /\ ledger'[k].file = IF k = id THEN file ELSE ledger[k].file
  <2>1. PICK x \in Ledgers(Dispatches) :
           /\ x = (IF k = id THEN e ELSE ledger[k]) /\ x.by = ledger[k].by
           /\ x.file = IF k = id THEN file ELSE ledger[k].file
    BY <1>1, <1>4
  <2>2. ledger'[k] = IF x.by = w THEN [x EXCEPT !.by = None] ELSE x
    BY <1>5, <2>1
  <2> QED
    BY <1>6, <2>1, <2>2
<1>8. ledger' \in [DOMAIN ledger -> Ledgers(Dispatches)]
  BY <1>5, <1>7
<1>9. \A k \in DOMAIN ledger :
         /\ ledger'[k].by = IF ledger[k].by = w THEN None ELSE ledger[k].by
         /\ ledger[k].file = None <=> ledger'[k].file = None
         /\ ledger[k].by # w => ledger'[k].file = ledger[k].file
  BY <1>2, <1>7
<1> QED
  BY <1>8, <1>9

\* The job it takes for its own: the only one there is.
LEMMA CollectStep ==
  ASSUME IInv, NEW w \in Workers, Collect(w), UNCHANGED engineVars
  PROVE  Engine' /\ Coordinator'
<1> DEFINE id == worker[w].req.id
           job == CHOOSE j \in JobsOf(id) : TRUE
           ok == Recovers(ledger[id].file, id)
<1>1. worker[w].pc = "collect" /\ UNCHANGED <<log, late, jobs, receipt>>
  BY DEF Collect, forgeVars
<1>2. /\ id \in DOMAIN ledger /\ ledger[id].by = w /\ id \in Nat /\ ledger[id].file # None
      /\ \A k \in DOMAIN receipt : receipt[k].by # w
  BY <1>1, Own, WorkerFacts DEF Dispatching, Receipting, IInv, JobInv
<1>3. CASE ledger' = Release(ledger, w) /\ Rest(w)
  BY <1>1, <1>3, RestDoes, Idling DEF Receipting
<1>4. CASE /\ ok /\ ledger' = Release([ledger EXCEPT ![id].file.job = job], w)
           /\ \/ Rest(w)
              \/ /\ jobs[job].status # "queued"
                 /\ worker' = [worker EXCEPT ![w].pc = "receipt", ![w].job = job]
  <2>1. job \in JobsOf(id)
    <3>1. JobsOf(id) # {}
      <4>1. Cardinality(JobsOf(id)) = 1
        BY <1>4 DEF Recovers
      <4>2. Cardinality({}) = 0
        BY FS_EmptySet, Zenon
      <4> QED
        BY <4>1, <4>2
    <3> QED
      BY <3>1
  <2>2. PICK j \in JobsOf(id) : j = job /\ j \in Nat
    BY <2>1, Sequences DEF JobsOf, IInv
  <2> HIDE DEF job, id
  <2>3. /\ ledger' \in [DOMAIN ledger -> Ledgers(Dispatches)]
        /\ \A k \in DOMAIN ledger :
              /\ ledger'[k].by = IF ledger[k].by = w THEN None ELSE ledger[k].by
              /\ ledger[k].file = None <=> ledger'[k].file = None
              /\ ledger[k].by # w => ledger'[k].file = ledger[k].file
    BY <1>2, <1>4, <2>2, Adopting
  <2>4. CASE Rest(w)
    BY <1>1, <1>2, <2>3, <2>4, RestDoes, LedgerFacts, RestStep
  <2>5. CASE /\ jobs[job].status # "queued"
             /\ worker' = [worker EXCEPT ![w].pc = "receipt", ![w].job = job]
    <3> DEFINE v == [worker[w] EXCEPT !.pc = "receipt", !.job = j]
    <3>1. Works(w, v)
      BY <2>2, <2>5, WorkerFacts DEF Works
    <3>2. v \in WorkerStates /\ v.pc = "receipt" /\ v.req = worker[w].req /\ v.job = j
      BY <2>2, WorkerFacts DEF WorkerStates, Working
    <3> HIDE DEF v
    <3>3. v.job \in JobsOf(v.req.id) /\ jobs[v.job].status # "queued"
      BY <2>2, <2>5, <3>2 DEF id
    <3> QED
      BY <1>1, <1>2, <2>3, <3>1, <3>2, <3>3, LedgerFacts, RestStep
  <2> QED
    BY <1>4, <2>4, <2>5
<1> QED
  BY <1>3, <1>4 DEF Collect


\* The job x of the request that w serves is created, or on its way.
Employs(x) ==
    \/ jobs' = Append(jobs, x) /\ late' = late
    \/ late' = late \cup {x} /\ jobs' = jobs

LEMMA NewJobs ==
  ASSUME IInv, NEW x, x.kind = "job", Employs(x)
  PROVE  /\ \A id : \A j \in JobsOf(id) : j \in JobsOf(id)' /\ jobs'[j] = jobs[j]
         /\ \A id : id # x.id => JobsOf(id)' = JobsOf(id)
         /\ \A y \in LateJobs' : y \in LateJobs \/ y = x
         /\ \A y \in LateJobs : y \in LateJobs'
         /\ LatePosts' = LatePosts /\ LateResults' = LateResults
         /\ JobsOf(x.id) = {} => \A j, k \in JobsOf(x.id)' : j = k
         /\ JobsOf(x.id)' # JobsOf(x.id) => late' = late
<1>1. CASE jobs' = Append(jobs, x) /\ late' = late
  <2> DEFINE n == Len(jobs) + 1
  <2>1. /\ DOMAIN jobs' = DOMAIN jobs \cup {n} /\ n \notin DOMAIN jobs /\ jobs'[n] = x
        /\ \A j \in DOMAIN jobs : jobs'[j] = jobs[j]
    BY <1>1, Sequences, Appending DEF IInv
  <2> HIDE DEF n
  <2>2. LateJobs' = LateJobs /\ LatePosts' = LatePosts /\ LateResults' = LateResults
    BY <1>1 DEF LateJobs, LatePosts, LateResults
  <2>3. \A id : JobsOf(id)' = IF id = x.id THEN JobsOf(id) \cup {n} ELSE JobsOf(id)
    BY <2>1 DEF JobsOf
  <2>4. \A id : \A j \in JobsOf(id) : j \in DOMAIN jobs
    BY DEF JobsOf
  <2> QED
    BY <1>1, <2>1, <2>2, <2>3, <2>4
<1>2. CASE late' = late \cup {x} /\ jobs' = jobs
  <2>1. /\ LateJobs' = LateJobs \cup {x} /\ LatePosts' = LatePosts /\ LateResults' = LateResults
    BY <1>2 DEF LateJobs, LatePosts, LateResults
  <2>2. \A id : JobsOf(id)' = JobsOf(id)
    BY <1>2 DEF JobsOf
  <2> QED
    BY <1>2, <2>1, <2>2
<1> QED
  BY <1>1, <1>2 DEF Employs

LEMMA JobGained ==
  ASSUME IInv, NEW x, x.kind = "job", Employs(x), NoJob(x.id)
  PROVE  /\ \A id : OneJobAtMost(id) => OneJobAtMost(id)'
         /\ \A id : id # x.id /\ NoJob(id) => NoJob(id)'
<1>1. \A id : id # x.id /\ NoJob(id) => NoJob(id)'
  BY NewJobs DEF NoJob
<1>2. ASSUME NEW id, id # x.id, OneJobAtMost(id) PROVE OneJobAtMost(id)'
  <2>1. /\ JobsOf(id)' = JobsOf(id)
        /\ \A y \in LateJobs' : y.id = id => y \in LateJobs
    BY <1>2, NewJobs
  <2> QED
    BY <1>2, <2>1 DEF OneJobAtMost
<1>3. OneJobAtMost(x.id)'
  <2>1. JobsOf(x.id) = {} /\ \A y \in LateJobs : y.id # x.id
    BY DEF NoJob
  <2>2. \A j, k \in JobsOf(x.id)' : j = k
    BY <2>1, NewJobs
  <2>3. \A y \in LateJobs' : y.id = x.id => y = x
    BY <2>1, NewJobs
  <2>4. JobsOf(x.id)' # {} => LateJobs' = LateJobs
    <3>1. JobsOf(x.id)' # {} => late' = late
      BY <2>1, NewJobs
    <3> QED
      BY <3>1 DEF LateJobs
  <2>5. /\ \A y, z \in LateJobs' : y.id = x.id /\ z.id = x.id => y = z
        /\ JobsOf(x.id)' # {} => \A y \in LateJobs' : y.id # x.id
    BY <2>1, <2>3, <2>4
  <2> QED
    BY <2>2, <2>5 DEF OneJobAtMost
<1> QED
  BY <1>1, <1>2, <1>3


\* w enqueues x, and knows of it or rests.
LEMMA Employing ==
  ASSUME IInv, NEW w \in Workers, NEW v \in WorkerStates, Works(w, v), NEW x \in Jobs, Employs(x),
         worker[w].pc = "enqueue", x.kind = "job", x.id = worker[w].req.id, x.cmp = worker[w].req.cmp,
         UNCHANGED <<engineVars, log, receipt>>,
         Filed(ledger', Dispatches),
         \A k : k \in DOMAIN ledger' <=> k \in DOMAIN ledger,
         \A k \in DOMAIN ledger : k # x.id => ledger'[k] = ledger[k],
         ledger'[x.id].file # None,
         \/ v.pc = "collect" /\ v.req = worker[w].req /\ ledger'[x.id].by = w
         \/ v.pc = "rest" /\ ledger'[x.id].by = None
  PROVE  Engine' /\ Coordinator'
<1>1. /\ x.id \in DOMAIN ledger /\ ledger[x.id].by = w /\ ledger[x.id].file # None /\ NoJob(x.id)
      /\ \A k \in DOMAIN ledger : ledger[k].by = w => k = x.id
      /\ \A k \in DOMAIN receipt : receipt[k].by # w
      /\ w # None
  <2>1. worker[w].pc \in Dispatching /\ worker[w].pc \notin Receipting
    BY DEF Dispatching, Receipting
  <2>2. ledger[x.id].file # None /\ NoJob(x.id)
    BY DEF IInv, JobInv
  <2> QED
    BY <2>1, <2>2, Own, NoneAssumption
<1>2. worker'[w] = v /\ \A q \in Workers \ {w} : worker'[q] = worker[q]
  BY DEF IInv, Types, DispatchTypes, Works
<1>3. HoldInv'
  <2>1. v.pc \notin Receipting /\ (v.pc \in Dispatching <=> v.pc = "collect")
    BY DEF Dispatching, Receipting
  <2>2. CASE v.pc = "collect"
    BY <1>1, <2>1, <2>2, HoldKept
  <2>3. CASE v.pc = "rest"
    BY <1>1, <2>1, <2>3, HoldKept
  <2> QED
    BY <2>2, <2>3
<1>4. JobInv'
  <2>1. \A id \in Nat : OneJobAtMost(id)'
    BY <1>1, JobGained DEF IInv, JobInv
  <2>2. \A id \in Nat : id \notin DOMAIN ledger' => NoJob(id)'
    BY <1>1, JobGained DEF IInv, JobInv
  <2>3. ASSUME NEW id \in DOMAIN ledger', ledger'[id].file = None PROVE NoJob(id)'
    <3>1. id \in DOMAIN ledger /\ id # x.id /\ ledger[id].file = None
      BY <2>3
    <3>2. NoJob(id)
      BY <3>1 DEF IInv, JobInv
    <3> QED
      BY <1>1, <3>1, <3>2, JobGained
  <2>4. ASSUME NEW q \in Workers
        PROVE  /\ worker'[q].pc = "fresh" => ledger'[worker'[q].req.id].file = None
               /\ worker'[q].pc = "enqueue" => NoJob(worker[q].req.id)'
               /\ worker'[q].pc \in {"enqueue", "collect"} => ledger'[worker'[q].req.id].file # None
    <3>1. CASE q = w
      BY <1>2, <3>1
    <3>2. CASE q # w /\ worker[q].pc \in Dispatching
      <4>1. /\ worker'[q] = worker[q] /\ worker[q].req.id \in DOMAIN ledger
            /\ worker[q].req.id # x.id
        BY <1>1, <1>2, <3>2, Own
      <4>2. ledger'[worker[q].req.id] = ledger[worker[q].req.id]
        BY <4>1
      <4>3. worker[q].pc = "enqueue" => NoJob(worker[q].req.id)'
        <5>1. worker[q].pc = "enqueue" => NoJob(worker[q].req.id)
          BY DEF IInv, JobInv
        <5>2. PICK id : id = worker[q].req.id
          OBVIOUS
        <5>3. worker[q].pc = "enqueue" => NoJob(id)'
          BY <1>1, <4>1, <5>1, <5>2, JobGained
        <5>4. worker'[q].req.id = id
          BY <4>1, <5>2
        <5> QED
          BY <5>3, <5>4
      <4> QED
        BY <4>1, <4>2, <4>3 DEF IInv, JobInv
    <3>3. CASE q # w /\ worker[q].pc \notin Dispatching
      BY <1>2, <3>3 DEF Dispatching
    <3> QED
      BY <3>1, <3>2, <3>3
  <2> QED
    BY <2>1, <2>2, <2>3, <2>4 DEF JobInv
<1>5. /\ Posts' = Posts /\ At("result")' = At("result")
      /\ LatePosts' = LatePosts /\ LateResults' = LateResults
      /\ \A id : \A j \in JobsOf(id) : j \in JobsOf(id)' /\ jobs'[j] = jobs[j]
  <2>1. /\ LatePosts' = LatePosts /\ LateResults' = LateResults
        /\ \A id : \A j \in JobsOf(id) : j \in JobsOf(id)' /\ jobs'[j] = jobs[j]
    BY NewJobs
  <2> QED
    BY <2>1 DEF Posts, At
<1>6. ReceiptInv'
  BY <1>5, ReceiptsKept
<1>7. WorkerInv'
  BY <1>1, <1>5, WorkersKept, WorkerFacts
<1>8. ResultInv'
  BY <1>5, ResultsKept
<1>9. DispatchTypes'
  <2>1. jobs' \in Seq(Jobs)
    <3>1. jobs \in Seq(Jobs)
      BY Sequences DEF IInv
    <3>2. Append(jobs, x) \in Seq(Jobs)
      BY <3>1
    <3> QED
      BY <3>1, <3>2 DEF Employs
  <2> QED
    BY <2>1 DEF IInv, Types, DispatchTypes, Works, Filed
<1>10. Engine'
  <2>1. SamePosts
    BY <1>5 DEF SamePosts
  <2>2. ASSUME NEW f, Named(f) PROVE NamedElsewhere(f)'
    <3>1. NameOK(f, x)
      BY <2>2 DEF Named, NameOK
    <3>2. \A y \in late' : NameOK(f, y)
      BY <2>2, <3>1 DEF Named, Employs
    <3>3. \A j \in DOMAIN jobs' : NameOK(f, jobs'[j])
      <4>1. CASE jobs' = jobs
        BY <2>2, <4>1 DEF Named
      <4>2. CASE jobs' = Append(jobs, x)
        <5>1. \A j \in DOMAIN jobs' : (j \in DOMAIN jobs /\ jobs'[j] = jobs[j]) \/ jobs'[j] = x
          BY <4>2, Sequences, Appending DEF IInv
        <5> QED
          BY <2>2, <3>1, <5>1 DEF Named
      <4> QED
        BY <4>1, <4>2 DEF Employs
    <3>4. \A q \in Workers : worker'[q].pc # "rest" => NameOK(f, worker'[q].req)
      BY <1>2, <2>2 DEF Named
    <3>5. \A i \in Posts' \cup At("result")' : NameOK(f, log'[i])
      BY <1>5, <2>2 DEF Named
    <3> QED
      BY <3>2, <3>3, <3>4, <3>5 DEF NamedElsewhere, NameOK
  <2> QED
    BY <2>1, <2>2, EngineQuiet DEF SameNames
<1> QED
  BY <1>3, <1>4, <1>6, <1>7, <1>8, <1>9, <1>10 DEF Coordinator


LEMMA NewJobTypes ==
  ASSUME NEW req, req.id \in Nat, req.cmp \in Comparison
  PROVE  /\ NewJob(req) \in Jobs /\ NewJob(req).kind = "job"
         /\ NewJob(req).id = req.id /\ NewJob(req).cmp = req.cmp
<1>1. NewJob(req) \in Jobs
  BY DEF NewJob, Jobs
<1>2. /\ NewJob(req).kind = "job"
      /\ NewJob(req).id = req.id /\ NewJob(req).cmp = req.cmp
  BY DEF NewJob
<1> QED
  BY <1>1, <1>2

LEMMA EnqueueStep ==
  ASSUME IInv, NEW w \in Workers, Enqueue(w), UNCHANGED engineVars
  PROVE  Engine' /\ Coordinator'
<1> DEFINE req == worker[w].req
           id == req.id
<1>1. worker[w].pc = "enqueue" /\ UNCHANGED <<log, receipt>>
  BY DEF Enqueue, forgeVars
<1>2. /\ id \in DOMAIN ledger /\ ledger[id].by = w /\ id \in Nat /\ ledger[id].file # None
      /\ req.cmp \in Comparison
  BY <1>1, Own, WorkerFacts DEF Dispatching, IInv, JobInv
<1>3. PICK x \in Jobs : x = NewJob(req) /\ x.kind = "job" /\ x.id = id /\ x.cmp = req.cmp
  BY <1>2, NewJobTypes
<1>4. CASE /\ jobs' = Append(jobs, NewJob(req)) /\ UNCHANGED forgeVars
           /\ ledger' = [ledger EXCEPT ![id].file.job = Len(jobs) + 1]
           /\ To(w, "collect")
  <2>1. Employs(x)
    BY <1>3, <1>4 DEF Employs, forgeVars
  <2> DEFINE v == [worker[w] EXCEPT !.pc = "collect"]
  <2>2. /\ Works(w, v) /\ v \in WorkerStates /\ v.pc = "collect" /\ v.req = req
    BY <1>1, <1>4, Stepping DEF Working
  <2> HIDE DEF v
  <2>3. PICK n \in Nat : n = Len(jobs) + 1
    BY Sequences DEF IInv
  <2> DEFINE file == [ledger[id].file EXCEPT !.job = n]
             e == [ledger[id] EXCEPT !.file = file]
  <2>4. ledger' = [ledger EXCEPT ![id] = e]
    BY <1>4, <2>3
  <2>5. ledger \in [DOMAIN ledger -> Ledgers(Dispatches)] /\ ledger[id] \in Ledgers(Dispatches)
        /\ DOMAIN ledger \subseteq Nat
    BY <1>2, LedgerFacts
  <2>6. file \in Dispatches /\ file # None
    <3>1. ledger[id].file \in Dispatches
      BY <1>2, LedgerFacts
    <3>2. file \in Dispatches
      BY <3>1 DEF Dispatches
    <3> HIDE DEF file
    <3> QED
      BY <3>2, NoneAssumption
  <2> HIDE DEF file
  <2>7. e \in Ledgers(Dispatches) /\ e.by = w /\ e.file # None
    BY <1>2, <2>5, <2>6 DEF Ledgers
  <2> HIDE DEF e, id
  <2>8. /\ Filed(ledger', Dispatches)
        /\ \A k : k \in DOMAIN ledger' <=> k \in DOMAIN ledger
        /\ \A k \in DOMAIN ledger : k # id => ledger'[k] = ledger[k]
        /\ ledger'[id].by = w /\ ledger'[id].file # None
    BY <1>2, <2>4, <2>5, <2>7 DEF Filed
  <2>9. x.id = worker[w].req.id
    BY <1>3 DEF id
  <2> QED
    BY <1>1, <1>3, <2>1, <2>2, <2>8, <2>9, Employing
<1>5. CASE PostLost(NewJob(req)) /\ UNCHANGED jobs /\ ledger' = Release(ledger, w) /\ Rest(w)
  <2>1. Employs(x)
    BY <1>3, <1>5 DEF Employs, PostLost
  <2>2. /\ Works(w, Resting) /\ Resting \in WorkerStates /\ Resting.pc = "rest"
    BY <1>5, RestDoes
  <2>3. Filed(ledger, Dispatches)
    BY LedgerFacts DEF Filed
  <2>4. /\ Filed(ledger', Dispatches)
        /\ \A k : k \in DOMAIN ledger' <=> k \in DOMAIN ledger
        /\ \A k \in DOMAIN ledger : /\ ledger'[k].file = ledger[k].file
                                    /\ ledger'[k].by = IF ledger[k].by = w THEN None ELSE ledger[k].by
    BY <1>5, <2>3, Releasing
  <2>5. \A k \in DOMAIN ledger : k # id => ledger'[k] = ledger[k]
    <3>1. \A k \in DOMAIN ledger : k # id => ledger[k].by # w
      BY Own
    <3> QED
      BY <1>5, <3>1 DEF Release
  <2>6. x.id = worker[w].req.id
    BY <1>3
  <2>7. ledger'[x.id].file # None /\ ledger'[x.id].by = None
    BY <1>2, <1>3, <2>4
  <2>8. \A k \in DOMAIN ledger : k # x.id => ledger'[k] = ledger[k]
    BY <1>3, <2>5
  <2> QED
    BY <1>1, <1>3, <2>1, <2>2, <2>4, <2>6, <2>7, <2>8, Employing
<1> QED
  BY <1>4, <1>5 DEF Enqueue

-----------------------------------------------------------------------------
\* The receipt x is posted, or on its way.
Posting(x) ==
    \/ log' = Append(log, x) /\ late' = late
    \/ late' = late \cup {x} /\ log' = log

LEMMA NewResults ==
  ASSUME IInv, NEW x, x.kind = "result", Posting(x), NoResult(x.id)
  PROVE  /\ Posts' = Posts /\ \A c \in Posts \cup At("result") : log'[c] = log[c]
         /\ \A i \in At("result") : i \in At("result")'
         /\ \A i \in At("result")' : i \in At("result") \/ log'[i] = x
         /\ \A y \in LateResults' : y \in LateResults \/ y = x
         /\ LatePosts' = LatePosts /\ LateJobs' = LateJobs
         /\ \A id : id # x.id /\ NoResult(id) => NoResult(id)'
         /\ \A id : OneResultAtMost(id) => OneResultAtMost(id)'
<1>1. CASE log' = Append(log, x) /\ late' = late
  <2> DEFINE n == Len(log) + 1
  <2>1. /\ Posts' = Posts /\ At("result")' = At("result") \cup {n} /\ log'[n] = x
        /\ n \notin At("result")
        /\ \A c \in Posts \cup At("result") : log'[c] = log[c]
    BY <1>1, Adding DEF Posts, IInv
  <2> HIDE DEF n
  <2>2. LateJobs' = LateJobs /\ LatePosts' = LatePosts /\ LateResults' = LateResults
    BY <1>1 DEF LateJobs, LatePosts, LateResults
  <2>3. \A id : id # x.id /\ NoResult(id) => NoResult(id)'
    BY <2>1, <2>2 DEF NoResult
  <2>4. ASSUME NEW id, OneResultAtMost(id) PROVE OneResultAtMost(id)'
    BY <2>1, <2>2, <2>4 DEF OneResultAtMost, NoResult
  <2> QED
    BY <2>1, <2>2, <2>3, <2>4
<1>2. CASE late' = late \cup {x} /\ log' = log
  <2>1. LateResults' = LateResults \cup {x} /\ LatePosts' = LatePosts /\ LateJobs' = LateJobs
    BY <1>2 DEF LateJobs, LatePosts, LateResults
  <2>2. Posts' = Posts /\ At("result")' = At("result")
    BY <1>2 DEF Posts, At
  <2>3. \A id : id # x.id /\ NoResult(id) => NoResult(id)'
    BY <1>2, <2>1, <2>2 DEF NoResult
  <2>4. ASSUME NEW id, OneResultAtMost(id) PROVE OneResultAtMost(id)'
    BY <1>2, <2>1, <2>2, <2>4 DEF OneResultAtMost, NoResult
  <2> QED
    BY <1>2, <2>1, <2>2, <2>3, <2>4
<1> QED
  BY <1>1, <1>2 DEF Posting


LEMMA ReceiptFacts ==
  ASSUME IInv, NEW w \in Workers, worker[w].pc = "post"
  PROVE  LET x == ReceiptFor(w)
         IN  /\ x \in Receipts /\ x.kind = "result" /\ x.id = worker[w].req.id
             /\ x.cmp = worker[w].req.cmp /\ ReceiptOK(x)
<1> DEFINE x == ReceiptFor(w)
           j == worker[w].job
<1>1. /\ worker[w].req.id \in Nat /\ worker[w].req.cmp \in Comparison
      /\ j \in JobsOf(worker[w].req.id) /\ jobs[j].status # "queued"
  BY WorkerFacts DEF IInv, WorkerInv
<1>2. j \in Nat /\ jobs[j] \in Jobs
  BY <1>1, Sequences DEF IInv, JobsOf
<1>3. jobs[j].status \in {"done", "failed"}
  BY <1>1, <1>2 DEF Jobs
<1>4. jobs[j].clean \in BOOLEAN
  BY <1>2 DEF Jobs
<1>5. x \in Receipts
  BY <1>1, <1>2, <1>3, <1>4 DEF ReceiptFor, Receipts
<1>6. /\ x.kind = "result" /\ x.id = worker[w].req.id /\ x.cmp = worker[w].req.cmp
      /\ x.job = j /\ x.status = jobs[j].status /\ x.clean = jobs[j].clean
  BY Zenon DEF ReceiptFor
<1> HIDE DEF x
<1>7. ReceiptOK(x)
  BY <1>1, <1>6 DEF ReceiptOK
<1> QED
  BY <1>5, <1>6, <1>7 DEF x

\* w posts x and rests.
LEMMA PostingRests ==
  ASSUME IInv, NEW w \in Workers, NEW v \in WorkerStates, Works(w, v), v.pc = "rest",
         NEW x \in Receipts, Posting(x), worker[w].pc = "post",
         x.kind = "result", x.id = worker[w].req.id, x.cmp = worker[w].req.cmp, ReceiptOK(x),
         UNCHANGED <<engineVars, jobs, ledger>>,
         Filed(receipt', Publications),
         \A k : k \in DOMAIN receipt' <=> k \in DOMAIN receipt,
         \A k \in DOMAIN receipt :
            /\ receipt'[k].by = IF receipt[k].by = w THEN None ELSE receipt[k].by
            /\ receipt[k].file # None => receipt'[k].file # None
            /\ k # worker[w].req.comment => receipt'[k].file = receipt[k].file
  PROVE  Engine' /\ Coordinator'
<1> DEFINE key == worker[w].req.comment
<1>1. /\ key \in DOMAIN receipt /\ receipt[key].by = w /\ key \in Posts /\ log[key].id = x.id
      /\ NoResult(x.id) /\ receipt[key].file # None
      /\ \A k \in DOMAIN ledger : ledger[k].by # w
  BY Own, WorkerFacts DEF Dispatching, Receipting, IInv, ReceiptInv
<1>2. worker'[w] = v /\ \A q \in Workers \ {w} : worker'[q] = worker[q]
  BY DEF IInv, Types, DispatchTypes, Works
<1>3. /\ Posts' = Posts /\ \A c \in Posts \cup At("result") : log'[c] = log[c]
      /\ \A i \in At("result") : i \in At("result")'
      /\ \A i \in At("result")' : i \in At("result") \/ log'[i] = x
      /\ \A y \in LateResults' : y \in LateResults \/ y = x
      /\ LatePosts' = LatePosts /\ LateJobs' = LateJobs
      /\ \A id : id # x.id /\ NoResult(id) => NoResult(id)'
      /\ \A id : OneResultAtMost(id) => OneResultAtMost(id)'
  BY <1>1, NewResults
<1>4. \A id : JobsOf(id)' = JobsOf(id)
  BY DEF JobsOf
<1>5. HoldInv'
  <2>1. v.pc \notin Dispatching \cup Receipting
    BY DEF Dispatching, Receipting
  <2>2. \A k \in DOMAIN ledger : ledger'[k].by = IF ledger[k].by = w THEN None ELSE ledger[k].by
    BY <1>1
  <2> QED
    BY <2>1, <2>2, ReleasedHold
<1>6. JobInv'
  BY <1>3, <1>4, LedgerFacts, JobsKept
<1>7. WorkerInv'
  BY <1>3, <1>4, WorkersKept
<1>8. DispatchTypes'
  BY DEF IInv, Types, DispatchTypes, Works, Filed
<1> HIDE DEF key
<1>9. ReceiptInv'
  <2>1. \A id \in Nat : OneResultAtMost(id)'
    BY <1>3 DEF IInv, ReceiptInv
  <2>2. \A c \in Posts : c # key => log[c].id # x.id
    BY <1>1 DEF IInv, RequestInv
  <2>3. ASSUME NEW c \in Posts', c \notin DOMAIN receipt' \/ receipt'[c].file = None
        PROVE  NoResult(log[c].id)'
    <3>1. c \in Posts /\ c # key /\ log'[c] = log[c]
      BY <1>1, <1>3, <2>3
    <3>2. c \notin DOMAIN receipt \/ receipt[c].file = None
      BY <2>3, <3>1 DEF key
    <3>3. NoResult(log[c].id)
      BY <3>1, <3>2 DEF IInv, ReceiptInv
    <3>4. PICK id : id = log[c].id
      OBVIOUS
    <3>5. NoResult(id)'
      BY <1>3, <2>2, <3>1, <3>3, <3>4
    <3> QED
      BY <3>1, <3>4, <3>5
  <2>4. ASSUME NEW q \in Workers, worker'[q].pc = "post"
        PROVE  NoResult(worker[q].req.id)' /\ receipt'[worker'[q].req.comment].file # None
    <3>1. q # w /\ worker'[q] = worker[q]
      BY <1>2, <2>4
    <3>2. /\ worker[q].pc = "post" /\ NoResult(worker[q].req.id)
          /\ worker[q].req.comment \in DOMAIN receipt /\ receipt[worker[q].req.comment].by = q
          /\ receipt[worker[q].req.comment].file # None
          /\ worker[q].req.comment \in Posts /\ log[worker[q].req.comment].id = worker[q].req.id
      BY <2>4, <3>1, Own, WorkerFacts DEF IInv, ReceiptInv, Receipting
    <3>3. worker[q].req.comment # key
      BY <1>1, <3>1, <3>2
    <3>4. PICK id : id = worker[q].req.id
      OBVIOUS
    <3>5. NoResult(id)'
      BY <1>3, <2>2, <3>2, <3>3, <3>4
    <3> QED
      BY <3>1, <3>2, <3>4, <3>5
  <2>5. \A y \in LateResults' : \E c \in Posts' : log'[c].id = y.id
    <3>1. \A y \in LateResults : \E c \in Posts : log[c].id = y.id
      BY DEF IInv, ReceiptInv
    <3> QED
      BY <1>1, <1>3, <3>1
  <2>6. \A i \in At("result")' : \E c \in Posts' : log'[c].id = log'[i].id
    <3>1. \A i \in At("result") : \E c \in Posts : log[c].id = log[i].id
      BY DEF IInv, ReceiptInv
    <3> QED
      BY <1>1, <1>3, <3>1
  <2> QED
    BY <2>1, <2>3, <2>4, <2>5, <2>6 DEF ReceiptInv
<1>10. ResultInv'
  <2>1. ASSUME NEW y, ReceiptOK(y) PROVE ReceiptOK(y)'
    BY <1>4, <2>1 DEF ReceiptOK
  <2>2. ASSUME NEW i \in At("result")' PROVE ReceiptOK(log[i])'
    <3>1. PICK y : y = log'[i]
      OBVIOUS
    <3>2. ReceiptOK(y)
      BY <1>3, <2>2, <3>1 DEF IInv, ResultInv
    <3>3. ReceiptOK(y)'
      BY <2>1, <3>2
    <3> QED
      BY <3>1, <3>3
  <2>3. \A y \in LateResults' : ReceiptOK(y)'
    BY <1>3, <2>1 DEF IInv, ResultInv
  <2> QED
    BY <2>2, <2>3 DEF ResultInv
<1>11. Engine'
  <2>1. SamePosts
    BY <1>3 DEF SamePosts
  <2>2. ASSUME NEW f, Named(f) PROVE NamedElsewhere(f)'
    <3>1. NameOK(f, x)
      BY <2>2 DEF Named, NameOK
    <3>2. \A y \in late' : NameOK(f, y)
      BY <2>2, <3>1 DEF Named, Posting
    <3>3. \A j \in DOMAIN jobs' : NameOK(f, jobs'[j])
      BY <2>2 DEF Named
    <3>4. \A q \in Workers : worker'[q].pc # "rest" => NameOK(f, worker'[q].req)
      BY <1>2, <2>2 DEF Named
    <3>5. \A i \in Posts' \cup At("result")' : NameOK(f, log'[i])
      BY <1>3, <2>2, <3>1 DEF Named
    <3> QED
      BY <3>2, <3>3, <3>4, <3>5 DEF NamedElsewhere, NameOK
  <2> QED
    BY <2>1, <2>2, EngineQuiet DEF SameNames
<1> QED
  BY <1>5, <1>6, <1>7, <1>8, <1>9, <1>10, <1>11 DEF Coordinator


LEMMA PostStep ==
  ASSUME IInv, NEW w \in Workers, Post(w), UNCHANGED engineVars
  PROVE  Engine' /\ Coordinator'
<1> DEFINE key == worker[w].req.comment
<1>1. /\ worker[w].pc = "post" /\ UNCHANGED <<jobs, ledger>>
      /\ Works(w, Resting) /\ Resting \in WorkerStates /\ Resting.pc = "rest"
  BY RestDoes DEF Post
<1>2. PICK x \in Receipts :
         /\ x = ReceiptFor(w) /\ x.kind = "result" /\ x.id = worker[w].req.id
         /\ x.cmp = worker[w].req.cmp /\ ReceiptOK(x)
  BY <1>1, ReceiptFacts
<1>3. key \in DOMAIN receipt
  BY <1>1, Own DEF Receipting
<1>4. Posting(x)
  BY <1>2 DEF Posting, Post, PostLost
<1>5. \/ receipt' = Release([receipt EXCEPT ![key].file = "posted"], w)
      \/ receipt' = Release(receipt, w)
  BY DEF Post
<1>6. /\ Filed(receipt', Publications)
      /\ \A k : k \in DOMAIN receipt' <=> k \in DOMAIN receipt
      /\ \A k \in DOMAIN receipt :
            /\ receipt'[k].by = IF receipt[k].by = w THEN None ELSE receipt[k].by
            /\ receipt[k].file # None => receipt'[k].file # None
            /\ k # key => receipt'[k].file = receipt[k].file
  <2>1. CASE receipt' = Release([receipt EXCEPT ![key].file = "posted"], w)
    BY <1>3, <2>1, PostedReceipts
  <2>2. CASE receipt' = Release(receipt, w)
    <3>1. Filed(receipt, Publications)
      BY LedgerFacts DEF Filed
    <3>2. /\ Filed(receipt', Publications)
          /\ \A k : k \in DOMAIN receipt' <=> k \in DOMAIN receipt
          /\ \A k \in DOMAIN receipt : /\ receipt'[k].file = receipt[k].file
                                       /\ receipt'[k].by = IF receipt[k].by = w THEN None ELSE receipt[k].by
      BY <2>2, <3>1, Releasing
    <3> QED
      BY <3>2
  <2> QED
    BY <1>5, <2>1, <2>2
<1> QED
  BY <1>1, <1>2, <1>4, <1>6, PostingRests

-----------------------------------------------------------------------------
(* The daemon, and faults.                                                 *)

LEMMA JobEndsStep ==
  ASSUME IInv, JobEnds, UNCHANGED engineVars
  PROVE  Engine' /\ Coordinator'
<1>1. PICK j \in DOMAIN jobs :
         /\ jobs[j].status = "queued" /\ UNCHANGED <<log, late, ledger, receipt, worker>>
         /\ \/ jobs' = [jobs EXCEPT ![j].status = "done", ![j].clean = TRUE]
            \/ jobs' = [jobs EXCEPT ![j].status = "done"]
            \/ jobs' = [jobs EXCEPT ![j].status = "failed"]
  BY DEF JobEnds
<1>2. jobs[j] \in Jobs /\ jobs \in Seq(Jobs)
  BY Sequences DEF IInv
<1>3. PICK x \in Jobs : /\ jobs' = [jobs EXCEPT ![j] = x]
                        /\ x.id = jobs[j].id /\ x.cmp = jobs[j].cmp /\ x.status # "queued"
  <2>1. CASE jobs' = [jobs EXCEPT ![j].status = "done", ![j].clean = TRUE]
    <3> DEFINE x == [jobs[j] EXCEPT !.status = "done", !.clean = TRUE]
    <3>1. x \in Jobs /\ x.id = jobs[j].id /\ x.cmp = jobs[j].cmp /\ x.status = "done"
      BY <1>2 DEF Jobs
    <3>2. jobs' = [jobs EXCEPT ![j] = x]
      BY <2>1
    <3> HIDE DEF x
    <3> QED
      BY <3>1, <3>2
  <2>2. CASE jobs' = [jobs EXCEPT ![j].status = "done"]
    <3> DEFINE x == [jobs[j] EXCEPT !.status = "done"]
    <3>1. x \in Jobs /\ x.id = jobs[j].id /\ x.cmp = jobs[j].cmp /\ x.status = "done"
      BY <1>2 DEF Jobs
    <3>2. jobs' = [jobs EXCEPT ![j] = x]
      BY <2>2
    <3> HIDE DEF x
    <3> QED
      BY <3>1, <3>2
  <2>3. CASE jobs' = [jobs EXCEPT ![j].status = "failed"]
    <3> DEFINE x == [jobs[j] EXCEPT !.status = "failed"]
    <3>1. x \in Jobs /\ x.id = jobs[j].id /\ x.cmp = jobs[j].cmp /\ x.status = "failed"
      BY <1>2 DEF Jobs
    <3>2. jobs' = [jobs EXCEPT ![j] = x]
      BY <2>3
    <3> HIDE DEF x
    <3> QED
      BY <3>1, <3>2
  <2> QED
    BY <1>1, <2>1, <2>2, <2>3
<1>4. /\ jobs' \in Seq(Jobs) /\ DOMAIN jobs' = DOMAIN jobs /\ jobs'[j] = x
      /\ \A k \in DOMAIN jobs : k # j => jobs'[k] = jobs[k]
  BY <1>2, <1>3
<1>5. \A id : JobsOf(id)' = JobsOf(id)
  BY <1>3, <1>4 DEF JobsOf
<1>6. \A id : \A k \in JobsOf(id) : jobs[k].status # "queued" => jobs'[k] = jobs[k]
  BY <1>1, <1>4 DEF JobsOf
<1>7. /\ Posts' = Posts /\ At("result")' = At("result")
      /\ LateJobs' = LateJobs /\ LateResults' = LateResults
  BY <1>1 DEF Posts, At, LateJobs, LateResults
<1>8. DispatchTypes'
  BY <1>1, <1>4 DEF IInv, Types, DispatchTypes
<1>9. WorkerInv'
  BY <1>1, <1>5, <1>6, <1>7 DEF IInv, WorkerInv
<1>10. HoldInv'
  BY <1>1 DEF IInv, HoldInv
<1>11. JobInv'
  <2>1. \A id : (NoJob(id)' <=> NoJob(id)) /\ (OneJobAtMost(id)' <=> OneJobAtMost(id))
    BY <1>5, <1>7 DEF NoJob, OneJobAtMost
  <2>2. /\ \A id \in Nat : OneJobAtMost(id)'
        /\ \A id \in Nat : id \notin DOMAIN ledger' => NoJob(id)'
        /\ \A id \in DOMAIN ledger' : ledger'[id].file = None => NoJob(id)'
    BY <1>1, <2>1 DEF IInv, JobInv
  <2>3. ASSUME NEW w \in Workers
        PROVE  /\ worker'[w].pc = "fresh" => ledger'[worker'[w].req.id].file = None
               /\ worker'[w].pc = "enqueue" => NoJob(worker[w].req.id)'
               /\ worker'[w].pc \in {"enqueue", "collect"} => ledger'[worker'[w].req.id].file # None
    <3>1. worker' = worker /\ ledger' = ledger
      BY <1>1
    <3>2. PICK id : id = worker[w].req.id
      OBVIOUS
    <3>3. worker[w].pc = "enqueue" => NoJob(id)'
      BY <2>1, <3>2 DEF IInv, JobInv
    <3> QED
      BY <3>1, <3>2, <3>3 DEF IInv, JobInv
  <2> QED
    BY <2>2, <2>3 DEF JobInv
<1>12. ReceiptInv'
  BY <1>1, <1>7 DEF IInv, ReceiptInv, NoResult, OneResultAtMost
<1>13. ResultInv'
  BY <1>1, <1>5, <1>6, <1>7, ResultsKept
<1>14. Engine'
  <2>1. SamePosts
    BY <1>1 DEF SamePosts, Posts, At, LatePosts
  <2>2. ASSUME NEW f, Named(f) PROVE NamedElsewhere(f)'
    <3>1. \A k \in DOMAIN jobs' : NameOK(f, jobs'[k])
      BY <1>3, <1>4, <2>2 DEF Named, NameOK
    <3> QED
      BY <1>1, <1>7, <2>2, <3>1 DEF Named, NamedElsewhere, NameOK
  <2> QED
    BY <2>1, <2>2, EngineQuiet DEF SameNames
<1> QED
  BY <1>8, <1>9, <1>10, <1>11, <1>12, <1>13, <1>14 DEF Coordinator

LEMMA JobLateStep ==
  ASSUME IInv, JobLate, UNCHANGED engineVars
  PROVE  Engine' /\ Coordinator'
<1>1. PICK x \in late :
         /\ x.kind = "job" /\ jobs' = Append(jobs, x) /\ late' = late \ {x}
         /\ UNCHANGED <<log, ledger, receipt, worker>>
  BY DEF JobLate
<1>2. x \in Jobs
  BY <1>1, Kinds DEF IInv, Types, ForgeTypes
<1> DEFINE n == Len(jobs) + 1
<1>3. /\ DOMAIN jobs' = DOMAIN jobs \cup {n} /\ n \notin DOMAIN jobs /\ jobs'[n] = x
      /\ \A j \in DOMAIN jobs : jobs'[j] = jobs[j]
      /\ jobs' \in Seq(Jobs)
  BY <1>1, <1>2, Sequences, Appending DEF IInv
<1> HIDE DEF n
<1>4. \A id : JobsOf(id)' = IF id = x.id THEN JobsOf(id) \cup {n} ELSE JobsOf(id)
  BY <1>3 DEF JobsOf
<1>5. \A id : \A j \in JobsOf(id) : j \in JobsOf(id)' /\ jobs'[j] = jobs[j]
  BY <1>3, <1>4 DEF JobsOf
<1>6. /\ Posts' = Posts /\ At("result")' = At("result")
      /\ LateJobs' = LateJobs \ {x} /\ x \in LateJobs
      /\ LatePosts' = LatePosts /\ LateResults' = LateResults
  BY <1>1 DEF Posts, At, LateJobs, LatePosts, LateResults
<1>7. DispatchTypes'
  BY <1>1, <1>3 DEF IInv, Types, DispatchTypes
<1>8. WorkerInv'
  BY <1>1, <1>5, <1>6 DEF IInv, WorkerInv
<1>9. HoldInv'
  BY <1>1 DEF IInv, HoldInv
<1>10. JobInv'
  <2>1. \A id : NoJob(id) => NoJob(id)'
    BY <1>4, <1>6 DEF NoJob
  <2>2. ASSUME NEW id \in Nat PROVE OneJobAtMost(id)'
    <3>1. OneJobAtMost(id)
      BY DEF IInv, JobInv
    <3>2. CASE id # x.id
      BY <1>4, <1>6, <3>1, <3>2 DEF OneJobAtMost
    <3>3. CASE id = x.id
      <4>1. JobsOf(id) = {} /\ \A y \in LateJobs : y.id = id => y = x
        BY <1>6, <3>1, <3>3 DEF OneJobAtMost
      <4>2. JobsOf(id)' = {n} /\ \A y \in LateJobs' : y.id # id
        BY <1>4, <1>6, <3>3, <4>1
      <4> QED
        BY <4>2 DEF OneJobAtMost
    <3> QED
      BY <3>2, <3>3
  <2> QED
    BY <1>1, <2>1, <2>2 DEF IInv, JobInv
<1>11. ReceiptInv'
  BY <1>1, <1>6 DEF IInv, ReceiptInv, NoResult, OneResultAtMost
<1>12. ResultInv'
  BY <1>1, <1>5, <1>6, ResultsKept
<1>13. Engine'
  <2>1. SamePosts
    BY <1>1, <1>6 DEF SamePosts
  <2>2. ASSUME NEW f, Named(f) PROVE NamedElsewhere(f)'
    <3>1. \A k \in DOMAIN jobs' : NameOK(f, jobs'[k])
      BY <1>3, <2>2 DEF Named, NameOK
    <3> QED
      BY <1>1, <1>6, <2>2, <3>1 DEF Named, NamedElsewhere, NameOK
  <2> QED
    BY <2>1, <2>2, EngineQuiet DEF SameNames
<1> QED
  BY <1>7, <1>8, <1>9, <1>10, <1>11, <1>12, <1>13 DEF Coordinator

LEMMA CrashWorkerStep ==
  ASSUME IInv, NEW w \in Workers, CrashWorker(w), UNCHANGED engineVars
  PROVE  Engine' /\ Coordinator'
<1>1. /\ Rest(w) /\ UNCHANGED <<log, late, jobs>>
      /\ ledger' = Release(ledger, w) /\ receipt' = Release(receipt, w)
  BY DEF CrashWorker
<1> QED
  BY <1>1, RestDoes, Idling


LEMMA DispatchForge ==
  ASSUME IInv, DispatchNext
  PROVE  ForgeTypes' /\ passing' = passing /\ merged' = merged
<1> USE DEF forgeVars
<1>1. CASE UNCHANGED forgeVars
  BY <1>1 DEF IInv, Types, ForgeTypes
<1>2. ASSUME NEW w \in Workers, Observe(w) \/ ClaimDispatch(w) \/ SaveUnknown(w) \/ Collect(w)
                                \/ ClaimReceipt(w) \/ SaveReceipt(w)
      PROVE  UNCHANGED forgeVars
  BY <1>2, Zenon DEF Observe, ClaimDispatch, SaveUnknown, Collect, ClaimReceipt, SaveReceipt
<1>3. ASSUME NEW w \in Workers, Enqueue(w)
      PROVE  ForgeTypes' /\ passing' = passing /\ merged' = merged
  <2>1. CASE UNCHANGED forgeVars
    BY <1>1, <2>1
  <2>2. CASE PostLost(NewJob(worker[w].req)) /\ UNCHANGED <<provider, pr, log, passing, merged>>
    <3>1. worker[w].req.id \in Nat /\ worker[w].req.cmp \in Comparison
      BY <1>3, WorkerFacts DEF Enqueue
    <3>2. PICK x \in Jobs : x = NewJob(worker[w].req) /\ x.kind = "job"
      BY <3>1, NewJobTypes
    <3>3. Fault /\ late' = late \cup {x}
      BY <2>2, <3>2 DEF PostLost
    <3>4. used' \in [moves : Nat, reviews : Nat, faults : Nat]
      BY <3>3, Faults DEF IInv, Types
    <3> QED
      BY <2>2, <3>2, <3>3, <3>4 DEF IInv, Types, ForgeTypes
  <2> QED
    BY <1>3, <2>1, <2>2, Zenon DEF Enqueue
<1>4. ASSUME NEW w \in Workers, Post(w)
      PROVE  ForgeTypes' /\ passing' = passing /\ merged' = merged
  <2>1. worker[w].pc = "post" /\ UNCHANGED <<provider, pr, passing, merged>>
    BY <1>4 DEF Post
  <2>2. PICK x \in Receipts : x = ReceiptFor(w) /\ x.kind = "result"
    BY <2>1, ReceiptFacts
  <2>3. CASE log' = Append(log, x) /\ UNCHANGED <<late, used>>
    <3>1. log' \in Seq(Comments)
      BY <2>3, Sequences, Appending DEF IInv, Comments
    <3> QED
      BY <2>1, <2>3, <3>1 DEF IInv, Types, ForgeTypes
  <2>4. CASE PostLost(x) /\ UNCHANGED log
    <3>1. Fault /\ late' = late \cup {x}
      BY <2>4 DEF PostLost
    <3>2. used' \in [moves : Nat, reviews : Nat, faults : Nat]
      BY <3>1, Faults DEF IInv, Types
    <3> QED
      BY <2>1, <2>2, <2>4, <3>1, <3>2 DEF IInv, Types, ForgeTypes
  <2> QED
    BY <1>4, <2>2, <2>3, <2>4 DEF Post
<1>5. CASE JobEnds
  <2>1. UNCHANGED <<provider, pr, log, late, passing, merged>>
    BY <1>5 DEF JobEnds
  <2>2. \/ UNCHANGED used
        \/ used.reviews < MaxReviews /\ used' = [used EXCEPT !.reviews = @ + 1]
        \/ Fault
    BY <1>5 DEF JobEnds
  <2>3. used' \in [moves : Nat, reviews : Nat, faults : Nat]
    BY <2>2, Faults DEF IInv, Types, ForgeTypes
  <2> QED
    BY <2>1, <2>3 DEF IInv, Types, ForgeTypes
<1>6. CASE JobLate
  BY <1>6 DEF JobLate, IInv, Types, ForgeTypes
<1>7. ASSUME NEW w \in Workers, CrashWorker(w)
      PROVE  ForgeTypes' /\ passing' = passing /\ merged' = merged
  <2>1. Fault /\ UNCHANGED <<provider, pr, log, late, passing, merged>>
    BY <1>7 DEF CrashWorker
  <2>2. used' \in [moves : Nat, reviews : Nat, faults : Nat]
    BY <2>1, Faults DEF IInv, Types
  <2> QED
    BY <2>1, <2>2 DEF IInv, Types, ForgeTypes
<1>8. ASSUME NEW w \in Workers, Observe(w) \/ WorkerStep(w) \/ CrashWorker(w)
      PROVE  ForgeTypes' /\ passing' = passing /\ merged' = merged
  BY <1>1, <1>2, <1>3, <1>4, <1>7, <1>8, Zenon DEF WorkerStep
<1> QED
  BY <1>5, <1>6, <1>8 DEF DispatchNext

LEMMA DispatchSteps ==
  ASSUME IInv, DispatchNext, UNCHANGED engineVars, Grows
  PROVE  ForgeTypes' /\ Engine' /\ Coordinator' /\ EarnInv'
<1>1. ASSUME NEW w \in Workers, Observe(w) \/ WorkerStep(w) \/ CrashWorker(w)
      PROVE  Engine' /\ Coordinator'
  BY <1>1, ObserveStep, ClaimDispatchStep, SaveUnknownStep, EnqueueStep, CollectStep,
     ClaimReceiptStep, SaveReceiptStep, PostStep, CrashWorkerStep, Zenon DEF WorkerStep
<1>2. Engine' /\ Coordinator'
  BY <1>1, JobEndsStep, JobLateStep, Zenon DEF DispatchNext
<1>3. ForgeTypes' /\ passing' = passing /\ merged' = merged
  BY DispatchForge
<1>4. EarnInv'
  BY <1>3, EarnedStill DEF engineVars
<1> QED
  BY <1>2, <1>3, <1>4

-----------------------------------------------------------------------------
(* The invariant.                                                          *)

LEMMA InitIInv == Init => IInv
<1> SUFFICES ASSUME Init PROVE IInv
  OBVIOUS
<1>1. /\ provider \in Providers /\ pr = [head |-> Opening.head, base |-> Opening.base, open |-> TRUE]
      /\ log = <<>> /\ late = {} /\ merged = None /\ passing = {}
      /\ used = [moves |-> 0, reviews |-> 0, faults |-> 0]
      /\ store = [h \in Hosts |->
                     IF h \in Standing
                     THEN [lock |-> TRUE, anchor |-> TRUE, file |-> FreshJournal]
                     ELSE [lock |-> FALSE, anchor |-> FALSE, file |-> None]]
      /\ holder = [h \in Hosts |-> None] /\ st = [p \in Procs |-> Idle] /\ nextId = 1
      /\ jobs = <<>> /\ ledger = <<>> /\ receipt = <<>> /\ worker = [w \in Workers |-> Resting]
  BY Zenon DEF Init, ForgeInit, EngineInit, DispatchInit
<1>2. /\ \A kind : At(kind) = {} /\ Posts = {} /\ LatePosts = {} /\ LateJobs = {} /\ LateResults = {}
      /\ \A id : JobsOf(id) = {} /\ DOMAIN jobs = {} /\ DOMAIN ledger = {} /\ DOMAIN receipt = {}
  <2>1. /\ \A kind : At(kind) = {}
        /\ DOMAIN jobs = {} /\ DOMAIN ledger = {} /\ DOMAIN receipt = {}
    BY <1>1 DEF At
  <2> QED
    BY <1>1, <2>1 DEF Posts, LatePosts, LateJobs, LateResults, JobsOf
<1>3. /\ \A p \in Procs : /\ st[p] \in States /\ st[p].pc = "idle"
                          /\ st[p].verdict = None /\ st[p].run = None
      /\ \A w \in Workers : worker[w] \in WorkerStates /\ worker[w].pc = "rest"
  BY <1>1, IdleTypes, RestingTypes DEF Idle
<1>4. ForgeTypes
  <2>1. pr \in [head : Heads, base : Bases, open : BOOLEAN]
    BY <1>1, ForgeAssumption
  <2> QED
    BY <1>1, <2>1 DEF ForgeTypes
<1>5. DispatchTypes
  BY <1>1, <1>2, <1>3 DEF DispatchTypes
<1>6. FreshJournal \in Journals /\ FreshJournal.runs = {} /\ FreshJournal # None
  <2>1. FreshJournal \in Journals /\ FreshJournal.runs = {}
    BY DEF FreshJournal, Journals
  <2> QED
    BY <2>1, NoneAssumption
<1>7. \A h \in Hosts :
         /\ store[h] \in [lock : BOOLEAN, anchor : BOOLEAN, file : Journals \cup {None}]
         /\ store[h].file # None => store[h].file.runs = {} /\ store[h].lock
         /\ store[h].anchor => store[h].lock
         /\ holder[h] = None
  <2> HIDE DEF FreshJournal
  <2> QED
    BY <1>1, <1>6
<1>8. EngineTypes
  BY <1>1, <1>3, <1>7 DEF EngineTypes
<1>9. \A p \in Procs : st[p].pc \notin Locked \cup Running \cup Merging
  BY <1>3 DEF Locked, Running, Merging
<1>10. NameInv
  <2>1. PICK f : f = [i \in 1 .. nextId - 1 |-> Current]
    OBVIOUS
  <2>2. f \in [1 .. nextId - 1 -> Comparison]
    BY <1>1, <2>1
  <2>3. Named(f)
    BY <1>1, <1>2, <1>3, <1>7, <1>9, <2>2 DEF Named
  <2> QED
    BY <2>2, <2>3 DEF NameInv
<1>11. EngineInv
  <2>1. LockInv
    BY <1>7, <1>9, HostOf, NoneAssumption DEF LockInv
  <2>2. \A h \in Hosts : JournalOK(h)
    BY <1>7 DEF JournalOK
  <2>3. \A p \in Procs : CommandOK(p)
    BY <1>3, <1>9 DEF CommandOK, Locked, Running
  <2> QED
    BY <1>9, <2>1, <2>2, <2>3 DEF EngineInv
<1>12. RequestInv
  <2>1. \A h \in Hosts : \A id : ~Knows(h, id)
    BY <1>7, <1>9 DEF Knows
  <2> QED
    BY <1>2, <1>3, <1>7, <1>9, <2>1 DEF RequestInv
<1>13. WorkerInv /\ HoldInv
  BY <1>2, <1>3 DEF WorkerInv, HoldInv, Dispatching, Receipting
<1>14. JobInv
  BY <1>2, <1>3 DEF JobInv, OneJobAtMost, NoJob
<1>15. ReceiptInv /\ ResultInv
  BY <1>2, <1>3 DEF ReceiptInv, OneResultAtMost, NoResult, ResultInv
<1>16. EarnInv
  <2>1. \A p \in Procs : st[p].verdict # "Ready"
    BY <1>3, NotReady
  <2> QED
    BY <1>1, <1>9, <2>1 DEF EarnInv
<1> QED
  BY <1>4, <1>5, <1>8, <1>10, <1>11, <1>12, <1>13, <1>14, <1>15, <1>16 DEF IInv, Types


LEMMA NextIInv == IInv /\ [Next]_vars => IInv'
<1> SUFFICES ASSUME IInv, [Next]_vars PROVE IInv'
  OBVIOUS
<1>1. Grows
  BY NextGrows DEF IInv
<1>2. CASE UNCHANGED vars
  <2>1. UNCHANGED <<forgeVars, engineVars, dispatchVars>>
    BY <1>2 DEF vars
  <2>2. ForgeTypes' /\ UNCHANGED <<log, late, jobs, worker, st, passing, merged>>
    BY <2>1 DEF IInv, Types, ForgeTypes, forgeVars, engineVars, dispatchVars
  <2>3. Engine'
    BY <2>1, <2>2, Quiet, EngineQuiet
  <2>4. Coordinator'
    BY <2>1, <2>2, QuietCoordinator
  <2>5. EarnInv'
    BY <1>1, <2>2, EarnedStill
  <2> QED
    BY <2>2, <2>3, <2>4, <2>5 DEF IInv, Types, Engine, Coordinator
<1>3. CASE ForgeNext /\ UNCHANGED <<engineVars, dispatchVars>>
  BY <1>1, <1>3, ForgeSteps DEF IInv, Types, Engine, Coordinator
<1>4. CASE EngineNext /\ UNCHANGED dispatchVars
  BY <1>1, <1>4, EngineSteps, EngineEarned DEF IInv, Types, Engine, Coordinator
<1>5. CASE DispatchNext /\ UNCHANGED engineVars
  BY <1>1, <1>5, DispatchSteps DEF IInv, Types, Engine, Coordinator
<1> QED
  BY <1>2, <1>3, <1>4, <1>5 DEF Next

\* The inductive invariant of the review: identities, locks and journals, requests,
\* ledgers, jobs, receipts and what is earned.
THEOREM Invariance == Spec => []IInv
BY InitIInv, NextIInv, PTL DEF Spec

-----------------------------------------------------------------------------
(* The results.                                                            *)

\* finish_publication and put_merge act on a verdict read earlier: each was reached
\* by reading a completed review of that very comparison, for a published success
\* and a merge of that very head.
THEOREM OnlyTheReviewedSucceeds == Spec => []SuccessIsEarned
<1>1. IInv => SuccessIsEarned
  <2> SUFFICES ASSUME IInv PROVE SuccessIsEarned
    OBVIOUS
  <2>1. /\ \A h \in passing : \E b \in Bases : Reviewed([head |-> h, base |-> b])
        /\ merged # None => \E b \in Bases : Reviewed([head |-> merged.head, base |-> b])
        /\ \A p \in Procs : st[p].pc \in Merging => Reviewed(st[p].cand.cmp)
    BY DEF IInv, EarnInv
  <2>2. \A h \in passing \cup (IF merged = None THEN {} ELSE {merged.head}) :
           \E b \in Bases : Reviewed([head |-> h, base |-> b])
    BY <2>1
  <2>3. \A p \in Procs : st[p].pc = "put" => Reviewed(st[p].cand.cmp)
    BY <2>1 DEF Merging
  <2> QED
    BY <2>2, <2>3 DEF SuccessIsEarned
<1> QED
  BY <1>1, Invariance, PTL

\* A set of which any two elements are equal has at most one.
LEMMA AtMostOne ==
  ASSUME NEW S, \A x, y \in S : x = y
  PROVE  /\ S = {} \/ \E x : S = {x}
         /\ Cardinality(S) \in {0, 1} /\ (S = {} => Cardinality(S) = 0)
<1>1. S = {} \/ \E x : S = {x}
  <2>1. CASE S # {}
    <3>1. PICK x \in S : TRUE
      BY <2>1
    <3>2. S = {x}
      BY <3>1
    <3> QED
      BY <3>2
  <2> QED
    BY <2>1
<1>2. CASE S = {}
  <2>1. Cardinality({}) = 0
    BY FS_EmptySet, Zenon
  <2> QED
    BY <1>1, <1>2, <2>1
<1>3. CASE S # {} /\ \E x : S = {x}
  <2>1. PICK x : S = {x}
    BY <1>3
  <2>2. Cardinality({x}) = 1
    BY FS_Singleton, Zenon
  <2> QED
    BY <1>1, <1>3, <2>1, <2>2
<1> QED
  BY <1>1, <1>2, <1>3

\* Two sets of at most one element together, when one of them is empty.
LEMMA OneInAll ==
  ASSUME NEW S, NEW T, \A x, y \in S : x = y, \A x, y \in T : x = y, S = {} \/ T = {}
  PROVE  Cardinality(S) + Cardinality(T) <= 1
<1>1. /\ Cardinality(S) \in {0, 1} /\ (S = {} => Cardinality(S) = 0)
      /\ Cardinality(T) \in {0, 1} /\ (T = {} => Cardinality(T) = 0)
  BY AtMostOne
<1> QED
  BY <1>1

\* dispatch_roborev_once and publish_receipt_once: the write-ahead ledgers keep a
\* request to one job and one receipt, whatever crashes, lost replies and late calls.
THEOREM OneJobEach == Spec => []OneJob
<1>1. IInv => OneJob
  <2> SUFFICES ASSUME IInv, NEW i \in At("request") \cup At("withdrawn")
               PROVE  /\ Cardinality(JobsOf(log[i].id))
                         + Cardinality({x \in late : x.kind = "job" /\ x.id = log[i].id}) <= 1
                      /\ Cardinality({j \in At("result") : log[j].id = log[i].id})
                         + Cardinality({x \in late : x.kind = "result" /\ x.id = log[i].id}) <= 1
    BY DEF OneJob
  <2>1. PICK id \in Nat : id = log[i].id
    BY Sequences, Kinds DEF IInv, At, Requests
  <2> DEFINE J == JobsOf(id)
             L == {x \in late : x.kind = "job" /\ x.id = id}
             R == {j \in At("result") : log[j].id = id}
             M == {x \in late : x.kind = "result" /\ x.id = id}
  <2>2. OneJobAtMost(id) /\ OneResultAtMost(id)
    BY DEF IInv, JobInv, ReceiptInv
  <2>3. (\A x, y \in J : x = y) /\ (\A x, y \in L : x = y) /\ (J = {} \/ L = {})
    BY <2>2 DEF OneJobAtMost, LateJobs
  <2>4. (\A x, y \in R : x = y) /\ (\A x, y \in M : x = y) /\ (R = {} \/ M = {})
    BY <2>2 DEF OneResultAtMost, LateResults
  <2> HIDE DEF J, L, R, M
  <2>5. Cardinality(J) + Cardinality(L) <= 1 /\ Cardinality(R) + Cardinality(M) <= 1
    BY <2>3, <2>4, OneInAll
  <2> QED
    BY <2>1, <2>5 DEF J, L, R, M
<1> QED
  BY <1>1, Invariance, PTL

\* What the journals say: identities that were allocated, one run of a comparison and
\* of an identity, and a lock that a running command holds.
THEOREM TypeCorrect == Spec => []TypeOK
<1>1. IInv => TypeOK
  <2> SUFFICES ASSUME IInv PROVE TypeOK
    OBVIOUS
  <2>1. pr.head \in Heads /\ pr.base \in Bases /\ merged \in Comparison \cup {None}
    BY DEF IInv, Types, ForgeTypes
  <2>2. ASSUME NEW h \in Hosts, store[h].file # None,
               NEW r \in store[h].file.runs, NEW q \in store[h].file.runs
        PROVE  /\ r.id \in 1 .. nextId /\ r.submission \in {"Unknown", "Submitted", "Deferred"}
               /\ (r.cmp = q.cmp \/ r.id = q.id => r = q)
    <3>1. PICK f \in [1 .. nextId - 1 -> Comparison] : Named(f)
      BY DEF IInv, NameInv
    <3>2. NameOK(f, r) /\ NameOK(f, q)
      BY <2>2, <3>1 DEF Named
    <3>3. r.id \in 1 .. nextId - 1 /\ (r.id = q.id => r.cmp = q.cmp)
      BY <3>2 DEF NameOK
    <3>4. r.cmp = q.cmp => r = q
      BY <2>2 DEF IInv, EngineInv, JournalOK
    <3>5. nextId \in Nat /\ store[h].file \in Journals
      BY <2>2 DEF IInv, Types, EngineTypes
    <3>6. r \in Runs
      BY <2>2, <3>5 DEF Journals
    <3>7. r.id \in 1 .. nextId
      BY <3>3, <3>5
    <3> QED
      BY <3>3, <3>4, <3>6, <3>7 DEF Runs
  <2>3. \A h \in Hosts : holder[h] # None => st[holder[h]].pc # "idle"
    <3> SUFFICES ASSUME NEW h \in Hosts, holder[h] # None PROVE st[holder[h]].pc # "idle"
      OBVIOUS
    <3>1. holder[h] \in Procs /\ Host[holder[h]] = h
      BY DEF IInv, Types, EngineTypes, EngineInv, LockInv
    <3>2. st[holder[h]].pc \in Locked
      BY <3>1 DEF IInv, EngineInv, LockInv
    <3> QED
      BY <3>2 DEF Locked
  <2> QED
    BY <2>1, <2>2, <2>3 DEF TypeOK
<1> QED
  BY <1>1, Invariance, PTL


-----------------------------------------------------------------------------
(* One host asks once.                                                     *)

\* A journal behind a sentinel may be lost, but forgets no identity while it is there.
Remembers ==
    \A h \in Hosts : store[h].anchor =>
        /\ store'[h].anchor
        /\ store'[h].file # None =>
              /\ store[h].file # None
              /\ \A r \in store[h].file.runs : \E q \in store'[h].file.runs : q.id = r.id

LEMMA SaveRunRemembers ==
  ASSUME IInv, NEW p \in Procs, store[Host[p]].file # None, NEW run, SaveRun(Host[p], run)
  PROVE  Remembers
<1> DEFINE h == Host[p]
           runs == {r \in store[h].file.runs : r.id # run.id} \cup {run}
<1>1. h \in Hosts /\ store[h].file \in Journals
      /\ store[h] \in [lock : BOOLEAN, anchor : BOOLEAN, file : Journals \cup {None}]
      /\ store \in [Hosts -> [lock : BOOLEAN, anchor : BOOLEAN, file : Journals \cup {None}]]
  BY StateFacts DEF IInv, Types, EngineTypes
<1>2. store' = [store EXCEPT ![h].file = [store[h].file EXCEPT !.runs = runs]]
  BY DEF SaveRun, Saved
<1>3. \A r \in store[h].file.runs : \E q \in runs : q.id = r.id
  OBVIOUS
<1> HIDE DEF runs
<1>4. /\ store'[h].anchor = store[h].anchor /\ store'[h].file.runs = runs
      /\ \A g \in Hosts \ {h} : store'[g] = store[g]
  BY <1>1, <1>2 DEF Journals
<1> QED
  BY <1>1, <1>3, <1>4 DEF Remembers

LEMMA EngineRemembers ==
  ASSUME IInv, EngineNext
  PROVE  Remembers
<1>1. ASSUME UNCHANGED store PROVE Remembers
  BY <1>1 DEF Remembers
<1>2. ASSUME NEW p \in Procs, SaveJournal(p) PROVE Remembers
  <2>1. st[p].pc \in {"create", "migrate"} /\ store' = Saved(Host[p], store'[Host[p]].file)
    <3>1. st[p].pc \in {"create", "migrate"}
          /\ \E file : store' = Saved(Host[p], file)
      BY <1>2 DEF SaveJournal
    <3>2. PICK file : store' = Saved(Host[p], file)
      BY <3>1
    <3>3. Host[p] \in Hosts /\ store \in [Hosts -> [lock : BOOLEAN, anchor : BOOLEAN, file : Journals \cup {None}]]
          /\ store[Host[p]] \in [lock : BOOLEAN, anchor : BOOLEAN, file : Journals \cup {None}]
      BY StateFacts DEF IInv, Types, EngineTypes
    <3>4. store'[Host[p]].file = file
      BY <3>2, <3>3 DEF Saved
    <3> QED
      BY <3>1, <3>2, <3>4
  <2>2. ~store[Host[p]].anchor
    BY <2>1, StateFacts DEF CommandOK
  <2>3. \A h \in Hosts \ {Host[p]} : store'[h] = store[h]
    BY <2>1 DEF Saved, IInv, Types, EngineTypes
  <2> QED
    BY <2>2, <2>3 DEF Remembers
<1>3. ASSUME NEW p \in Procs, WriteAnchor(p) PROVE Remembers
  <2>1. store' = [store EXCEPT ![Host[p]].anchor = TRUE]
    BY <1>3 DEF WriteAnchor
  <2>2. \A h \in Hosts : store'[h].file = store[h].file /\ (store[h].anchor => store'[h].anchor)
    BY <2>1 DEF IInv, Types, EngineTypes
  <2> QED
    BY <2>2 DEF Remembers
<1>4. ASSUME NEW p \in Procs, InspectRun(p) \/ ReadFails(p) \/ Dispatch(p) \/ Finish(p)
      PROVE  Remembers
  <2>1. /\ st[p].pc \in {"inspect", "dispatch", "finish"}
        /\ UNCHANGED store \/ \E run : SaveRun(Host[p], run)
    BY <1>4, Zenon DEF InspectRun, ReadFails, Dispatch, Finish
  <2>2. store[Host[p]].file # None
    BY <2>1, StateFacts DEF CommandOK, Locked
  <2> QED
    BY <1>1, <2>1, <2>2, SaveRunRemembers
<1>5. ASSUME NEW p \in Procs, NEW cmd, Begin(p, cmd) PROVE Remembers
  <2>1. UNCHANGED store \/ store' = [store EXCEPT ![Host[p]].lock = TRUE]
    BY <1>5 DEF Begin
  <2>2. \A h \in Hosts : store'[h].file = store[h].file /\ store'[h].anchor = store[h].anchor
    BY <2>1 DEF IInv, Types, EngineTypes
  <2> QED
    BY <2>2 DEF Remembers
<1>6. ASSUME NEW p \in Procs, LoseJournal(Host[p]) PROVE Remembers
  <2>1. store' = [store EXCEPT ![Host[p]].file = None]
    BY <1>6 DEF LoseJournal
  <2>2. \A h \in Hosts : /\ store'[h].anchor = store[h].anchor
                         /\ store'[h].file = store[h].file \/ store'[h].file = None
    BY <2>1 DEF IInv, Types, EngineTypes
  <2> QED
    BY <2>2 DEF Remembers
<1>7. ASSUME NEW p \in Procs, \/ Checks(p) \/ Submit(p) \/ Publish(p) \/ Dispose(p)
                              \/ MergeCheck(p) \/ MergeInspect(p) \/ MergeFinal(p) \/ Put(p)
                              \/ Crash(p) \/ StartGate(p)
      PROVE  Remembers
  <2>1. UNCHANGED store
    BY <1>7, Zenon DEF Checks, Submit, Publish, Dispose, MergeCheck, MergeInspect, MergeFinal, Put,
       Crash, StartGate
  <2> QED
    BY <1>1, <2>1
<1>8. ASSUME NEW p \in Procs, Step(p) PROVE Remembers
  BY <1>2, <1>3, <1>4, <1>7, <1>8, Zenon DEF Step
<1>9. ASSUME NEW p \in Faulty, LoseJournal(Host[p]) PROVE Remembers
  BY <1>6, <1>9, EngineAssumption
<1> QED
  BY <1>5, <1>7, <1>8, <1>9, Zenon DEF EngineNext

\* No request that names no identity anew.
LEMMA AskKept ==
  ASSUME IInv, AskInv, Remembers,
         \A id : Asked(id)' => Asked(id),
         \A i, j \in Posts' : log'[i].cmp = log'[j].cmp => i = j,
         \A x, y \in LatePosts' : x.cmp = y.cmp => x = y,
         \A i \in Posts', x \in LatePosts' : log'[i].cmp # x.cmp
  PROVE  AskInv'
<1>1. ASSUME NEW p \in Submitters, NEW id \in Nat, Asked(id)'
      PROVE  /\ store'[Host[p]].anchor
             /\ store'[Host[p]].file # None => \E r \in store'[Host[p]].file.runs : r.id = id
  <2>1. Host[p] \in Hosts
    BY HostOf DEF Submitters
  <2>2. /\ store[Host[p]].anchor
        /\ store[Host[p]].file # None => \E r \in store[Host[p]].file.runs : r.id = id
    BY <1>1 DEF AskInv
  <2> QED
    BY <2>1, <2>2 DEF Remembers
<1> QED
  BY <1>1 DEF AskInv

LEMMA AskStill ==
  ASSUME IInv, AskInv, Remembers, SamePosts
  PROVE  AskInv'
<1>1. \A id : Asked(id)' => Asked(id)
  BY DEF Asked, SamePosts
<1>2. /\ \A i, j \in Posts' : log'[i].cmp = log'[j].cmp => i = j
      /\ \A x, y \in LatePosts' : x.cmp = y.cmp => x = y
      /\ \A i \in Posts', x \in LatePosts' : log'[i].cmp # x.cmp
  BY DEF AskInv, SamePosts
<1> QED
  BY <1>1, <1>2, AskKept


\* What a process is about to ask for was not asked for.
LEMMA NotAskedYet ==
  ASSUME OneSubmittingHost, IInv, AskInv, NEW p \in Procs, st[p].pc = "submit"
  PROVE  /\ \A i \in Posts : log[i].cmp # st[p].run.cmp
         /\ \A x \in LatePosts : x.cmp # st[p].run.cmp
<1> DEFINE h == Host[p]
           run == st[p].run
<1>1. /\ p \in Submitters /\ run \in store[h].file.runs /\ store[h].file # None /\ h \in Hosts
      /\ ~Asked(run.id)
  <2>1. st[p].pc \in Running
    BY DEF Running
  <2>2. RunOK(p) /\ st[p].cmd \in Commands[p] /\ store[h].file # None
    BY <2>1, RunningFacts
  <2>3. run \in store[h].file.runs /\ st[p].cmd \in {"ensure", "merge"}
    BY <2>2 DEF RunOK, AllowSubmit
  <2>4. ~Asked(run.id)
    BY Submitting
  <2> QED
    BY <2>2, <2>3, <2>4, HostOf DEF Submitters
<1>2. PICK f \in [1 .. nextId - 1 -> Comparison] : Named(f)
  BY DEF IInv, NameInv
<1>3. ASSUME NEW x, NameOK(f, x), x.id \in Nat, Asked(x.id)
      PROVE  x.cmp # run.cmp
  <2>1. PICK r \in store[h].file.runs : r.id = x.id
    BY <1>1, <1>3 DEF AskInv
  <2>2. NameOK(f, r) /\ JournalOK(h)
    BY <1>1, <1>2, <2>1 DEF Named, IInv, EngineInv
  <2>3. r.cmp = x.cmp
    BY <1>3, <2>1, <2>2 DEF NameOK
  <2>4. r.cmp = run.cmp => r = run
    BY <1>1, <2>1, <2>2 DEF JournalOK
  <2> QED
    BY <1>1, <1>3, <2>1, <2>3, <2>4
<1>4. ASSUME NEW i \in Posts PROVE log[i].cmp # run.cmp
  <2>1. PICK x : x = log[i]
    OBVIOUS
  <2>2. NameOK(f, x) /\ Asked(x.id)
    BY <1>2, <2>1 DEF Named, Asked
  <2>3. x.id \in Nat
    BY <2>1, Sequences, Kinds DEF IInv, Posts, At, Requests
  <2> QED
    BY <1>3, <2>1, <2>2, <2>3
<1>5. ASSUME NEW x \in LatePosts PROVE x.cmp # run.cmp
  <2>1. NameOK(f, x) /\ Asked(x.id)
    BY <1>2 DEF Named, Asked, LatePosts
  <2>2. x.id \in Nat
    BY Kinds DEF IInv, Types, ForgeTypes, LatePosts, Requests
  <2> QED
    BY <1>3, <2>1, <2>2
<1> QED
  BY <1>4, <1>5

LEMMA AskSubmit ==
  ASSUME OneSubmittingHost, IInv, AskInv, NEW p \in Procs, Submit(p), UNCHANGED dispatchVars
  PROVE  AskInv'
<1> DEFINE x == RequestEntry(st[p].run)
<1>1. /\ st[p].pc = "submit" /\ store' = store /\ x \in Requests
      /\ \/ log' = Append(log, x) /\ late' = late
         \/ UNCHANGED <<log, late>>
         \/ late' = late \cup {x} /\ log' = log
  BY SubmitCases
<1>2. x.kind = "request" /\ x.id = st[p].run.id /\ x.cmp = st[p].run.cmp
  BY DEF RequestEntry
<1>3. Remembers
  BY <1>1 DEF Remembers
<1>4. ~Asked(x.id)
  BY <1>1, <1>2, Submitting
<1>5. /\ \A i \in Posts : log[i].cmp # x.cmp
      /\ \A y \in LatePosts : y.cmp # x.cmp
  BY <1>1, <1>2, NotAskedYet
<1>6. /\ p \in Submitters /\ store[Host[p]].anchor
      /\ st[p].run \in store[Host[p]].file.runs
  <2>1. st[p].pc \in Running
    BY <1>1 DEF Running
  <2>2. RunOK(p) /\ st[p].cmd \in Commands[p] /\ store[Host[p]].anchor
    BY <2>1, RunningFacts
  <2> QED
    BY <1>1, <2>2 DEF RunOK, AllowSubmit, Submitters
<1> HIDE DEF x
<1>7. CASE UNCHANGED <<log, late>>
  <2>1. SamePosts
    BY <1>7 DEF SamePosts, Posts, At, LatePosts
  <2> QED
    BY <1>3, <2>1, AskStill
<1>8. CASE \/ log' = Append(log, x) /\ late' = late
           \/ late' = late \cup {x} /\ log' = log
  <2>1. \A id : Asked(id)' <=> Asked(id) \/ id = x.id
    BY <1>1, <1>2, <1>4, <1>8, PostRequest
  <2>2. ASSUME NEW q \in Submitters, NEW id \in Nat, Asked(id)'
        PROVE  /\ store'[Host[q]].anchor
               /\ store'[Host[q]].file # None => \E r \in store'[Host[q]].file.runs : r.id = id
    <3>1. Host[q] = Host[p]
      BY <1>6 DEF OneSubmittingHost
    <3>2. CASE Asked(id)
      BY <1>1, <2>2, <3>2 DEF AskInv
    <3>3. CASE id = x.id
      BY <1>1, <1>2, <1>6, <3>1, <3>3
    <3> QED
      BY <2>1, <2>2, <3>2, <3>3
  <2>3. /\ \A i, j \in Posts : log[i].cmp = log[j].cmp => i = j
        /\ \A y, z \in LatePosts : y.cmp = z.cmp => y = z
        /\ \A i \in Posts, y \in LatePosts : log[i].cmp # y.cmp
    BY DEF AskInv
  <2>4. /\ \A i, j \in Posts' : log'[i].cmp = log'[j].cmp => i = j
        /\ \A y, z \in LatePosts' : y.cmp = z.cmp => y = z
        /\ \A i \in Posts', y \in LatePosts' : log'[i].cmp # y.cmp
    <3>1. CASE log' = Append(log, x) /\ late' = late
      <4> DEFINE n == Len(log) + 1
      <4>1. /\ Posts' = Posts \cup {n} /\ log'[n] = x /\ LatePosts' = LatePosts
            /\ \A i \in Posts : log'[i] = log[i]
        BY <1>2, <3>1, Adding DEF Posts, LatePosts, IInv
      <4> HIDE DEF n
      <4> QED
        BY <1>5, <2>3, <4>1
    <3>2. CASE late' = late \cup {x} /\ log' = log
      <4>1. Posts' = Posts /\ LatePosts' = LatePosts \cup {x}
        BY <1>2, <3>2 DEF Posts, At, LatePosts
      <4> QED
        BY <1>5, <2>3, <3>2, <4>1
    <3> QED
      BY <1>8, <3>1, <3>2
  <2> QED
    BY <2>2, <2>4 DEF AskInv
<1> QED
  BY <1>1, <1>7, <1>8

LEMMA AskArrive ==
  ASSUME IInv, AskInv, ArriveLate, UNCHANGED <<engineVars, dispatchVars>>
  PROVE  AskInv'
<1>1. PICK x \in late : x.kind # "job" /\ log' = Append(log, x) /\ late' = late \ {x}
  BY DEF ArriveLate
<1>2. Remembers
  BY DEF Remembers, engineVars
<1> DEFINE n == Len(log) + 1
<1>3. \/ /\ Posts' = Posts /\ LatePosts' = LatePosts /\ \A i \in Posts : log'[i] = log[i]
      \/ /\ Posts' = Posts \cup {n} /\ log'[n] = x /\ x \in LatePosts /\ LatePosts' = LatePosts \ {x}
         /\ \A i \in Posts : log'[i] = log[i]
  <2>1. x.kind # "withdrawn"
    BY DEF IInv, Types, ForgeTypes
  <2>2. CASE x.kind = "request"
    BY <1>1, <2>2, Adding DEF Posts, LatePosts, IInv
  <2>3. CASE x.kind # "request"
    BY <1>1, <2>1, <2>3, Adding DEF Posts, LatePosts, IInv
  <2> QED
    BY <2>2, <2>3
<1> HIDE DEF n
<1>4. CASE Posts' = Posts /\ LatePosts' = LatePosts /\ \A i \in Posts : log'[i] = log[i]
  BY <1>2, <1>4, AskStill DEF SamePosts
<1>5. CASE /\ Posts' = Posts \cup {n} /\ log'[n] = x /\ x \in LatePosts /\ LatePosts' = LatePosts \ {x}
           /\ \A i \in Posts : log'[i] = log[i]
  <2>1. /\ \A i, j \in Posts : log[i].cmp = log[j].cmp => i = j
        /\ \A y, z \in LatePosts : y.cmp = z.cmp => y = z
        /\ \A i \in Posts, y \in LatePosts : log[i].cmp # y.cmp
    BY DEF AskInv
  <2>2. \A id : Asked(id)' => Asked(id)
    BY <1>5 DEF Asked
  <2>3. /\ \A i \in Posts : log'[i].cmp # x.cmp
        /\ \A y \in LatePosts' : y \in LatePosts /\ y.cmp # x.cmp
    BY <1>5, <2>1
  <2>4. /\ \A i, j \in Posts' : log'[i].cmp = log'[j].cmp => i = j
        /\ \A y, z \in LatePosts' : y.cmp = z.cmp => y = z
        /\ \A i \in Posts', y \in LatePosts' : log'[i].cmp # y.cmp
    BY <1>5, <2>1, <2>3
  <2> QED
    BY <1>2, <2>2, <2>4, AskKept
<1> QED
  BY <1>3, <1>4, <1>5

\* Every other step leaves the requests where they are.
LEMMA DispatchSamePosts ==
  ASSUME IInv, DispatchNext
  PROVE  SamePosts
<1>1. CASE UNCHANGED <<log, late>>
  BY <1>1 DEF SamePosts, Posts, At, LatePosts
<1>2. ASSUME NEW w \in Workers, Enqueue(w) PROVE SamePosts
  <2>1. CASE PostLost(NewJob(worker[w].req)) /\ log' = log
    <3>1. NewJob(worker[w].req).kind = "job"
      BY DEF NewJob
    <3>2. LatePosts' = LatePosts
      BY <2>1, <3>1 DEF LatePosts, PostLost
    <3> QED
      BY <2>1, <3>2 DEF SamePosts, Posts, At
  <2>2. CASE UNCHANGED <<log, late>>
    BY <1>1, <2>2
  <2> QED
    BY <1>2, <2>1, <2>2, Zenon DEF Enqueue, forgeVars
<1>3. ASSUME NEW w \in Workers, Post(w) PROVE SamePosts
  <2>1. worker[w].pc = "post"
    BY <1>3 DEF Post
  <2>2. PICK x \in Receipts : x = ReceiptFor(w) /\ x.kind = "result"
    BY <2>1, ReceiptFacts
  <2>3. CASE log' = Append(log, x) /\ late' = late
    BY <2>2, <2>3, Adding DEF SamePosts, Posts, LatePosts, IInv
  <2>4. CASE PostLost(x) /\ log' = log
    <3>1. LatePosts' = LatePosts
      BY <2>2, <2>4 DEF LatePosts, PostLost
    <3> QED
      BY <2>4, <3>1 DEF SamePosts, Posts, At
  <2> QED
    BY <1>3, <2>2, <2>3, <2>4 DEF Post
<1>4. CASE JobEnds
  BY <1>1, <1>4 DEF JobEnds
<1>5. CASE JobLate
  <2>1. PICK x \in late : x.kind = "job" /\ late' = late \ {x} /\ log' = log
    BY <1>5 DEF JobLate
  <2> QED
    BY <2>1 DEF SamePosts, Posts, At, LatePosts
<1>6. ASSUME NEW w \in Workers, \/ Observe(w) \/ ClaimDispatch(w) \/ SaveUnknown(w) \/ Collect(w)
                                \/ ClaimReceipt(w) \/ SaveReceipt(w) \/ CrashWorker(w)
      PROVE  SamePosts
  <2>1. UNCHANGED <<log, late>>
    BY <1>6, Zenon DEF Observe, ClaimDispatch, SaveUnknown, Collect, ClaimReceipt, SaveReceipt,
       CrashWorker, forgeVars
  <2> QED
    BY <1>1, <2>1
<1> QED
  BY <1>2, <1>3, <1>4, <1>5, <1>6, Zenon DEF DispatchNext, WorkerStep


LEMMA StoreRemembers == ASSUME UNCHANGED store PROVE Remembers
BY DEF Remembers

LEMMA ForgeAsks ==
  ASSUME IInv, AskInv, ForgeNext, UNCHANGED <<engineVars, dispatchVars>>
  PROVE  AskInv'
<1>1. Types /\ Remembers /\ UNCHANGED <<jobs, worker>>
  BY StoreRemembers DEF IInv, engineVars, dispatchVars
<1>2. CASE Move
  <2>1. UNCHANGED <<log, late>>
    BY <1>2, Zenon DEF Move
  <2> QED
    BY <1>1, <2>1, Quiet, AskStill
<1>3. CASE Withdraw
  <2>1. SamePosts
    BY <1>1, <1>3, Withdrawing
  <2> QED
    BY <1>1, <2>1, AskStill
<1>4. CASE BotReviews
  <2>1. PICK status \in {"done", "failed"}, clean \in BOOLEAN :
           /\ log' = Append(log, [kind |-> "review", head |-> pr.head,
                                  status |-> status, clean |-> clean /\ status = "done"])
           /\ late' = late
    BY <1>4, Zenon DEF BotReviews
  <2>2. PICK x : x = [kind |-> "review", head |-> pr.head,
                      status |-> status, clean |-> clean /\ status = "done"]
    OBVIOUS
  <2>3. x.kind = "review"
    BY <2>2
  <2>4. SamePosts
    BY <1>1, <2>1, <2>2, <2>3, AddingOther
  <2> QED
    BY <1>1, <2>4, AskStill
<1>5. CASE ArriveLate
  BY <1>5, AskArrive
<1> QED
  BY <1>2, <1>3, <1>4, <1>5 DEF ForgeNext

LEMMA EngineAsks ==
  ASSUME OneSubmittingHost, IInv, AskInv, EngineNext, UNCHANGED dispatchVars
  PROVE  AskInv'
<1>1. Types /\ Remembers /\ UNCHANGED <<jobs, worker>>
  BY EngineRemembers DEF IInv, dispatchVars
<1>2. CASE UNCHANGED <<log, late>>
  BY <1>1, <1>2, Quiet, AskStill
<1>3. ASSUME NEW p \in Procs, Submit(p) PROVE AskInv'
  BY <1>3, AskSubmit
<1>4. ASSUME NEW p \in Procs, Dispose(p) PROVE AskInv'
  <2>1. PICK x : x = [kind |-> "disposition", cmp |-> st[p].cand.cmp, review |-> st[p].review.id]
    OBVIOUS
  <2>2. late' = late /\ (log' = log \/ log' = Append(log, x))
    BY <1>4, <2>1, Zenon DEF Dispose
  <2>3. x.kind = "disposition"
    BY <2>1
  <2>4. CASE log' = Append(log, x)
    <3>1. SamePosts
      BY <1>1, <2>2, <2>3, <2>4, AddingOther
    <3> QED
      BY <1>1, <3>1, AskStill
  <2> QED
    BY <1>2, <2>2, <2>4
<1>5. ASSUME NEW p \in Procs,
             \/ StartGate(p) \/ Crash(p) \/ SaveJournal(p) \/ WriteAnchor(p)
             \/ ReadFails(p) \/ Checks(p) \/ Finish(p) \/ Publish(p)
             \/ MergeCheck(p) \/ MergeInspect(p) \/ MergeFinal(p) \/ Put(p)
             \/ \E cmd \in Commands[p] : Begin(p, cmd)
      PROVE  UNCHANGED <<log, late>>
  BY <1>5, Zenon DEF StartGate, Crash, SaveJournal, WriteAnchor, ReadFails, Checks, Finish,
     Publish, MergeCheck, MergeInspect, MergeFinal, Put, Begin, forgeVars
<1>6. ASSUME NEW p \in Procs, InspectRun(p) \/ Dispatch(p) PROVE UNCHANGED <<log, late>>
  BY <1>6, Zenon DEF InspectRun, Dispatch, forgeVars
<1>7. ASSUME NEW p \in Faulty, LoseJournal(Host[p]) PROVE UNCHANGED <<log, late>>
  BY <1>7, Zenon DEF LoseJournal
<1>8. ASSUME NEW p \in Procs, Step(p) PROVE AskInv'
  BY <1>2, <1>3, <1>4, <1>5, <1>6, <1>8, Zenon DEF Step
<1> QED
  BY <1>2, <1>5, <1>7, <1>8, Zenon DEF EngineNext

LEMMA AskStep ==
  ASSUME OneSubmittingHost
  PROVE  IInv /\ AskInv /\ [Next]_vars => AskInv'
<1> SUFFICES ASSUME IInv, AskInv, [Next]_vars PROVE AskInv'
  OBVIOUS
<1>1. CASE UNCHANGED vars
  <2>1. UNCHANGED <<store, log, late, jobs, worker>>
    BY <1>1, Zenon DEF vars, forgeVars, engineVars, dispatchVars
  <2> QED
    BY <2>1, StoreRemembers, Quiet, AskStill
<1>2. CASE ForgeNext /\ UNCHANGED <<engineVars, dispatchVars>>
  BY <1>2, ForgeAsks
<1>3. CASE EngineNext /\ UNCHANGED dispatchVars
  BY <1>3, EngineAsks
<1>4. CASE DispatchNext /\ UNCHANGED engineVars
  <2>1. SamePosts /\ UNCHANGED store
    BY <1>4, DispatchSamePosts DEF engineVars
  <2> QED
    BY <2>1, StoreRemembers, AskStill
<1> QED
  BY <1>1, <1>2, <1>3, <1>4 DEF Next

LEMMA InitAsks == Init => AskInv
<1> SUFFICES ASSUME Init PROVE AskInv
  OBVIOUS
<1>1. log = <<>> /\ late = {}
  BY Zenon DEF Init, ForgeInit
<1>2. Posts = {} /\ LatePosts = {}
  BY <1>1 DEF Posts, At, LatePosts
<1> QED
  BY <1>2 DEF AskInv, Asked

\* submit, and the recovery that reads the forge before it asks: when the processes
\* that may ask share a state directory, a comparison is asked for once, whatever
\* crashes, lost replies, late posts and lost journals its host meets.
THEOREM OneAsk == ASSUME OneSubmittingHost PROVE Spec => []OneRequest
<1>1. AskInv => OneRequest
  <2> SUFFICES ASSUME AskInv, NEW cmp \in Comparison
               PROVE  Cardinality({i \in DOMAIN log : log[i].kind \in {"request", "withdrawn"}
                                                      /\ log[i].cmp = cmp})
                      + Cardinality({x \in late : x.kind = "request" /\ x.cmp = cmp}) <= 1
    BY DEF OneRequest
  <2> DEFINE A == {i \in DOMAIN log : log[i].kind \in {"request", "withdrawn"} /\ log[i].cmp = cmp}
             B == {x \in late : x.kind = "request" /\ x.cmp = cmp}
  <2>1. /\ \A i \in A : i \in Posts /\ log[i].cmp = cmp
        /\ \A x \in B : x \in LatePosts /\ x.cmp = cmp
    BY DEF Posts, At, LatePosts
  <2> HIDE DEF A, B
  <2>2. (\A i, j \in A : i = j) /\ (\A x, y \in B : x = y) /\ (A = {} \/ B = {})
    BY <2>1 DEF AskInv
  <2>3. Cardinality(A) + Cardinality(B) <= 1
    BY <2>2, OneInAll
  <2> QED
    BY <2>3 DEF A, B
<1> QED
  BY <1>1, InitAsks, AskStep, Invariance, PTL DEF Spec

=============================================================================
