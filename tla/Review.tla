------------------------------- MODULE Review ------------------------------
(***************************************************************************)
(* The review of one pull request: the engine on its hosts, the            *)
(* coordinator that serves its requests, and the forge between them.       *)
(***************************************************************************)
EXTENDS ReviewEngine, ReviewDispatch

vars == <<forgeVars, engineVars, dispatchVars>>

Init == ForgeInit /\ EngineInit /\ DispatchInit

Next ==
    \/ ForgeNext /\ UNCHANGED <<engineVars, dispatchVars>>
    \/ EngineNext /\ UNCHANGED dispatchVars
    \/ DispatchNext /\ UNCHANGED engineVars

Spec == Init /\ [][Next]_vars

-----------------------------------------------------------------------------
\* The values of comments and jobs, journals and ledgers.
Requests == [kind : {"request", "withdrawn"}, id : Nat, cmp : Comparison]
Receipts == [kind : {"result"}, id : Nat, cmp : Comparison, job : Nat,
             status : {"done", "failed"}, clean : BOOLEAN]
BotReviewed == [kind : {"review"}, head : Heads, status : {"done", "failed"}, clean : BOOLEAN]
Dispositions == [kind : {"disposition"}, cmp : Comparison, review : Nat]
Comments == Requests \cup Receipts \cup BotReviewed \cup Dispositions

Jobs == [kind : {"job"}, id : Nat, cmp : Comparison, status : {"queued", "done", "failed"},
         clean : BOOLEAN]

Candidates == [cmp : Comparison, open : BOOLEAN]
Runs == [id : Nat \cup {None}, cmp : Comparison,
         submission : {"Unknown", "Submitted", "Deferred"}, wait : BOOLEAN]
Reviews == [id : Nat, head : Heads, base : Bases, clean : BOOLEAN]
Journals == [complete : BOOLEAN, runs : SUBSET Runs]
Observed == [comment : Nat, id : Nat, cmp : Comparison]
Verdicts == {"Ready", "Blocked", "Pending", "Findings", "Stale"}
Dispatches == [job : Nat \cup {None}]
Publications == {"unknown", "posted"}

\* An optional field that is present is not the absent one.
ASSUME NoneAssumption ==
    /\ None \notin Nat /\ None \notin Verdicts /\ None \notin Publications
    /\ None \notin Procs /\ None \notin Workers /\ None \notin Comparison
    /\ None \notin Candidates /\ None \notin Runs /\ None \notin Reviews
    /\ None \notin Journals /\ None \notin Observed /\ None \notin Dispatches

-----------------------------------------------------------------------------
\* A journal says no less than what is known: a run that was submitted has its
\* request's identity, no comparison is retained twice, and identities are unique.
TypeOK ==
    /\ pr.head \in Heads /\ pr.base \in Bases
    /\ merged \in Comparison \cup {None}
    /\ \A h \in Hosts : store[h].file # None =>
          \A r, q \in store[h].file.runs :
              /\ r.id \in 1 .. nextId /\ r.submission \in {"Unknown", "Submitted", "Deferred"}
              /\ (r.cmp = q.cmp \/ r.id = q.id => r = q)
    /\ \A h \in Hosts : holder[h] # None => st[holder[h]].pc # "idle"

\* A host asks for a comparison once, whatever crashes, late or lost calls, and
\* lost journals it meets.
OneRequest ==
    \A cmp \in Comparison :
        Cardinality({i \in DOMAIN log : log[i].kind \in {"request", "withdrawn"} /\ log[i].cmp = cmp})
        + Cardinality({x \in late : x.kind = "request" /\ x.cmp = cmp}) <= 1

\* The coordinator gives a request one job and its thread one receipt, although an
\* enqueue or a post whose reply was lost may have arrived or arrive later.
OneJob ==
    \A i \in At("request") \cup At("withdrawn") :
        /\ Cardinality(JobsOf(log[i].id)) + Cardinality({x \in late : x.kind = "job" /\ x.id = log[i].id}) <= 1
        /\ Cardinality({j \in At("result") : log[j].id = log[i].id})
           + Cardinality({x \in late : x.kind = "result" /\ x.id = log[i].id}) <= 1

Clean(i, cmp) == log[i].status = "done" /\ (log[i].clean \/ Dispositioned(cmp, i))

Reviewed(cmp) ==
    \E i \in DOMAIN log :
        IF provider = "roborev"
        THEN /\ log[i].kind = "result" /\ log[i].cmp = cmp /\ Clean(i, cmp)
             /\ jobs[log[i].job].cmp = cmp /\ jobs[log[i].job].status = "done"
        ELSE /\ log[i].kind = "review" /\ log[i].head = cmp.head /\ Clean(i, cmp)

\* A head whose policy check succeeds, and so every head that is merged, was
\* reviewed on some base, and what a merge names after its last reading was reviewed
\* as it was read, head and base: no verdict outlives a move of the pull request
\* between its reads and its publication.
SuccessIsEarned ==
    /\ \A h \in passing \cup (IF merged = None THEN {} ELSE {merged.head}) :
          \E b \in Bases : Reviewed([head |-> h, base |-> b])
    /\ \A p \in Procs : st[p].pc = "put" => Reviewed(st[p].cand.cmp)
=============================================================================
