---------------------------- MODULE ReviewForge ----------------------------
(***************************************************************************)
(* One pull request as the review engine and the review coordinator see    *)
(* it, through src/review/github.rs and src/review/github/roborev.rs: its  *)
(* comparison, its comments, the checks of its heads, and the evidence the *)
(* two adapters collect from them.                                         *)
(*                                                                         *)
(* A comparison is a head and a base.  Comments are kept in the order of   *)
(* their identifiers, which is also the order of their times; a withdrawn  *)
(* request stays in its place and no longer reads as a request.  A review  *)
(* has findings or is clean.  Every request is by a repository writer and  *)
(* every review by the configured reviewer: anybody else's comments are    *)
(* skipped, and so are not here.  One policy is in force; drafts, and      *)
(* rules other than the required checks, are left out.                     *)
(***************************************************************************)
EXTENDS Naturals, Sequences, FiniteSets, FiniteSetsExt

CONSTANTS
    None,
    Heads, Bases, \* revisions the pull request may show
    Opening,      \* the comparison it is opened with
    UpToDate(_, _), \* the head contains the base
    Providers,    \* adapters a policy may select: "roborev", "greptile"
    MaxMoves,     \* bound: pushes, moves of the base, withdrawn requests, closings
    MaxReviews,   \* bound: reviews the Greptile bot submits, jobs that end with findings
    MaxFaults     \* bound: crashes, failed calls and jobs, lost journals

ASSUME ForgeAssumption ==
    /\ MaxMoves \in Nat /\ MaxReviews \in Nat /\ MaxFaults \in Nat
    /\ Providers \subseteq {"roborev", "greptile"}
    /\ Opening \in [head : Heads, base : Bases] /\ UpToDate(Opening.head, Opening.base)

VARIABLES
    provider, \* the adapter the policy selects
    pr,       \* the pull request
    log,      \* its comments and reviews
    late,     \* calls that were given up and may take effect
    passing,  \* the heads whose last review-policy check is a success
    merged,   \* the comparison that was merged
    used      \* what was spent of the bounds

forgeVars == <<provider, pr, log, late, passing, merged, used>>

Comparison == [head : Heads, base : Bases]
Current == [head |-> pr.head, base |-> pr.base]

ForgeInit ==
    /\ provider \in Providers
    /\ pr = [head |-> Opening.head, base |-> Opening.base, open |-> TRUE]
    /\ log = <<>> /\ late = {} /\ merged = None
    /\ passing = {}
    /\ used = [moves |-> 0, reviews |-> 0, faults |-> 0]

Moved == used.moves < MaxMoves /\ used' = [used EXCEPT !.moves = @ + 1]
Fault == used.faults < MaxFaults /\ used' = [used EXCEPT !.faults = @ + 1]

-----------------------------------------------------------------------------
(* What the adapters read.                                                 *)

At(kind) == {i \in DOMAIN log : log[i].kind = kind}

\* The request in force for a comparison: the last one, or the last one of an
\* identity the caller already has.
RequestFor(cmp, id) ==
    LET found == {i \in At("request") : log[i].cmp = cmp /\ (id = None \/ log[i].id = id)}
    IN  IF found = {} THEN None ELSE Max(found)

\* The last receipt of a request, created after it.
ReceiptOf(request) ==
    {i \in At("result") : log[i].id = log[request].id /\ i > request}

\* The last review of the head, which counts only when submitted after the
\* request: an older one is no substitute.
ReviewOf(cmp, request) ==
    LET found == {i \in At("review") : log[i].head = cmp.head}
    IN  IF found # {} /\ Max(found) > request THEN {Max(found)} ELSE {}

\* The last receipt is taken, whatever it says.
Latest(found) == {Max(found)}

Dispositioned(cmp, review) ==
    \E i \in At("disposition") : log[i].cmp = cmp /\ log[i].review = review

\* What a review says of a comparison: it names the head it saw, its base is the
\* one of its request, and a finding with a disposition no longer counts.
ReviewRead(cmp, request, i) ==
    [id |-> i,
     head |-> IF provider = "roborev" THEN log[i].cmp.head ELSE log[i].head,
     base |-> log[request].cmp.base,
     clean |-> log[i].clean \/ Dispositioned(cmp, i)]

\* inspect: the request in force and its completed review; an unusable one is an
\* error and never hides behind an earlier review.
Inspect(cmp, id) ==
    LET request == RequestFor(cmp, id)
        found == IF request = None THEN {}
                 ELSE IF provider = "roborev" THEN ReceiptOf(request)
                 ELSE ReviewOf(cmp, request)
        last == IF found = {} THEN None ELSE CHOOSE i \in Latest(found) : TRUE
    IN  [request |-> request,
         error |-> last # None /\ log[last].status # "done",
         review |-> IF last = None THEN None ELSE ReviewRead(cmp, request, last)]

Evaluate(cmp, review) ==
    IF review.head # cmp.head \/ review.base # cmp.base THEN "Stale"
    ELSE IF ~review.clean THEN "Findings" ELSE "Ready"

\* checks_required: the policy check and the rest of CI, which runs on its own and
\* may pass at one reading and not at the next.
ChecksPass(head, ci) == head \in passing /\ ci

-----------------------------------------------------------------------------
(* What others do to the pull request.                                     *)

\* A push, an advance or a change of the target branch, a closing, a reopening.
Move ==
    /\ merged = None /\ Moved
    /\ \/ \E head \in Heads \ {pr.head} : pr' = [pr EXCEPT !.head = head]
       \/ \E base \in Bases \ {pr.base} : pr' = [pr EXCEPT !.base = base]
       \/ pr' = [pr EXCEPT !.open = ~@]
    /\ UNCHANGED <<provider, log, late, passing, merged>>

\* The author of a request edits it away or deletes it.
Withdraw ==
    /\ merged = None /\ Moved
    /\ \E i \in At("request") : log' = [log EXCEPT ![i].kind = "withdrawn"]
    /\ UNCHANGED <<provider, pr, late, passing, merged>>

\* Greptile reviews the head it sees, on request or of its own accord.
BotReviews ==
    /\ provider = "greptile" /\ merged = None /\ used.reviews < MaxReviews
    /\ \E status \in {"done", "failed"}, clean \in BOOLEAN :
          log' = Append(log, [kind |-> "review", head |-> pr.head,
                              status |-> status, clean |-> clean /\ status = "done"])
    /\ used' = [used EXCEPT !.reviews = @ + 1]
    /\ UNCHANGED <<provider, pr, late, passing, merged>>

\* A post whose reply was lost takes effect.
ArriveLate ==
    \E x \in late :
        /\ x.kind # "job"
        /\ log' = Append(log, x) /\ late' = late \ {x}
        /\ UNCHANGED <<provider, pr, passing, merged, used>>

ForgeNext == Move \/ Withdraw \/ BotReviews \/ ArriveLate

\* A call that fails in transport or without an answer: it takes effect at once,
\* later, or never.
PostLost(entry) == Fault /\ late' = late \cup {entry}
=============================================================================
