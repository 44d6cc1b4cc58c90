-------------------------- MODULE SnapshotCollector --------------------------
(***************************************************************************)
(* One collection of a pull request by src/orchestration/snapshots.rs,     *)
(* github() or forgejo(): paged reads of its history and checks under one  *)
(* request budget, and a final reading that must agree with the first,     *)
(* while the forge changes between any two requests.                       *)
(*                                                                         *)
(* A target is what is read page by page: a list of the pull request, the  *)
(* inline comments of one of its threads or reviews, or the checks of a    *)
(* head.  A row is an identity and its revision, which stands for all its  *)
(* fields.  A collection publishes its result only when it is done.        *)
(*                                                                         *)
(* The forge is external.  Rows stand in the order of their identities,    *)
(* which are never used twice; checks of a head are replaced and added,    *)
(* never removed.  Changes of the history and pushes set the update time,  *)
(* which counts seconds; changes of checks and of the status do not.       *)
(***************************************************************************)
EXTENDS Naturals, Sequences, FiniteSets, SequencesExt

CONSTANTS
    Providers,   \* forges to read: "github", "forgejo"
    PageSize,    \* 100
    Pages,       \* pages of a full history: 20
    InlineLimit, \* INLINE_LIMIT
    Budget,      \* REQUEST_LIMIT
    Openings,    \* sizes of the pull request at the start
    Base,        \* more rows than any list has at the start
    MaxChanges,  \* bound: changes of the pull request during the collection
    MaxFaults    \* bound: requests that fail

ASSUME CollectorAssumption ==
    /\ Providers \subseteq {"github", "forgejo"}
    /\ {PageSize, Pages, Budget} \subseteq Nat \ {0}
    /\ {InlineLimit, MaxChanges, MaxFaults} \subseteq Nat
ASSUME OpeningAssumption ==
    /\ Base \in Nat
    /\ \A o \in Openings :
           /\ {o.comments, o.reviews, o.checks} \subseteq 0 .. Base - 1
           /\ o.inline \in Seq(0 .. Base - 1) /\ Len(o.inline) < Base

VARIABLES
    provider,
    pull,       \* the pull request: head, update time, and its other fields as status
    lists,      \* its lists: comments, reviews, and on GitHub threads
    inline,     \* the inline comments of its threads (GitHub) or reviews (Forgejo)
    checks,     \* the check contexts of each head
    sameSecond, \* the second of the last update is not over
    changes, faults,
    pc,
    left,       \* requests left: remaining
    first,      \* the pull request as read first
    todo,       \* targets to read before the next phase; the first is being read
    scan,       \* the reading of that target
    peek,       \* what other responses told of targets: counts and first pages
    taken,      \* the targets read completely
    settled,    \* ghost: at the first read the second of the last update was over
    exact       \* ghost: history and checks agreed with the forge at the re-read

forge == <<pull, lists, inline, checks, sameSecond, changes>>
memory == <<left, first, todo, scan, peek, taken>>
ghosts == <<settled, exact>>
vars == <<provider, forge, faults, pc, memory, ghosts>>

-----------------------------------------------------------------------------
(* The forge.                                                              *)

\* The lists of a pull request in the order they are read.
Lists == IF provider = "github" THEN <<"comments", "reviews", "threads">>
                                ELSE <<"reviews", "comments">>

\* The list whose rows have inline comments.
Parent == IF provider = "github" THEN "threads" ELSE "reviews"

Ids(s) == {s[i].id : i \in DOMAIN s}

\* Targets and what the forge has of them; a target may be gone.
Top(l) == <<"list", l>>
Nested(p) == <<"inline", p>>
Checks(h) == <<"checks", h>>

Exists(t) == t[1] = "inline" => t[2] \in DOMAIN inline

Content(t) ==
    CASE t[1] = "list" -> lists[t[2]]
      [] t[1] = "inline" -> inline[t[2]]
      [] OTHER -> checks[t[2]]

\* A page: GitHub's follows the last row the reader has, Forgejo's is found by number.
Passed(s, got) == {i \in DOMAIN s : got # <<>> /\ s[i].id <= Last(got).id}
PageOf(s, got, number) ==
    LET skip == IF provider = "github" THEN Cardinality(Passed(s, got))
                                       ELSE number * PageSize
        more == Len(s) > skip + PageSize
    IN  [rows |-> SubSeq(s, skip + 1, IF more THEN skip + PageSize ELSE Len(s)),
         total |-> Len(s), more |-> more]

\* What a response with these rows of target t tells of other targets: the count of
\* inline comments of each row of the parent list, and on GitHub their first page.
Told(t, rows) ==
    IF t # Top(Parent) THEN <<>>
    ELSE [u \in {Nested(p) : p \in Ids(rows)} |-> PageOf(inline[u[2]], <<>>, 0)]

-----------------------------------------------------------------------------
(* Collection.                                                             *)

\* What is known of targets, and what g tells of others.
Merge(f, g) ==
    [t \in DOMAIN f \cup DOMAIN g |-> IF t \in DOMAIN f THEN f[t] ELSE g[t]]

\* A request costs one of the budget.
Request == left > 0 /\ left' = left - 1

Reading == {"history", "inline", "checks", "recheck"}

\* The next step sends a request.
Asking == pc \in {"start", "fresh"} \/ (pc \in Reading /\ scan.more)

Fail == pc' = "failed" /\ UNCHANGED <<first, todo, scan, peek, taken, ghosts>>

\* The reading of a target before its first request.  A GitHub connection begins
\* with a page that is here already.
Opened(t, told) ==
    IF provider = "github"
    THEN [got |-> told[t].rows, total |-> told[t].total, more |-> told[t].more, pages |-> 0]
    ELSE [got |-> <<>>, total |-> 0, more |-> TRUE, pages |-> 0]

\* Go on to read targets ts, of which told knows.
Read(phase, ts, told) ==
    /\ pc' = phase /\ todo' = ts /\ scan' = Opened(Head(ts), told)

\* The first request: the pull request, on GitHub with all first pages.
Start ==
    /\ pc = "start" /\ Request
    /\ first' = pull
    /\ settled' = ~sameSecond
    /\ peek' = IF provider = "forgejo" THEN <<>>
               ELSE Merge([t \in {Top(l) : l \in Range(Lists)} \cup {Checks(pull.head)} |->
                              PageOf(Content(t), <<>>, 0)],
                          Told(Top(Parent), PageOf(lists[Parent], <<>>, 0).rows))
    /\ Read("history", [i \in DOMAIN Lists |-> Top(Lists[i])], peek')
    /\ UNCHANGED <<provider, forge, faults, taken, exact>>

\* A response that a GitHub connection goes on with.
GithubPage(page) == scan.pages < Pages /\ page.total = scan.total

\* Mutant: without the page that ends a full history.
ForgejoPageOfFullOnes(page) ==
    /\ scan.pages > 0 => page.total = scan.total
    /\ page.total <= PageSize * Pages
    /\ scan.pages < Pages
    /\ Len(page.rows) \in {PageSize, page.total - Len(scan.got)}

\* A response that forge_pages or forge_checks goes on with.
ForgejoPage(page) ==
    /\ scan.pages > 0 => page.total = scan.total
    /\ page.total <= PageSize * Pages
    /\ scan.pages <= Pages
    /\ Len(page.rows) \in {PageSize, page.total - Len(scan.got)}

\* Forgejo's history ends with a page that is not full, its checks with the last row.
ForgejoMore(t, page) ==
    IF t[1] = "checks" THEN Len(scan.got) + Len(page.rows) < page.total
    ELSE ~(/\ Len(scan.got) + Len(page.rows) = page.total
           /\ Len(page.rows) < PageSize \/ scan.pages = Pages)

\* One more page of the target.
NextPage ==
    /\ pc \in Reading /\ scan.more /\ Request
    /\ LET t == Head(todo)
           page == PageOf(Content(t), scan.got, scan.pages)
           good == Exists(t) /\ IF provider = "github" THEN GithubPage(page)
                                                       ELSE ForgejoPage(page)
       IN  \/ /\ good
              /\ scan' = [got |-> scan.got \o page.rows, total |-> page.total,
                          more |-> IF provider = "github" THEN page.more
                                   ELSE ForgejoMore(t, page),
                          pages |-> scan.pages + 1]
              /\ peek' = Merge(peek, Told(t, page.rows))
              /\ UNCHANGED <<pc, first, todo, taken, ghosts>>
           \/ ~good /\ Fail
    /\ UNCHANGED <<provider, forge, faults>>

\* A target is complete: as many rows as declared, none twice, and for the inline
\* comments of a Forgejo review as many as the review counts.
Complete(t) ==
    /\ Len(scan.got) = scan.total
    /\ Cardinality(Ids(scan.got)) = Len(scan.got)
    /\ provider = "forgejo" /\ t[1] = "inline" => Len(scan.got) = peek[t].total
    /\ t[1] = "inline" =>
           \A u \in DOMAIN taken : u[1] = "inline" => Ids(taken[u]) \cap Ids(scan.got) = {}

\* The inline comments to read, in the order of the rows that have them: every thread,
\* but only reviews that count some.
Counted(rows) ==
    {i \in DOMAIN rows : provider = "github" \/ peek[Nested(rows[i].id)].total > 0}
Nth(S, n) == CHOOSE i \in S : Cardinality({j \in S : j < i}) = n - 1
InlineTargets(rows) ==
    [n \in 1 .. Cardinality(Counted(rows)) |-> Nested(rows[Nth(Counted(rows), n)].id)]

\* The inline comments that rows count.
Total(counts) == FoldLeft(LAMBDA m, n : m + n, 0, counts)
InlineTotal(rows) == Total([i \in DOMAIN rows |-> peek[Nested(rows[i].id)].total])

\* What follows the last target of a phase, with the targets read so far.
NextPhase(got) ==
    LET parents == got[Top(Parent)]
    IN  \/ /\ pc = "history" /\ InlineTotal(parents) <= InlineLimit
           /\ IF InlineTargets(parents) # <<>> THEN Read("inline", InlineTargets(parents), peek)
              ELSE Read("checks", <<Checks(first.head)>>, peek)
        \/ pc = "inline" /\ Read("checks", <<Checks(first.head)>>, peek)
        \/ pc = "checks" /\ pc' = "fresh" /\ UNCHANGED <<todo, scan>>

\* The end of a target before the final reading.
Accept ==
    /\ pc \in Reading \ {"recheck"} /\ ~scan.more
    /\ LET got == Merge(taken, [t \in {Head(todo)} |-> scan.got])
           good == /\ Complete(Head(todo))
                   /\ pc = "history" /\ Len(todo) = 1 =>
                          InlineTotal(got[Top(Parent)]) <= InlineLimit
       IN  \/ /\ good
              /\ taken' = got
              /\ IF Len(todo) > 1 THEN Read(pc, Tail(todo), peek) ELSE NextPhase(got)
              /\ UNCHANGED <<first, peek, ghosts>>
           \/ ~good /\ Fail
    /\ UNCHANGED <<provider, forge, faults, left>>

\* Mutant: an agreement that leaves out the update time.
UnmovedButTime ==
    /\ pull.head = first.head /\ pull.status = first.status
    /\ provider = "github" =>
           PageOf(checks[pull.head], <<>>, 0) = peek[Checks(first.head)]

\* The pull request read again agrees with what was read first, on GitHub with the
\* first page of its checks.
Unmoved ==
    /\ pull = first
    /\ provider = "github" =>
           PageOf(checks[pull.head], <<>>, 0) = peek[Checks(first.head)]

\* What was collected is what the forge has now.
HistoryNow ==
    /\ first = pull
    /\ \A l \in Range(Lists) : taken[Top(l)] = lists[l]
    /\ \A p \in DOMAIN inline :
           inline[p] = IF Nested(p) \in DOMAIN taken THEN taken[Nested(p)] ELSE <<>>
ChecksNow == taken[Checks(first.head)] = checks[first.head]

\* The pull request is read again, and after it the checks.
ReadAgain ==
    /\ pc = "fresh" /\ Request
    /\ \/ /\ Unmoved
          /\ Read("recheck", <<Checks(first.head)>>, peek)
          /\ exact' = [history |-> HistoryNow, checks |-> ChecksNow]
          /\ UNCHANGED <<first, peek, taken, settled>>
       \/ ~Unmoved /\ Fail
    /\ UNCHANGED <<provider, forge, faults>>

\* Mutant: as many checks as before.
AsManyChecks == Len(scan.got) = Len(taken[Checks(first.head)])

\* The checks read last are those read before.
SameChecks == scan.got = taken[Checks(first.head)]

\* The collection is published.
Publish ==
    /\ pc = "recheck" /\ ~scan.more
    /\ pc' = IF Complete(Head(todo)) /\ SameChecks THEN "done" ELSE "failed"
    /\ UNCHANGED <<provider, forge, faults, memory, ghosts>>

\* The budget is spent.
Exhausted ==
    /\ left = 0
    /\ Asking
    /\ Fail
    /\ UNCHANGED <<provider, forge, faults, left>>

\* A request fails, or its response is not what the forge's interface says.
Refused ==
    /\ faults < MaxFaults /\ faults' = faults + 1
    /\ Request
    /\ Asking
    /\ Fail
    /\ UNCHANGED <<provider, forge>>

-----------------------------------------------------------------------------
(* Changes of the pull request, between any two requests.                  *)

Change ==
    /\ pc \notin {"start", "done", "failed"}
    /\ changes < MaxChanges /\ changes' = changes + 1
    /\ UNCHANGED <<provider, faults, pc, memory, ghosts>>

\* Identities and revisions of the changes are above those of the start.
Newest == Base * Base + changes
New == [id |-> Newest, rev |-> Newest]

\* The update time after a change now.
Updated == IF sameSecond THEN pull.updated ELSE pull.updated + 1

\* A row is added, deleted or edited.
Altered(s) ==
    {Append(s, New)} \cup {RemoveAt(s, i) : i \in DOMAIN s}
        \cup {[s EXCEPT ![i].rev = New.rev] : i \in DOMAIN s}

\* A comment, a review or a thread.
ListChanges ==
    /\ Change
    /\ \E l \in Range(Lists) : \E s \in Altered(lists[l]), r \in {<<>>, <<New>>} :
        /\ lists' = [lists EXCEPT ![l] = s]
        /\ inline' = IF l # Parent THEN inline
                     ELSE [p \in Ids(s) |-> IF p \in DOMAIN inline THEN inline[p] ELSE r]
    /\ pull' = [pull EXCEPT !.updated = Updated]
    /\ sameSecond' = TRUE
    /\ UNCHANGED checks

\* An inline comment.
InlineChanges ==
    /\ Change
    /\ \E p \in DOMAIN inline : \E s \in Altered(inline[p]) :
        inline' = [inline EXCEPT ![p] = s]
    /\ pull' = [pull EXCEPT !.updated = Updated]
    /\ sameSecond' = TRUE
    /\ UNCHANGED <<lists, checks>>

\* A push: a new head has no checks.
Push ==
    /\ Change
    /\ pull' = [pull EXCEPT !.updated = Updated, !.head = @ + 1]
    /\ sameSecond' = TRUE
    /\ UNCHANGED <<lists, inline, checks>>

\* Mergeability, permission or another field of the pull request.
StatusChanges ==
    /\ Change
    /\ pull' = [pull EXCEPT !.status = 1 - @]
    /\ UNCHANGED <<lists, inline, checks, sameSecond>>

\* A check of the head is added, or proceeds: GitHub revises the row, Forgejo replaces
\* it by a later one.
CheckChanges ==
    /\ Change
    /\ LET s == checks[pull.head]
       IN  \/ checks' = [checks EXCEPT ![pull.head] = Append(s, New)]
           \/ \E i \in DOMAIN s :
                 checks' = [checks EXCEPT ![pull.head] =
                     IF provider = "github" THEN [s EXCEPT ![i].rev = New.rev]
                     ELSE Append(RemoveAt(s, i), New)]
    /\ UNCHANGED <<pull, lists, inline, sameSecond>>

\* The second of the last update ends.
Tick ==
    /\ sameSecond /\ pc \notin {"done", "failed"}
    /\ sameSecond' = FALSE
    /\ UNCHANGED <<provider, pull, lists, inline, checks, changes, faults, pc, memory, ghosts>>

-----------------------------------------------------------------------------
Collect == Start \/ NextPage \/ Accept \/ ReadAgain \/ Publish \/ Exhausted \/ Refused

Outside == ListChanges \/ InlineChanges \/ Push \/ StatusChanges \/ CheckChanges \/ Tick

Next == Collect \/ Outside

\* n rows whose identities follow base.
Rows(n, base) == [i \in 1 .. n |-> [id |-> base + i, rev |-> 0]]

\* An opening gives the lengths of the lists, the inline comments of each row of the
\* parent list, and the checks.
Init ==
    /\ provider \in Providers
    /\ pull = [head |-> 1, updated |-> 1, status |-> 0]
    /\ sameSecond \in BOOLEAN
    /\ \E o \in Openings :
        /\ lists = [l \in Range(Lists) |->
                       IF l = Parent THEN Rows(Len(o.inline), 0) ELSE Rows(o[l], 0)]
        /\ inline = [p \in 1 .. Len(o.inline) |-> Rows(o.inline[p], Base * p)]
        /\ checks = [h \in 1 .. MaxChanges + 1 |-> IF h = 1 THEN Rows(o.checks, 0) ELSE <<>>]
    /\ changes = 0 /\ faults = 0
    /\ pc = "start" /\ left = Budget
    /\ first = pull /\ todo = <<>> /\ peek = <<>> /\ taken = <<>>
    /\ scan = [got |-> <<>>, total |-> 0, more |-> FALSE, pages |-> 0]
    /\ settled = FALSE /\ exact = [history |-> FALSE, checks |-> FALSE]

Spec == Init /\ [][Next]_vars

-----------------------------------------------------------------------------
(* Properties.                                                             *)

\* What is published is the whole history of the pull request at one instant, the
\* re-read at the end, though every page was read at another: "never a partial snapshot"
\* (ORCHESTRATION.md). Update times have seconds, so this is promised when the second of
\* the last update was over at the first read.
PublishedIsOneInstant == pc = "done" /\ settled => exact.history

\* The published checks are all those of the head at the instant of the re-read, though
\* no update time tells of their changes.
ChecksAreOneInstant == pc = "done" => exact.checks

\* What a collection of an unchanged pull request reads page by page, the checks twice.
Again(h) == <<"again", h>>
Readings == {Top(l) : l \in Range(Lists)} \cup {Nested(p) : p \in DOMAIN inline}
                \cup {Checks(pull.head), Again(pull.head)}

\* There is a request for page k, from 0, of target t: GitHub sends first pages with other
\* responses, Forgejo ends a history with a page that is not full and has no request for
\* the comments of a review without any.
Asked(t, k) ==
    LET n == Len(Content(t))
    IN  IF provider = "github" THEN k > 0 /\ PageSize * k < n
        ELSE CASE t[1] = "list" -> PageSize * k <= n
               [] t[1] = "inline" -> n > 0 /\ PageSize * k <= n
               [] OTHER -> k = 0 \/ PageSize * k < n

\* The requests that collect it: these, and two for the pull request itself.
PageRequests == {r \in Readings \X (0 .. Pages) : Asked(r[1], r[2])}
Cost == 2 + Cardinality(PageRequests)

\* The most rows that are read of a target.
Most == IF provider = "github" THEN PageSize * (Pages + 1) ELSE PageSize * Pages

\* A pull request that is within every limit.
Collectable ==
    /\ \A t \in Readings : Len(Content(t)) <= Most
    /\ Total([i \in DOMAIN lists[Parent] |-> Len(inline[lists[Parent][i].id])]) <= InlineLimit
    /\ Cost <= Budget

\* A pull request that does not change is collected if and only if it is within the
\* limits and the budget, up to and including the last row and the last request.
CollectedIffWithinLimits ==
    pc \in {"done", "failed"} /\ changes = 0 /\ faults = 0 => (pc = "done" <=> Collectable)

=============================================================================
