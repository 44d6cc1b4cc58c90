---------------------- MODULE SnapshotCollector_proofs ----------------------
(***************************************************************************)
(* Proofs about SnapshotCollector for forges, sizes, limits, budgets and   *)
(* numbers of changes of any value: the history and the checks that are    *)
(* published are those of one instant, and a pull request that stays as it *)
(* is is published if and only if it is within the limits and the budget.  *)
(*                                                                         *)
(* History: while the update time is that of the first read, and its       *)
(* second was over then, nothing read has changed since.  Checks: rows are *)
(* read in the order of their identities and revisions never come back, so *)
(* a reading that differs from the forge at the re-read has a row that is  *)
(* gone, or too few rows, and the second reading cannot agree with it.     *)
(* Limits: while nothing has changed, everything read is the forge's, and  *)
(* the requests sent are a set of those that the pull request takes.       *)
(***************************************************************************)
EXTENDS SnapshotCollector, FiniteSetTheorems, SequenceTheorems, TLAPS

-----------------------------------------------------------------------------
(* The inductive invariant.                                                *)

Row == [id : Nat, rev : Nat]
Page == [rows : Seq(Row), total : Nat, more : BOOLEAN]
Reads == [got : Seq(Row), total : Nat, more : BOOLEAN, pages : Nat]
PullRequest == [head : Nat, updated : Nat, status : {0, 1}]

\* Rows that a forge shows before identity n is given out.
Sorted(s) == \A i, j \in DOMAIN s : i < j => s[i].id < s[j].id
Older(s, n) == \A i \in DOMAIN s : s[i].id < n /\ s[i].rev < n
Shown(s, n) == s \in Seq(Row) /\ Sorted(s) /\ Older(s, n)

ForgeInv ==
    /\ provider \in {"github", "forgejo"}
    /\ changes \in 0 .. MaxChanges
    /\ pull \in PullRequest /\ pull.head \in 1 .. changes + 1
    /\ sameSecond \in BOOLEAN
    /\ DOMAIN lists = Range(Lists) /\ \A l \in Range(Lists) : Shown(lists[l], Newest)
    /\ DOMAIN inline = Ids(lists[Parent])
    /\ \A p \in DOMAIN inline : Shown(inline[p], Newest)
    /\ DOMAIN checks = 1 .. MaxChanges + 1
    /\ \A h \in DOMAIN checks : Shown(checks[h], Newest)

Active == {"history", "inline", "checks", "fresh", "recheck"}
Tops == {Top(l) : l \in Range(Lists)}
Contexts == checks[first.head]

\* The update time is that of the first read, after the end of its second.
Quiet == settled /\ pull.updated = first.updated
TimeInv ==
    /\ first \in PullRequest /\ first.head \in DOMAIN checks
    /\ settled => \/ first.updated < pull.updated
                  \/ first.updated = pull.updated /\ ~sameSecond

\* A target of the history.
History(t) == t[1] \in {"list", "inline"} /\ Exists(t)

ToldOf(known, rows) == \A p \in Ids(rows) : Nested(p) \in DOMAIN known

\* What is known of targets.
PeekInv(known) ==
    /\ \A t \in DOMAIN known : known[t] \in Page
    /\ provider = "github" => /\ Tops \cup {Checks(first.head)} \subseteq DOMAIN known
                              /\ ToldOf(known, known[Top(Parent)].rows)
    /\ Checks(first.head) \in DOMAIN known => Shown(known[Checks(first.head)].rows, Newest)

\* What was read.
TakenInv(got, known) ==
    /\ \A t \in DOMAIN got : got[t] \in Seq(Row)
    /\ Top(Parent) \in DOMAIN got => ToldOf(known, got[Top(Parent)])
    /\ Checks(first.head) \in DOMAIN got => Shown(got[Checks(first.head)], Newest)

\* Rows move to the front only: those not read yet follow the ones that are.
Ahead(got, s) == Len(got) <= Len(s) /\ \A i \in DOMAIN got : got[i].id <= s[i].id

\* Reading r of target t.
ScanInv(r, t, known) ==
    /\ r \in Reads
    /\ provider = "forgejo" => IF r.more THEN Len(r.got) = r.pages * PageSize ELSE r.pages > 0
    /\ t = Top(Parent) => ToldOf(known, r.got)
    /\ t = Checks(first.head) =>
           Shown(r.got, Newest) /\ (provider = "forgejo" => Ahead(r.got, Contexts))

\* What a phase reads, and what was read before it.
PhaseTargets(phase, got) ==
    CASE phase = "history" -> Tops
      [] phase = "inline" -> {Nested(p) : p \in Ids(got[Top(Parent)])}
      [] OTHER -> {Checks(first.head)}
PhaseInv(phase, ts, got, known) ==
    /\ ts \in Seq(PhaseTargets(phase, got)) /\ ts # <<>>
    /\ phase = "history" => Tops \subseteq DOMAIN got \cup Range(ts)
    /\ phase # "history" => Tops \subseteq DOMAIN got
    /\ phase # "history" => \A p \in Ids(got[Top(Parent)]) :
           \/ Nested(p) \in DOMAIN got
           \/ phase = "inline" /\ Nested(p) \in Range(ts)
           \/ provider = "forgejo" /\ ~(known[Nested(p)].total > 0)
    /\ phase \in {"fresh", "recheck"} => Checks(first.head) \in DOMAIN got

\* Reading r has the first rows of s.
Prefix(got, s) == Len(got) <= Len(s) /\ got = SubSeq(s, 1, Len(got))
Begins(r, s) ==
    /\ Prefix(r.got, s)
    /\ provider = "github" \/ r.pages > 0 => r.total = Len(s)

\* What is known and read is the history as it is now.
PeekNow(known) == \A t \in DOMAIN known : History(t) => known[t] = PageOf(Content(t), <<>>, 0)
TakenNow(got) == \A t \in DOMAIN got : History(t) => got[t] = Content(t)
ScanNow(r, t) == History(t) => Begins(r, Content(t))
NowInv == Quiet => PeekNow(peek) /\ TakenNow(taken) /\ ScanNow(scan, Head(todo))

\* A check that is not shown, now or later.
Gone(w) == w.rev < Newest /\ \A i \in DOMAIN Contexts : Contexts[i] # w

\* Reading r does not end with these rows.
Differ(r, rows) ==
    \/ \E i \in DOMAIN rows : Gone(rows[i]) /\ \A j \in DOMAIN r.got : r.got[j] # rows[i]
    \/ Len(rows) < IF provider = "forgejo" /\ r.pages = 0 THEN Len(Contexts) ELSE r.total

AgreeInv ==
    /\ pc \in {"recheck", "done"} /\ settled => exact.history
    /\ pc = "recheck" /\ ~exact.checks => Differ(scan, taken[Checks(first.head)])
    /\ pc = "done" => exact.checks

MemoryInv ==
    /\ TimeInv
    /\ PeekInv(peek)
    /\ TakenInv(taken, peek)
    /\ ScanInv(scan, Head(todo), peek)
    /\ PhaseInv(pc, todo, taken, peek)
    /\ NowInv

IInv ==
    /\ pc \in Active \cup {"start", "done", "failed"}
    /\ pc = "start" => first = pull /\ taken = <<>>
    /\ ForgeInv
    /\ pc \in Active => MemoryInv
    /\ AgreeInv

-----------------------------------------------------------------------------
(* Sequences of rows and their pages.                                      *)

\* The rows before a page.
Skip(s, got, number) == IF provider = "github" THEN Cardinality(Passed(s, got))
                                               ELSE number * PageSize

LEMMA UpTo == ASSUME NEW n \in Nat PROVE IsFiniteSet(1 .. n) /\ Cardinality(1 .. n) = n
BY FS_Interval, SMT

LEMMA InitialSegment ==
    ASSUME NEW n \in Nat, NEW P \in SUBSET (1 .. n), \A i \in P : \A j \in 1 .. i : j \in P
    PROVE  Cardinality(P) \in 0 .. n /\ P = 1 .. Cardinality(P)
<1> DEFINE k == Cardinality(P)
<1>1. IsFiniteSet(1 .. n) /\ Cardinality(1 .. n) = n
      BY UpTo, Zenon
<1>2. IsFiniteSet(P) /\ k <= n
      BY <1>1, FS_Subset, ZenonT(60)
<1>3. k \in Nat
      BY <1>2, FS_CardinalityType, Zenon
<1>4. \A i \in P : i \in 1 .. k
  <2> SUFFICES ASSUME NEW i \in P PROVE i <= k
      BY <1>3
  <2>0. i \in Nat
      OBVIOUS
  <2>1. IsFiniteSet(1 .. i) /\ Cardinality(1 .. i) = i
      BY <2>0, UpTo, Zenon
  <2>2. 1 .. i \in SUBSET P
      OBVIOUS
  <2>3. Cardinality(1 .. i) <= k
      BY <2>2, <1>2, FS_Subset, Zenon
  <2> QED BY <2>1, <2>3
<1>5. IsFiniteSet(1 .. k) /\ Cardinality(1 .. k) = k
      BY <1>3, UpTo, Zenon
<1>6. P \in SUBSET (1 .. k)
      BY <1>4
<1>7. P = 1 .. k
      BY <1>5, <1>6, FS_Subset, Zenon
<1> QED BY <1>2, <1>3, <1>7

LEMMA SeqRow ==
    ASSUME NEW s \in Seq(Row)
    PROVE  /\ Len(s) \in Nat /\ DOMAIN s = 1 .. Len(s)
           /\ \A i \in DOMAIN s : s[i] \in Row /\ s[i].id \in Nat /\ s[i].rev \in Nat
<1>1. Len(s) \in Nat /\ DOMAIN s = 1 .. Len(s) /\ \A i \in 1 .. Len(s) : s[i] \in Row
      BY LenProperties, ElementOfSeq
<1>2. \A r \in Row : r.id \in Nat /\ r.rev \in Nat
      BY DEF Row
<1> QED BY <1>1, <1>2

LEMMA PassedRows ==
    ASSUME NEW s \in Seq(Row), Sorted(s), NEW got \in Seq(Row)
    PROVE  /\ Cardinality(Passed(s, got)) \in 0 .. Len(s)
           /\ Passed(s, got) = 1 .. Cardinality(Passed(s, got))
<1>1. Passed(s, got) \in SUBSET (1 .. Len(s))
      BY SeqRow DEF Passed
<1>2. ASSUME NEW i \in Passed(s, got), NEW j \in 1 .. i PROVE j \in Passed(s, got)
  <2>1. i \in DOMAIN s /\ j \in DOMAIN s /\ got # <<>> /\ s[i].id <= Last(got).id
      BY <1>1, SeqRow DEF Passed
  <2>2. s[j].id <= s[i].id
    <3>1. j = i \/ j < i
        BY <2>1, SeqRow
    <3> QED BY <2>1, <3>1, SeqRow DEF Sorted
  <2>3. Last(got).id \in Nat
      BY <2>1, SeqRow DEF Last
  <2>4. s[j].id <= Last(got).id
      BY <2>1, <2>2, <2>3, SeqRow
  <2> QED BY <2>1, <2>4 DEF Passed
<1> QED BY <1>1, <1>2, InitialSegment, SeqRow, Zenon

LEMMA PassedPrefix ==
    ASSUME NEW s \in Seq(Row), Sorted(s), NEW got \in Seq(Row),
           Len(got) <= Len(s), got = SubSeq(s, 1, Len(got))
    PROVE  Cardinality(Passed(s, got)) = Len(got)
<1>1. \A i \in DOMAIN got : got[i] = s[i]
      BY SeqRow
<1>2. Passed(s, got) = 1 .. Len(got)
  <2>1. CASE got = <<>>
      BY <2>1 DEF Passed
  <2>2. CASE got # <<>>
    <3>1. Len(got) \in DOMAIN got /\ Len(got) \in DOMAIN s /\ Last(got) = s[Len(got)]
      BY <2>2, <1>1, SeqRow DEF Last
    <3>2. ASSUME NEW i \in DOMAIN s
          PROVE  s[i].id <= s[Len(got)].id <=> i <= Len(got)
      BY <3>1, SeqRow DEF Sorted
    <3>3. \A i \in 1 .. Len(got) : i \in DOMAIN s
      BY SeqRow
    <3>4. \A i \in DOMAIN s : i <= Len(got) => i \in 1 .. Len(got)
      BY SeqRow
    <3> QED BY <2>2, <3>1, <3>2, <3>3, <3>4 DEF Passed
  <2> QED BY <2>1, <2>2
<1> QED BY <1>2, UpTo, SeqRow, Zenon

LEMMA Limits == PageSize \in Nat /\ PageSize > 0 /\ Pages \in Nat
BY CollectorAssumption

LEMMA Slice ==
    ASSUME NEW s \in Seq(Row), NEW k \in Nat, NEW m \in Nat, m <= Len(s)
    PROVE  /\ SubSeq(s, k + 1, m) \in Seq(Row)
           /\ Len(SubSeq(s, k + 1, m)) = IF k < m THEN m - k ELSE 0
           /\ \A i \in DOMAIN SubSeq(s, k + 1, m) :
                  k + i \in DOMAIN s /\ SubSeq(s, k + 1, m)[i] = s[k + i]
<1>1. k + 1 \in Int /\ m \in Int /\ \A i \in k + 1 .. m : i \in DOMAIN s /\ s[i] \in Row
      BY SeqRow
<1>2. /\ SubSeq(s, k + 1, m) \in Seq(Row)
      /\ Len(SubSeq(s, k + 1, m)) = IF k + 1 <= m THEN m - (k + 1) + 1 ELSE 0
      /\ \A i \in 1 .. m - (k + 1) + 1 : SubSeq(s, k + 1, m)[i] = s[(k + 1) + i - 1]
      BY <1>1, SubSeqProperties
<1>3. Len(SubSeq(s, k + 1, m)) = IF k < m THEN m - k ELSE 0
      BY <1>2
<1>4. ASSUME NEW i \in DOMAIN SubSeq(s, k + 1, m)
      PROVE  k + i \in DOMAIN s /\ SubSeq(s, k + 1, m)[i] = s[k + i]
  <2>1. i \in 1 .. Len(SubSeq(s, k + 1, m))
      BY <1>2, SeqRow
  <2>2. i \in 1 .. m - (k + 1) + 1 /\ (k + 1) + i - 1 = k + i /\ k + i \in 1 .. Len(s)
      BY <2>1, <1>3, SeqRow, SMTT(60)
  <2> QED BY <2>2, <1>2, SeqRow
<1> QED BY <1>2, <1>3, <1>4

LEMMA SkipNat ==
    ASSUME NEW s \in Seq(Row), Sorted(s), NEW got \in Seq(Row), NEW number \in Nat
    PROVE  Skip(s, got, number) \in Nat
<1>1. number * PageSize \in Nat
      BY Limits
<1> QED BY <1>1, PassedRows, SeqRow DEF Skip

\* A page after the first k rows of s.
PageAfter(page, s, k) ==
    /\ k \in Nat
    /\ page \in Page
    /\ page.total = Len(s)
    /\ page.more <=> Len(s) > k + PageSize
    /\ Len(page.rows) <= PageSize
    /\ page.more => Len(page.rows) = PageSize
    /\ \A i \in DOMAIN page.rows : k + i \in DOMAIN s /\ page.rows[i] = s[k + i]
    /\ k <= Len(s) => /\ k + Len(page.rows) <= Len(s)
                      /\ page.rows = SubSeq(s, k + 1, k + Len(page.rows))
                      /\ ~page.more => k + Len(page.rows) = Len(s)

LEMMA PageShape ==
    ASSUME NEW s \in Seq(Row), Sorted(s), NEW got \in Seq(Row), NEW number \in Nat
    PROVE  PageAfter(PageOf(s, got, number), s, Skip(s, got, number))
<1> DEFINE page == PageOf(s, got, number)
           k == Skip(s, got, number)
<1> DEFINE more == Len(s) > k + PageSize
           last == IF more THEN k + PageSize ELSE Len(s)
<1>1. k \in Nat /\ Len(s) \in Nat /\ PageSize \in Nat /\ PageSize > 0
  <2>1. k \in Nat
      BY SkipNat, Zenon
  <2> QED BY <2>1, SeqRow, Limits
<1>2. page = [rows |-> SubSeq(s, k + 1, last), total |-> Len(s), more |-> more]
      BY DEF PageOf, Skip
<1>3. last \in Nat /\ last <= Len(s) /\ last <= k + PageSize
      BY <1>1
<1> DEFINE rows == SubSeq(s, k + 1, last)
<1>5. /\ rows \in Seq(Row)
      /\ Len(rows) = IF k < last THEN last - k ELSE 0
      /\ \A i \in DOMAIN rows : k + i \in DOMAIN s /\ rows[i] = s[k + i]
  <2> HIDE DEF last
  <2> QED BY <1>1, <1>3, Slice
<1>6. page.rows = rows /\ page.total = Len(s) /\ (page.more <=> more)
  <2>0. more = TRUE \/ more = FALSE
      OBVIOUS
  <2> HIDE DEF rows, more
  <2>1. page = [rows |-> rows, total |-> Len(s), more |-> more]
      BY <1>2, Zenon DEF rows
  <2>2. page.rows = rows /\ page.total = Len(s)
      BY <2>1
  <2>3. CASE more = TRUE
    <3>1. page = [rows |-> rows, total |-> Len(s), more |-> TRUE]
        BY <2>1, <2>3
    <3> QED BY <2>2, <2>3, <3>1
  <2>4. CASE more = FALSE
    <3>1. page = [rows |-> rows, total |-> Len(s), more |-> FALSE]
        BY <2>1, <2>4
    <3> QED BY <2>2, <2>4, <3>1
  <2> QED BY <2>0, <2>3, <2>4
<1>7. page \in Page
  <2>1. more \in BOOLEAN
      OBVIOUS
  <2> HIDE DEF more, rows
  <2> QED BY <1>1, <1>2, <1>5, <2>1 DEF Page, rows
<1>10. Len(rows) <= PageSize /\ (more => Len(rows) = PageSize)
      BY <1>1, <1>3, <1>5
<1>11. ASSUME k <= Len(s)
       PROVE  k + Len(rows) = last /\ (~more => last = Len(s))
  <2>1. k <= last
      BY <1>1, <1>11
  <2> HIDE DEF rows
  <2> QED BY <1>1, <1>3, <1>5, <2>1
<1> HIDE DEF rows
<1>12. page.more <=> more
      BY <1>6
<1>13. k <= Len(s) => /\ k + Len(page.rows) <= Len(s)
                      /\ page.rows = SubSeq(s, k + 1, k + Len(page.rows))
                      /\ ~page.more => k + Len(page.rows) = Len(s)
  <2> SUFFICES ASSUME k <= Len(s) PROVE /\ k + Len(rows) <= Len(s)
                                        /\ rows = SubSeq(s, k + 1, k + Len(rows))
                                        /\ ~more => k + Len(rows) = Len(s)
      BY <1>6, <1>12
  <2> HIDE DEF more, last
  <2> QED BY <1>3, <1>11 DEF rows
<1> HIDE DEF page, k, more, last
<1>14. PageAfter(page, s, k)
      BY <1>1, <1>5, <1>6, <1>7, <1>10, <1>12, <1>13 DEF PageAfter, more
<1> QED BY <1>14 DEF page, k

LEMMA FirstPage ==
    ASSUME NEW n \in Nat, NEW s, Shown(s, n), NEW page, page = PageOf(s, <<>>, 0)
    PROVE  /\ page \in Page /\ page.total = Len(s)
           /\ Shown(page.rows, n)
           /\ Len(page.rows) <= Len(s) /\ page.rows = SubSeq(s, 1, Len(page.rows))
           /\ \A i \in DOMAIN page.rows : i \in DOMAIN s /\ page.rows[i] = s[i]
           /\ ~page.more => page.rows = s
<1>1. s \in Seq(Row) /\ Sorted(s) /\ Older(s, n) /\ <<>> \in Seq(Row) /\ 0 \in Nat
      BY DEF Shown
<1>2. Skip(s, <<>>, 0) = 0
  <2>1. Passed(s, <<>>) = {}
      BY DEF Passed
  <2>2. Cardinality({}) = 0
      BY FS_EmptySet, Zenon
  <2> QED BY <2>1, <2>2, Limits DEF Skip
<1>3. PageAfter(page, s, 0)
      BY <1>1, <1>2, PageShape
<1>4. page \in Page /\ page.total = Len(s) /\ page.rows \in Seq(Row)
      BY <1>3 DEF PageAfter, Page
<1>5. Len(s) \in Nat /\ Len(page.rows) \in Nat /\ DOMAIN page.rows = 1 .. Len(page.rows)
      BY <1>1, <1>4, SeqRow
<1>6. /\ Len(page.rows) <= Len(s) /\ page.rows = SubSeq(s, 1, Len(page.rows))
      /\ ~page.more => Len(page.rows) = Len(s)
      BY <1>3, <1>5 DEF PageAfter
<1>7. \A i \in DOMAIN page.rows : i \in DOMAIN s /\ page.rows[i] = s[i]
      BY <1>3, <1>5 DEF PageAfter
<1>8. Shown(page.rows, n)
      BY <1>1, <1>4, <1>7 DEF Shown, Sorted, Older
<1>9. SubSeq(s, 1, Len(s)) = s
      BY <1>1, SubSeqFull, Zenon
<1> QED BY <1>4, <1>6, <1>7, <1>8, <1>9

LEMMA ConcatShown ==
    ASSUME NEW n \in Nat, NEW a, Shown(a, n), NEW b, Shown(b, n),
           \A i \in DOMAIN a : \A j \in DOMAIN b : a[i].id < b[j].id
    PROVE  Shown(a \o b, n)
<1>1. a \in Seq(Row) /\ b \in Seq(Row)
      BY DEF Shown
<1>2. /\ a \o b \in Seq(Row) /\ Len(a \o b) = Len(a) + Len(b)
      /\ \A i \in 1 .. Len(a) + Len(b) :
             (a \o b)[i] = IF i <= Len(a) THEN a[i] ELSE b[i - Len(a)]
      BY <1>1, ConcatProperties, Zenon
<1>3. /\ Len(a) \in Nat /\ DOMAIN a = 1 .. Len(a) /\ Len(b) \in Nat /\ DOMAIN b = 1 .. Len(b)
      /\ DOMAIN (a \o b) = 1 .. Len(a) + Len(b)
      BY <1>1, <1>2, SeqRow
<1>4. ASSUME NEW i \in DOMAIN (a \o b)
      PROVE  \/ i \in DOMAIN a /\ (a \o b)[i] = a[i]
             \/ i - Len(a) \in DOMAIN b /\ i > Len(a) /\ (a \o b)[i] = b[i - Len(a)]
      BY <1>2, <1>3
<1>5. Older(a \o b, n)
      BY <1>4 DEF Shown, Older
<1>6. ASSUME NEW i \in DOMAIN (a \o b), NEW j \in DOMAIN (a \o b), i < j
      PROVE  (a \o b)[i].id < (a \o b)[j].id
  <2>1. CASE i \in DOMAIN a /\ j \in DOMAIN a
      BY <1>2, <1>3, <1>6, <2>1 DEF Shown, Sorted
  <2>2. CASE i \in DOMAIN a /\ j \notin DOMAIN a
      BY <1>4, <1>3, <2>2
  <2>3. CASE i \notin DOMAIN a
    <3>1. /\ i - Len(a) \in DOMAIN b /\ (a \o b)[i] = b[i - Len(a)]
          /\ j - Len(a) \in DOMAIN b /\ (a \o b)[j] = b[j - Len(a)]
          /\ i - Len(a) < j - Len(a)
        BY <1>2, <1>3, <1>6, <2>3
    <3> QED BY <3>1 DEF Shown, Sorted
  <2> QED BY <2>1, <2>2, <2>3
<1> QED BY <1>2, <1>5, <1>6 DEF Shown, Sorted

\* The next page of s follows what was read of other rows before.
LEMMA NextShown ==
    ASSUME NEW n \in Nat, NEW s, Shown(s, n), NEW got, Shown(got, n), NEW number \in Nat,
           NEW page, page = PageOf(s, got, number), provider \in {"github", "forgejo"},
           provider = "forgejo" => Len(got) = number * PageSize /\ Ahead(got, s)
    PROVE  /\ Shown(got \o page.rows, n)
           /\ provider = "forgejo" => Ahead(got \o page.rows, s)
<1> DEFINE k == Skip(s, got, number)
<1>1. s \in Seq(Row) /\ Sorted(s) /\ Older(s, n) /\ got \in Seq(Row) /\ Sorted(got)
      BY DEF Shown
<1>2. PageAfter(page, s, k)
      BY <1>1, PageShape
<1>3. page.rows \in Seq(Row) /\ k \in Nat
      BY <1>2 DEF PageAfter, Page
<1>4. /\ Len(s) \in Nat /\ DOMAIN s = 1 .. Len(s) /\ Len(got) \in Nat /\ DOMAIN got = 1 .. Len(got)
      /\ Len(page.rows) \in Nat /\ DOMAIN page.rows = 1 .. Len(page.rows)
      BY <1>1, <1>3, SeqRow
<1>5. \A i \in DOMAIN page.rows : k + i \in DOMAIN s /\ page.rows[i] = s[k + i]
      BY <1>2 DEF PageAfter
<1>6. Shown(page.rows, n)
  <2>1. Older(page.rows, n)
      BY <1>1, <1>5 DEF Older
  <2>2. ASSUME NEW i \in DOMAIN page.rows, NEW j \in DOMAIN page.rows, i < j
        PROVE  page.rows[i].id < page.rows[j].id
    <3>1. k + i < k + j
        BY <1>3, <1>4, <2>2
    <3> QED BY <3>1, <1>1, <1>5 DEF Sorted
  <2> QED BY <1>3, <2>1, <2>2 DEF Shown, Sorted
<1>7. ASSUME NEW i \in DOMAIN got, NEW j \in DOMAIN page.rows
      PROVE  got[i].id < page.rows[j].id
  <2>1. k + j \in DOMAIN s /\ page.rows[j] = s[k + j] /\ s[k + j].id \in Nat /\ got[i].id \in Nat
      BY <1>1, <1>5, SeqRow
  <2>2. CASE provider = "github"
    <3>1. /\ k = Cardinality(Passed(s, got))
          /\ Passed(s, got) = 1 .. k
        BY <1>1, <2>2, PassedRows DEF Skip
    <3>2. k + j \notin Passed(s, got) /\ got # <<>>
      <4>1. k + j \notin 1 .. k /\ Len(got) # 0
          BY <1>3, <1>4
      <4>2. got # <<>>
          BY <4>1, EmptySeq
      <4> HIDE DEF k
      <4> QED BY <3>1, <4>1, <4>2
    <3>3. Last(got) = got[Len(got)] /\ Len(got) \in DOMAIN got /\ Last(got).id \in Nat
        BY <1>1, <1>4, SeqRow DEF Last
    <3>4. s[k + j].id > Last(got).id
        BY <3>2, <3>3, <2>1 DEF Passed
    <3>5. i = Len(got) \/ i < Len(got)
        BY <1>4
    <3>6. got[i].id <= Last(got).id
        BY <3>3, <3>5, <1>1, <2>1 DEF Sorted
    <3> QED BY <2>1, <3>3, <3>4, <3>6
  <2>3. CASE provider = "forgejo"
    <3>1. k = Len(got) /\ got[i].id <= s[i].id
        BY <2>3 DEF Skip, Ahead
    <3>2. i < k + j /\ i \in DOMAIN s
        BY <3>1, <1>4, <2>1
    <3>3. s[i].id < s[k + j].id /\ s[i].id \in Nat
        BY <1>1, <2>1, <3>2, SeqRow DEF Sorted
    <3> QED BY <2>1, <3>1, <3>3
  <2> QED BY <2>2, <2>3
<1>8. Shown(got \o page.rows, n)
      BY <1>6, <1>7, ConcatShown
<1>9. ASSUME provider = "forgejo" PROVE Ahead(got \o page.rows, s)
  <2>1. k = Len(got) /\ Ahead(got, s)
      BY <1>9 DEF Skip
  <2>2. k + Len(page.rows) <= Len(s)
      BY <1>2, <2>1 DEF PageAfter, Ahead
  <2>3. /\ got \o page.rows \in Seq(Row) /\ Len(got \o page.rows) = Len(got) + Len(page.rows)
        /\ \A i \in 1 .. Len(got) + Len(page.rows) :
               (got \o page.rows)[i] = IF i <= Len(got) THEN got[i] ELSE page.rows[i - Len(got)]
      BY <1>1, <1>3, ConcatProperties, Zenon
  <2>4. DOMAIN (got \o page.rows) = 1 .. Len(got) + Len(page.rows)
      BY <2>3, SeqRow
  <2>5. ASSUME NEW i \in DOMAIN (got \o page.rows)
        PROVE  (got \o page.rows)[i].id <= s[i].id
    <3>1. CASE i <= Len(got)
        BY <3>1, <2>1, <2>3, <2>4, <1>4 DEF Ahead
    <3>2. CASE i > Len(got)
      <4>1. /\ i - Len(got) \in DOMAIN page.rows /\ k + (i - Len(got)) = i
            /\ (got \o page.rows)[i] = page.rows[i - Len(got)]
        <5>1. i \in 1 .. Len(got) + Len(page.rows)
            BY <2>4
        <5>2. i - Len(got) \in 1 .. Len(page.rows) /\ Len(got) + (i - Len(got)) = i
            BY <5>1, <3>2, <1>4
        <5>3. (got \o page.rows)[i] = page.rows[i - Len(got)]
            BY <5>1, <3>2, <2>3, <1>4
        <5> HIDE DEF k
        <5> QED BY <5>2, <5>3, <2>1, <1>4
      <4>2. (got \o page.rows)[i] = s[i] /\ i \in DOMAIN s
          BY <4>1, <1>5
      <4> QED BY <4>2, <1>1, SeqRow
    <3> QED BY <3>1, <3>2, <2>4, <1>4
  <2> QED BY <2>1, <2>2, <2>3, <2>5 DEF Ahead
<1> QED BY <1>8, <1>9

\* The next page of what was read so far.
LEMMA NextPrefix ==
    ASSUME NEW n \in Nat, NEW s, Shown(s, n), NEW got \in Seq(Row), NEW number \in Nat,
           Prefix(got, s), NEW page, page = PageOf(s, got, number), provider \in {"github", "forgejo"},
           provider = "forgejo" => Len(got) = number * PageSize
    PROVE  Prefix(got \o page.rows, s)
<1> DEFINE k == Skip(s, got, number)
<1>1. s \in Seq(Row) /\ Sorted(s)
      BY DEF Shown
<1>2. k = Len(got)
      BY <1>1, PassedPrefix DEF Skip, Prefix
<1>3. PageAfter(page, s, Len(got))
      BY <1>1, <1>2, PageShape
<1>4. page.rows \in Seq(Row)
      BY <1>3 DEF PageAfter, Page
<1>5. Len(s) \in Nat /\ Len(got) \in Nat /\ Len(page.rows) \in Nat
      BY <1>1, <1>4, SeqRow
<1> DEFINE m == Len(got) + Len(page.rows)
<1>6. m <= Len(s) /\ page.rows = SubSeq(s, Len(got) + 1, m)
      BY <1>3 DEF PageAfter, Prefix
<1>7. Len(got \o page.rows) = m
      BY <1>4, ConcatProperties, Zenon
<1>8. /\ 1 \in 1 .. Len(s) + 1 /\ Len(got) \in 1 - 1 .. Len(s) /\ m \in Len(got) .. Len(s)
      BY <1>5, <1>6
<1>9. SubSeq(s, 1, Len(got)) \o SubSeq(s, Len(got) + 1, m) = SubSeq(s, 1, m)
  <2> HIDE DEF m
  <2> QED BY <1>1, <1>8, ConcatAdjacentSubSeq, Zenon
<1>10. got = SubSeq(s, 1, Len(got))
      BY DEF Prefix
<1> QED BY <1>6, <1>7, <1>9, <1>10 DEF Prefix

-----------------------------------------------------------------------------
(* Changes of rows.                                                        *)

\* A list of checks before and after a change that gives out n.
Edited(s, a, n) ==
    /\ Shown(a, n + 1)
    /\ Ahead(s, a)
    /\ \A i \in DOMAIN a : a[i].rev = n \/ \E j \in DOMAIN s : a[i] = s[j]

NewRow(n) == [id |-> n, rev |-> n]

LEMMA ShownLater ==
    ASSUME NEW n \in Nat, NEW s, Shown(s, n)
    PROVE  Shown(s, n + 1)
<1>1. ASSUME NEW i \in DOMAIN s PROVE s[i].id < n + 1 /\ s[i].rev < n + 1
  <2>1. s[i].id < n /\ s[i].rev < n /\ s[i].id \in Nat /\ s[i].rev \in Nat
      BY SeqRow DEF Shown, Older
  <2> QED BY <2>1
<1> QED BY <1>1 DEF Shown, Older

LEMMA AppendEdited ==
    ASSUME NEW n \in Nat, NEW s, Shown(s, n)
    PROVE  Edited(s, Append(s, NewRow(n)), n)
<1> DEFINE a == Append(s, NewRow(n))
<1>1. s \in Seq(Row) /\ Len(s) \in Nat /\ DOMAIN s = 1 .. Len(s)
      BY SeqRow DEF Shown
<1>2. NewRow(n) \in Row /\ NewRow(n).id = n /\ NewRow(n).rev = n
      BY DEF NewRow, Row
<1>3. /\ a \in Seq(Row) /\ Len(a) = Len(s) + 1
      /\ \A i \in 1 .. Len(s) : a[i] = s[i]
      /\ a[Len(s) + 1] = NewRow(n)
      BY <1>1, <1>2, AppendProperties
<1>4. DOMAIN a = 1 .. Len(s) + 1
      BY <1>3, SeqRow
<1> HIDE DEF a
<1>5. \A i \in DOMAIN s : /\ i \in DOMAIN a /\ a[i] = s[i]
                          /\ s[i].id < n /\ s[i].rev < n /\ s[i].id \in Nat /\ s[i].rev \in Nat
      BY <1>1, <1>3, <1>4, SeqRow DEF Shown, Older
<1>6. \A i \in DOMAIN a : i \in DOMAIN s \/ i = Len(s) + 1
      BY <1>1, <1>4
<1>7. Older(a, n + 1)
  <2> SUFFICES ASSUME NEW i \in DOMAIN a PROVE a[i].id < n + 1 /\ a[i].rev < n + 1
      BY DEF Older
  <2> QED BY <1>2, <1>3, <1>5, <1>6
<1>8. Sorted(a)
  <2> SUFFICES ASSUME NEW i \in DOMAIN a, NEW j \in DOMAIN a, i < j
               PROVE  a[i].id < a[j].id
      BY DEF Sorted
  <2>1. i \in DOMAIN s
      BY <1>1, <1>4
  <2>2. CASE j \in DOMAIN s
      BY <2>1, <2>2, <1>5 DEF Shown, Sorted
  <2>3. CASE j = Len(s) + 1
      BY <2>1, <2>3, <1>2, <1>3, <1>5
  <2> QED BY <1>6, <2>2, <2>3
<1>9. Ahead(s, a)
      BY <1>1, <1>3, <1>5 DEF Ahead
<1>10. \A i \in DOMAIN a : a[i].rev = n \/ \E j \in DOMAIN s : a[i] = s[j]
      BY <1>2, <1>3, <1>5, <1>6
<1> QED BY <1>3, <1>7, <1>8, <1>9, <1>10 DEF Edited, Shown, a

LEMMA ReviseEdited ==
    ASSUME NEW n \in Nat, NEW s, Shown(s, n), NEW i \in DOMAIN s
    PROVE  Edited(s, [s EXCEPT ![i].rev = n], n)
<1> DEFINE e == [s[i] EXCEPT !.rev = n]
           a == [s EXCEPT ![i] = e]
<1>1. s \in Seq(Row) /\ Len(s) \in Nat /\ DOMAIN s = 1 .. Len(s) /\ s[i] \in Row
      BY SeqRow DEF Shown
<1>2. e \in Row /\ e.id = s[i].id /\ e.rev = n
      BY <1>1 DEF Row
<1> HIDE DEF e
<1>3. /\ a \in Seq(Row) /\ Len(a) = Len(s)
      /\ \A j \in DOMAIN s : a[j] = IF j = i THEN e ELSE s[j]
      BY <1>1, <1>2, ExceptSeq
<1>4. DOMAIN a = DOMAIN s
      BY <1>1, <1>3, SeqRow
<1> HIDE DEF a
<1>5. \A j \in DOMAIN s :
          s[j].id < n /\ s[j].rev < n /\ s[j].id \in Nat /\ s[j].rev \in Nat /\ a[j].id = s[j].id
      BY <1>1, <1>2, <1>3, SeqRow DEF Shown, Older
<1>6. \A j \in DOMAIN a : a[j].rev = n \/ a[j] = s[j]
      BY <1>2, <1>3, <1>4
<1>7. Older(a, n + 1)
      BY <1>4, <1>5, <1>6 DEF Older
<1>8. Sorted(a)
      BY <1>4, <1>5 DEF Shown, Sorted
<1>9. Ahead(s, a)
      BY <1>1, <1>3, <1>5 DEF Ahead
<1>10. Edited(s, a, n)
      BY <1>3, <1>4, <1>6, <1>7, <1>8, <1>9 DEF Edited, Shown
<1> QED BY <1>10 DEF a, e

LEMMA RemoveShape ==
    ASSUME NEW s \in Seq(Row), NEW i \in DOMAIN s
    PROVE  /\ RemoveAt(s, i) \in Seq(Row) /\ Len(RemoveAt(s, i)) = Len(s) - 1
           /\ \A j \in DOMAIN RemoveAt(s, i) :
                  /\ j \in DOMAIN s /\ j + 1 \in DOMAIN s
                  /\ RemoveAt(s, i)[j] = IF j < i THEN s[j] ELSE s[j + 1]
<1>1. Len(s) \in Nat /\ DOMAIN s = 1 .. Len(s) /\ i \in 1 .. Len(s)
      BY SeqRow
<1>2. /\ SubSeq(s, 0 + 1, i - 1) \in Seq(Row)
      /\ Len(SubSeq(s, 0 + 1, i - 1)) = i - 1
      /\ \A j \in DOMAIN SubSeq(s, 0 + 1, i - 1) : SubSeq(s, 0 + 1, i - 1)[j] = s[0 + j]
  <2>1. 0 \in Nat /\ i - 1 \in Nat /\ i - 1 <= Len(s)
      BY <1>1
  <2> QED BY <2>1, Slice
<1>3. /\ SubSeq(s, i + 1, Len(s)) \in Seq(Row)
      /\ Len(SubSeq(s, i + 1, Len(s))) = Len(s) - i
      /\ \A j \in DOMAIN SubSeq(s, i + 1, Len(s)) : SubSeq(s, i + 1, Len(s))[j] = s[i + j]
      BY <1>1, Slice, SMTT(60)
<1> DEFINE b == SubSeq(s, 1, i - 1)
           c == SubSeq(s, i + 1, Len(s))
<1>4. /\ b \in Seq(Row) /\ Len(b) = i - 1
      /\ c \in Seq(Row) /\ Len(c) = Len(s) - i
      /\ \A j \in DOMAIN b : b[j] = s[j]
      /\ \A j \in DOMAIN c : c[j] = s[i + j]
  <2>1. 0 + 1 = 1 /\ \A j \in DOMAIN b : 0 + j = j
    <3>1. b \in Seq(Row)
        BY <1>2
    <3> HIDE DEF b
    <3>2. DOMAIN b = 1 .. Len(b) /\ Len(b) \in Nat
        BY <3>1, SeqRow
    <3> QED BY <3>2
  <2> QED BY <1>2, <1>3, <2>1
<1> HIDE DEF b, c
<1> DEFINE a == b \o c
<1>5. /\ a \in Seq(Row) /\ Len(a) = Len(b) + Len(c)
      /\ \A j \in 1 .. Len(b) + Len(c) : a[j] = IF j <= Len(b) THEN b[j] ELSE c[j - Len(b)]
      BY <1>4, ConcatProperties, Zenon
<1>8. RemoveAt(s, i) = a
      BY DEF RemoveAt, b, c
<1> HIDE DEF a
<1>6. /\ i \in Nat /\ i >= 1 /\ i <= Len(s) /\ Len(b) + Len(c) = Len(s) - 1
      /\ DOMAIN b = 1 .. i - 1 /\ DOMAIN c = 1 .. Len(s) - i /\ DOMAIN a = 1 .. Len(s) - 1
  <2>1. i \in Nat /\ i >= 1 /\ i <= Len(s) /\ Len(b) + Len(c) = Len(s) - 1
      BY <1>1, <1>4
  <2>2. DOMAIN b = 1 .. Len(b) /\ DOMAIN c = 1 .. Len(c) /\ DOMAIN a = 1 .. Len(a)
      BY <1>4, <1>5, SeqRow
  <2> QED BY <2>1, <2>2, <1>4, <1>5
<1>7. ASSUME NEW j \in DOMAIN a
      PROVE  /\ j \in DOMAIN s /\ j + 1 \in DOMAIN s
             /\ a[j] = IF j < i THEN s[j] ELSE s[j + 1]
  <2>0. j \in 1 .. Len(s) - 1
      BY <1>6
  <2>1. j \in DOMAIN s /\ j + 1 \in DOMAIN s /\ j \in 1 .. Len(b) + Len(c)
      BY <2>0, <1>1, <1>6
  <2>2. CASE j < i
    <3>1. j \in 1 .. i - 1 /\ j <= i - 1
        BY <2>0, <1>6, <2>2
    <3> QED BY <3>1, <1>4, <1>5, <1>6, <2>1, <2>2
  <2>3. CASE ~(j < i)
    <3>1. j - (i - 1) \in 1 .. Len(s) - i /\ i + (j - (i - 1)) = j + 1 /\ ~(j <= i - 1)
        BY <2>0, <1>1, <1>6, <2>3
    <3>2. a[j] = c[j - (i - 1)]
        BY <3>1, <1>4, <1>5, <2>1
    <3> QED BY <3>1, <3>2, <1>4, <1>6, <2>1, <2>3
  <2> QED BY <2>2, <2>3
<1> QED BY <1>1, <1>4, <1>5, <1>6, <1>7, <1>8

LEMMA RemoveShown ==
    ASSUME NEW n \in Nat, NEW s, Shown(s, n), NEW i \in DOMAIN s
    PROVE  Shown(RemoveAt(s, i), n)
<1> DEFINE a == RemoveAt(s, i)
<1>1. s \in Seq(Row) /\ Sorted(s) /\ Older(s, n) /\ DOMAIN s = 1 .. Len(s) /\ Len(s) \in Nat
      BY SeqRow DEF Shown
<1>2. /\ a \in Seq(Row) /\ Len(a) = Len(s) - 1
      /\ \A j \in DOMAIN a : /\ j \in DOMAIN s /\ j + 1 \in DOMAIN s
                             /\ a[j] = IF j < i THEN s[j] ELSE s[j + 1]
      BY <1>1, RemoveShape
<1> HIDE DEF a
<1>3. Older(a, n)
      BY <1>1, <1>2 DEF Older
<1>4. ASSUME NEW j \in DOMAIN a, NEW k \in DOMAIN a, j < k PROVE a[j].id < a[k].id
  <2>1. j \in 1 .. Len(s) /\ k \in 1 .. Len(s) /\ i \in 1 .. Len(s)
      BY <1>1, <1>2
  <2>2. j < k + 1 /\ j + 1 < k + 1 /\ (k < i => j < i)
      BY <2>1, <1>4
  <2> QED BY <1>1, <1>2, <1>4, <2>2 DEF Sorted
<1> QED BY <1>2, <1>3, <1>4 DEF Shown, Sorted, a

LEMMA ReplaceEdited ==
    ASSUME NEW n \in Nat, NEW s, Shown(s, n), NEW i \in DOMAIN s
    PROVE  Edited(s, Append(RemoveAt(s, i), NewRow(n)), n)
<1> DEFINE b == RemoveAt(s, i)
           a == Append(b, NewRow(n))
<1>1. s \in Seq(Row) /\ Sorted(s) /\ DOMAIN s = 1 .. Len(s) /\ Len(s) \in Nat
      BY SeqRow DEF Shown
<1>2. /\ b \in Seq(Row) /\ Len(b) = Len(s) - 1
      /\ \A j \in DOMAIN b : /\ j \in DOMAIN s /\ j + 1 \in DOMAIN s
                             /\ b[j] = IF j < i THEN s[j] ELSE s[j + 1]
      BY <1>1, RemoveShape
<1>3. Shown(b, n)
      BY RemoveShown
<1> HIDE DEF b
<1>4. Edited(b, a, n)
      BY <1>3, AppendEdited
<1>5. NewRow(n) \in Row /\ NewRow(n).id = n
      BY DEF NewRow, Row
<1>6. /\ DOMAIN b = 1 .. Len(s) - 1 /\ Len(a) = Len(s) /\ a \in Seq(Row)
      /\ \A j \in 1 .. Len(s) - 1 : a[j] = b[j]
      /\ a[Len(s)] = NewRow(n)
  <2>1. Len(b) \in Nat /\ DOMAIN b = 1 .. Len(b) /\ Len(b) + 1 = Len(s)
      BY <1>1, <1>2, SeqRow
  <2>2. /\ a \in Seq(Row) /\ Len(a) = Len(b) + 1
        /\ \A j \in 1 .. Len(b) : a[j] = b[j]
        /\ a[Len(b) + 1] = NewRow(n)
      BY <1>2, <1>5, AppendProperties
  <2> QED BY <2>1, <2>2
<1> HIDE DEF a
<1>7. Ahead(s, a)
  <2> SUFFICES ASSUME NEW j \in DOMAIN s PROVE s[j].id <= a[j].id
      BY <1>1, <1>6 DEF Ahead
  <2>1. s[j].id < n /\ s[j].id \in Nat
      BY <1>1, SeqRow DEF Shown, Older
  <2>2. j = Len(s) \/ j \in 1 .. Len(s) - 1
      BY <1>1
  <2>3. CASE j = Len(s)
      BY <2>1, <2>3, <1>5, <1>6
  <2>4. CASE j \in 1 .. Len(s) - 1
    <3>1. j + 1 \in DOMAIN s /\ a[j] = IF j < i THEN s[j] ELSE s[j + 1]
        BY <2>4, <1>2, <1>6
    <3>2. s[j].id < s[j + 1].id /\ s[j + 1].id \in Nat
      <4>1. j < j + 1
          BY <1>1
      <4> QED BY <3>1, <4>1, <1>1, SeqRow DEF Sorted
    <3> QED BY <3>1, <3>2, <2>1
  <2> QED BY <2>2, <2>3, <2>4
<1>8. \A j \in DOMAIN a : a[j].rev = n \/ \E k \in DOMAIN s : a[j] = s[k]
  <2>1. \A j \in DOMAIN b : \E k \in DOMAIN s : b[j] = s[k]
      BY <1>2
  <2> QED BY <1>4, <2>1 DEF Edited
<1> QED BY <1>4, <1>7, <1>8 DEF Edited, a, b

\* A function that increases from the first m numbers into at most as many is the identity.
LEMMA Increasing ==
    ASSUME NEW m \in Nat, NEW n \in Nat, n <= m, NEW f \in [1 .. m -> 1 .. n],
           \A i, j \in 1 .. m : i < j => f[i] < f[j]
    PROVE  m = n /\ \A i \in 1 .. m : f[i] = i
<1>1. ASSUME NEW i \in 1 .. m PROVE i <= f[i]
  <2> DEFINE g == [j \in 1 .. i |-> f[j]]
  <2>1. g \in Injection(1 .. i, 1 .. f[i])
    <3>1. ASSUME NEW j \in 1 .. i PROVE g[j] \in 1 .. f[i]
      <4>1. j \in 1 .. m /\ (j = i \/ j < i) /\ f[i] \in 1 .. n /\ f[j] \in 1 .. n
          BY <1>1
      <4> QED BY <4>1
    <3>2. ASSUME NEW j \in 1 .. i, NEW k \in 1 .. i, g[j] = g[k] PROVE j = k
      <4>1. j \in 1 .. m /\ k \in 1 .. m /\ f[j] \in 1 .. n /\ f[k] \in 1 .. n /\ f[j] = f[k]
          BY <1>1, <3>2
      <4>2. j < k \/ k < j \/ j = k
          BY <4>1
      <4> QED BY <4>1, <4>2
    <3> QED BY <3>1, <3>2 DEF Injection, IsInjective
  <2>2. i \in Nat /\ f[i] \in Nat
      BY <1>1
  <2>3. IsFiniteSet(1 .. f[i]) /\ Cardinality(1 .. f[i]) = f[i] /\ Cardinality(1 .. i) = i
      BY <2>2, UpTo, Zenon
  <2>4. Cardinality(1 .. i) <= Cardinality(1 .. f[i])
      BY <2>1, <2>3, FS_Injection, Zenon
  <2> QED BY <2>3, <2>4
<1>2. ASSUME NEW i \in 1 .. m PROVE m - i <= n - f[i]
  <2> DEFINE g == [j \in i .. m |-> f[j]]
  <2>1. g \in Injection(i .. m, f[i] .. n)
    <3>1. ASSUME NEW j \in i .. m PROVE g[j] \in f[i] .. n
      <4>1. j \in 1 .. m /\ (j = i \/ i < j) /\ f[i] \in 1 .. n /\ f[j] \in 1 .. n
          BY <1>2
      <4> QED BY <4>1
    <3>2. ASSUME NEW j \in i .. m, NEW k \in i .. m, g[j] = g[k] PROVE j = k
      <4>1. j \in 1 .. m /\ k \in 1 .. m /\ f[j] \in 1 .. n /\ f[k] \in 1 .. n /\ f[j] = f[k]
          BY <1>2, <3>2
      <4>2. j < k \/ k < j \/ j = k
          BY <4>1
      <4> QED BY <4>1, <4>2
    <3> QED BY <3>1, <3>2 DEF Injection, IsInjective
  <2>2. i \in Int /\ f[i] \in Int /\ m \in Int /\ n \in Int /\ i <= m /\ f[i] <= n
      BY <1>2
  <2>3. /\ IsFiniteSet(f[i] .. n)
        /\ Cardinality(f[i] .. n) = IF f[i] > n THEN 0 ELSE n - f[i] + 1
        /\ Cardinality(i .. m) = IF i > m THEN 0 ELSE m - i + 1
      BY <2>2, FS_Interval, Zenon
  <2>4. Cardinality(i .. m) <= Cardinality(f[i] .. n)
      BY <2>1, <2>3, FS_Injection, Zenon
  <2> QED BY <2>2, <2>3, <2>4
<1>3. \A i \in 1 .. m : f[i] = i /\ n = m
  <2> SUFFICES ASSUME NEW i \in 1 .. m PROVE f[i] = i /\ n = m
      OBVIOUS
  <2>1. f[i] \in 1 .. n /\ i <= f[i] /\ m - i <= n - f[i]
      BY <1>1, <1>2
  <2> QED BY <2>1
<1>4. m = 0 \/ 1 \in 1 .. m
      OBVIOUS
<1> QED BY <1>3, <1>4

\* As many rows as s has, all of them of s, are s.
LEMMA SameRows ==
    ASSUME NEW n \in Nat, NEW s, Shown(s, n), NEW a, Shown(a, n), Len(s) <= Len(a),
           \A i \in DOMAIN a : \E j \in DOMAIN s : s[j] = a[i]
    PROVE  a = s
<1> DEFINE f == [i \in 1 .. Len(a) |-> CHOOSE j \in DOMAIN s : s[j] = a[i]]
<1>1. /\ s \in Seq(Row) /\ Len(s) \in Nat /\ DOMAIN s = 1 .. Len(s)
      /\ a \in Seq(Row) /\ Len(a) \in Nat /\ DOMAIN a = 1 .. Len(a)
      BY SeqRow DEF Shown
<1>2. \A i \in 1 .. Len(a) : f[i] \in 1 .. Len(s) /\ s[f[i]] = a[i]
      BY <1>1
<1>3. f \in [1 .. Len(a) -> 1 .. Len(s)]
      BY <1>2
<1> HIDE DEF f
<1>4. ASSUME NEW i \in 1 .. Len(a), NEW j \in 1 .. Len(a), i < j PROVE f[i] < f[j]
  <2>1. /\ f[i] \in DOMAIN s /\ f[j] \in DOMAIN s /\ s[f[i]] = a[i] /\ s[f[j]] = a[j]
        /\ a[i].id \in Nat /\ a[j].id \in Nat
      BY <1>1, <1>2, SeqRow
  <2>2. a[i].id < a[j].id
      BY <1>1, <1>4 DEF Shown, Sorted
  <2>3. f[j] < f[i] => s[f[j]].id < s[f[i]].id
      BY <2>1 DEF Shown, Sorted
  <2>4. f[i] # f[j] /\ ~(f[j] < f[i])
      BY <2>1, <2>2, <2>3
  <2>5. f[i] \in Nat /\ f[j] \in Nat
      BY <1>1, <2>1
  <2> QED BY <2>4, <2>5
<1>5. Len(a) = Len(s) /\ \A i \in 1 .. Len(a) : f[i] = i
      BY <1>1, <1>3, <1>4, Increasing
<1>6. \A i \in 1 .. Len(a) : a[i] = s[i]
      BY <1>2, <1>5
<1> QED BY <1>1, <1>5, <1>6, SeqEqual

-----------------------------------------------------------------------------
(* Targets and what is known of them.                                      *)

LEMMA NewestNat == ForgeInv => Newest \in Nat
<1>1. \A b \in Nat : b * b \in Nat
      OBVIOUS
<1>2. MaxChanges \in Nat /\ Base * Base \in Nat
      BY <1>1, CollectorAssumption, OpeningAssumption
<1> QED BY <1>2 DEF ForgeInv, Newest

LEMMA Merged ==
    ASSUME NEW f, NEW g
    PROVE  /\ DOMAIN Merge(f, g) = DOMAIN f \cup DOMAIN g
           /\ \A t \in DOMAIN f : Merge(f, g)[t] = f[t]
           /\ \A t \in DOMAIN g : t \notin DOMAIN f => Merge(f, g)[t] = g[t]
BY DEF Merge

LEMMA ListNames ==
    ASSUME provider \in {"github", "forgejo"}
    PROVE  /\ Parent \in Range(Lists)
           /\ [i \in DOMAIN Lists |-> Top(Lists[i])] \in Seq(Tops)
           /\ [i \in DOMAIN Lists |-> Top(Lists[i])] # <<>>
           /\ Range([i \in DOMAIN Lists |-> Top(Lists[i])]) = Tops
<1>1. CASE provider = "github"
  <2>1. Lists = <<"comments", "reviews", "threads">> /\ Parent = "threads"
      BY <1>1 DEF Lists, Parent
  <2>2. DOMAIN Lists = 1 .. 3 /\ Lists[3] = "threads"
      BY <2>1
  <2>3. Parent \in Range(Lists)
      BY <2>1, <2>2 DEF Range
  <2> DEFINE s == [i \in DOMAIN Lists |-> Top(Lists[i])]
  <2>4. s \in Seq(Tops)
    <3>1. \A i \in 1 .. 3 : Top(Lists[i]) \in Tops
        BY <2>2 DEF Tops, Range
    <3> QED BY <2>2, <3>1
  <2>5. s # <<>>
      BY <2>2, <2>4, SMT
  <2>6. Range(s) = Tops
      BY DEF Range, Tops
  <2> QED BY <2>3, <2>4, <2>5, <2>6
<1>2. CASE provider = "forgejo"
  <2>1. Lists = <<"reviews", "comments">> /\ Parent = "reviews"
      BY <1>2 DEF Lists, Parent
  <2>2. DOMAIN Lists = 1 .. 2 /\ Lists[1] = "reviews"
      BY <2>1
  <2>3. Parent \in Range(Lists)
      BY <2>1, <2>2 DEF Range
  <2> DEFINE s == [i \in DOMAIN Lists |-> Top(Lists[i])]
  <2>4. s \in Seq(Tops)
    <3>1. \A i \in 1 .. 2 : Top(Lists[i]) \in Tops
        BY <2>2 DEF Tops, Range
    <3> QED BY <2>2, <3>1
  <2>5. s # <<>>
      BY <2>2, <2>4, SMT
  <2>6. Range(s) = Tops
      BY DEF Range, Tops
  <2> QED BY <2>3, <2>4, <2>5, <2>6
<1> QED BY <1>1, <1>2

LEMMA TargetKinds ==
    /\ \A l : Exists(Top(l)) /\ History(Top(l)) /\ Content(Top(l)) = lists[l]
    /\ \A p : /\ Exists(Nested(p)) <=> p \in DOMAIN inline
              /\ History(Nested(p)) <=> p \in DOMAIN inline
              /\ Content(Nested(p)) = inline[p]
    /\ \A h : Exists(Checks(h)) /\ ~History(Checks(h)) /\ Content(Checks(h)) = checks[h]
    /\ \A l, p, h : Top(l) # Nested(p) /\ Top(l) # Checks(h) /\ Nested(p) # Checks(h)
    /\ \A l, m : Top(l) = Top(m) => l = m
    /\ \A p, q : Nested(p) = Nested(q) => p = q
BY DEF Exists, Top, Nested, Checks, History, Content

LEMMA ContentShown ==
    ASSUME ForgeInv, first.head \in DOMAIN checks, NEW t,
           t \in Tops \/ t = Checks(first.head) \/ \E p \in DOMAIN inline : t = Nested(p)
    PROVE  Shown(Content(t), Newest) /\ Exists(t)
<1>1. CASE t \in Tops
      BY <1>1, TargetKinds DEF Tops, ForgeInv
<1>2. CASE t = Checks(first.head)
      BY <1>2, TargetKinds DEF ForgeInv
<1>3. CASE \E p \in DOMAIN inline : t = Nested(p)
      BY <1>3, TargetKinds DEF ForgeInv
<1> QED BY <1>1, <1>2, <1>3

LEMMA Frame ==
    ASSUME UNCHANGED <<provider, forge>>
    PROVE  /\ Newest' = Newest /\ Parent' = Parent /\ Lists' = Lists /\ Tops' = Tops
           /\ \A t : Content(t)' = Content(t) /\ (Exists(t)' <=> Exists(t))
           /\ \A t : History(t)' <=> History(t)
           /\ \A s, got, number : PageOf(s, got, number)' = PageOf(s, got, number)
           /\ ForgeInv => ForgeInv'
<1> USE DEF forge
<1>1. Newest' = Newest
      BY DEF Newest
<1>2. Parent' = Parent /\ Lists' = Lists
      BY DEF Parent, Lists
<1>3. Tops' = Tops
      BY <1>2 DEF Tops
<1>4. \A t : Content(t)' = Content(t)
      BY DEF Content
<1>5. \A t : Exists(t)' <=> Exists(t)
      BY DEF Exists
<1>6. \A t : History(t)' <=> History(t)
      BY <1>5 DEF History
<1>7. \A s, got, number : PageOf(s, got, number)' = PageOf(s, got, number)
      BY DEF PageOf
<1>8. ForgeInv => ForgeInv'
      BY <1>1, <1>2 DEF ForgeInv
<1> QED BY <1>1, <1>2, <1>3, <1>4, <1>5, <1>6, <1>7, <1>8

\* A step of the collection, with the forge as it is.
LEMMA Kept ==
    ASSUME UNCHANGED <<provider, forge, first>>, TimeInv',
           PeekInv(peek'), TakenInv(taken', peek'), ScanInv(scan', Head(todo'), peek'),
           PhaseInv(pc', todo', taken', peek'),
           Quiet' => PeekNow(peek') /\ TakenNow(taken') /\ ScanNow(scan', Head(todo'))
    PROVE  MemoryInv'
<1>1. /\ Newest' = Newest /\ Parent' = Parent /\ Lists' = Lists /\ Tops' = Tops
      /\ \A t : Content(t)' = Content(t) /\ (History(t)' <=> History(t))
      /\ \A s, got, number : PageOf(s, got, number)' = PageOf(s, got, number)
      BY Frame
<1>2. first' = first /\ provider' = provider /\ Contexts' = Contexts
      BY DEF forge, Contexts
<1>3. PeekInv(peek)'
      BY <1>1, <1>2 DEF PeekInv, ToldOf
<1>4. TakenInv(taken, peek)'
      BY <1>1, <1>2 DEF TakenInv, ToldOf
<1>5. ScanInv(scan, Head(todo), peek)'
      BY <1>1, <1>2 DEF ScanInv, ToldOf
<1>6. PhaseInv(pc, todo, taken, peek)'
      BY <1>1, <1>2 DEF PhaseInv, PhaseTargets
<1>7. NowInv'
  <2> SUFFICES ASSUME Quiet' PROVE (PeekNow(peek) /\ TakenNow(taken) /\ ScanNow(scan, Head(todo)))'
      BY DEF NowInv
  <2>1. PeekNow(peek)'
      BY <1>1 DEF PeekNow
  <2>2. TakenNow(taken)'
      BY <1>1 DEF TakenNow
  <2>3. ScanNow(scan, Head(todo))'
      BY <1>1, <1>2 DEF ScanNow, Begins
  <2> QED BY <2>1, <2>2, <2>3
<1> QED BY <1>3, <1>4, <1>5, <1>6, <1>7 DEF MemoryInv

-----------------------------------------------------------------------------
(* Steps of the collection.                                                *)

LEMMA FailStep ==
    ASSUME IInv, pc' = "failed", UNCHANGED <<provider, forge>>
    PROVE  IInv'
<1>1. ForgeInv'
      BY Frame DEF IInv
<1> QED BY <1>1 DEF IInv, AgreeInv, Active

LEMMA NoRows ==
    ASSUME NEW n \in Nat
    PROVE  /\ Shown(<<>>, n)
           /\ \A s \in Seq(Row) : Ahead(<<>>, s) /\ SubSeq(s, 1, 0) = <<>> /\ Len(<<>>) <= Len(s)
<1>1. <<>> \in Seq(Row) /\ Len(<<>>) = 0 /\ DOMAIN <<>> = {}
      OBVIOUS
<1>2. \A s \in Seq(Row) : SubSeq(s, 1, 0) = <<>>
      BY SubSeqEmpty
<1> QED BY <1>1, <1>2, SeqRow DEF Shown, Sorted, Older, Ahead

\* A target whose reading begins.
LEMMA OpenedShape ==
    ASSUME ForgeInv, first.head \in DOMAIN checks, NEW known, PeekInv(known),
           NEW t, t \in Tops \/ t = Checks(first.head) \/ \E p : t = Nested(p),
           provider = "github" => t \in DOMAIN known
    PROVE  /\ ScanInv(Opened(t, known), t, known)
           /\ PeekNow(known) => ScanNow(Opened(t, known), t)
<1> DEFINE r == Opened(t, known)
<1>1. History(t) => Shown(Content(t), Newest)
  <2> SUFFICES ASSUME History(t) PROVE Shown(Content(t), Newest)
      OBVIOUS
  <2>1. t \in Tops \/ t = Checks(first.head) \/ \E p \in DOMAIN inline : t = Nested(p)
      BY TargetKinds
  <2> QED BY <2>1, ContentShown
<1>2. Newest \in Nat /\ Shown(Contexts, Newest)
      BY NewestNat DEF ForgeInv, Contexts
<1>3. CASE provider = "github"
  <2>1. /\ r.got = known[t].rows /\ r.total = known[t].total /\ r.more = known[t].more
        /\ r = [got |-> known[t].rows, total |-> known[t].total, more |-> known[t].more, pages |-> 0]
      BY <1>3 DEF Opened
  <2>2. t \in DOMAIN known /\ known[t] \in Page
      BY <1>3 DEF PeekInv
  <2>3. r \in Reads
    <3>1. known[t].rows \in Seq(Row) /\ known[t].total \in Nat /\ known[t].more \in BOOLEAN
        BY <2>2 DEF Page
    <3> QED BY <2>1, <3>1 DEF Reads
  <2>4. t = Top(Parent) => ToldOf(known, r.got)
      BY <1>3, <2>1 DEF PeekInv
  <2>5. t = Checks(first.head) => Shown(r.got, Newest)
      BY <1>3, <2>1, <2>2 DEF PeekInv
  <2>6. ASSUME PeekNow(known), History(t) PROVE Begins(r, Content(t))
    <3>1. known[t] = PageOf(Content(t), <<>>, 0)
        BY <2>2, <2>6 DEF PeekNow
    <3>2. /\ known[t].total = Len(Content(t)) /\ Len(known[t].rows) <= Len(Content(t))
          /\ known[t].rows = SubSeq(Content(t), 1, Len(known[t].rows))
        BY <1>1, <1>2, <2>6, <3>1, FirstPage
    <3> QED BY <2>1, <3>2 DEF Begins, Prefix
  <2> HIDE DEF r
  <2>7. ScanInv(r, t, known)
      BY <1>3, <2>3, <2>4, <2>5 DEF ScanInv
  <2>8. PeekNow(known) => ScanNow(r, t)
      BY <2>6 DEF ScanNow
  <2> QED BY <2>7, <2>8 DEF r
<1>4. CASE provider = "forgejo"
  <2>1. r = [got |-> <<>>, total |-> 0, more |-> TRUE, pages |-> 0]
      BY <1>4 DEF Opened
  <2> HIDE DEF r
  <2>2. r \in Reads /\ r.got = <<>> /\ r.more /\ r.pages = 0 /\ Len(r.got) = 0
      BY <2>1, NoRows, <1>2 DEF Reads, Shown
  <2>3. Len(r.got) = r.pages * PageSize
      BY <2>2, Limits
  <2>4. ToldOf(known, r.got)
      BY <2>2 DEF ToldOf, Ids
  <2>5. Shown(r.got, Newest) /\ Ahead(r.got, Contexts)
      BY <1>2, <2>2, NoRows DEF Shown
  <2>6. ASSUME History(t) PROVE Begins(r, Content(t))
      BY <1>1, <1>2, <1>4, <2>2, <2>6, NoRows DEF Begins, Prefix, Shown
  <2>7. ScanInv(r, t, known)
      BY <2>2, <2>3, <2>4, <2>5 DEF ScanInv
  <2>8. ScanNow(r, t)
      BY <2>6 DEF ScanNow
  <2> QED BY <2>7, <2>8 DEF r
<1> QED BY <1>3, <1>4 DEF ForgeInv

\* A complete reading of rows that did not change has all of them.
LEMMA CompleteReads ==
    ASSUME NEW s \in Seq(Row), NEW r, Begins(r, s), Len(r.got) = r.total,
           provider = "github" \/ r.pages > 0
    PROVE  r.got = s
<1>1. r.got = SubSeq(s, 1, Len(s))
      BY DEF Begins, Prefix
<1> QED BY <1>1, SubSeqFull

\* What a response tells is as the forge has it now.
LEMMA ToldShape ==
    ASSUME ForgeInv, NEW f, \A u \in DOMAIN f : f[u] \in Page,
           NEW t, NEW rows, t = Top(Parent) => Ids(rows) \subseteq DOMAIN inline,
           NEW known, known = Merge(f, Told(t, rows))
    PROVE  /\ \A u \in DOMAIN known : known[u] \in Page
           /\ PeekNow(f) => PeekNow(known)
           /\ DOMAIN f \subseteq DOMAIN known /\ \A u \in DOMAIN f : known[u] = f[u]
           /\ t = Top(Parent) => ToldOf(known, rows)
           /\ \A h : Checks(h) \in DOMAIN known => Checks(h) \in DOMAIN f
<1> DEFINE g == Told(t, rows)
<1>1. /\ DOMAIN known = DOMAIN f \cup DOMAIN g
      /\ \A u \in DOMAIN f : known[u] = f[u]
      /\ \A u \in DOMAIN g : u \notin DOMAIN f => known[u] = g[u]
      BY Merged
<1>2. CASE t # Top(Parent)
  <2>1. g = <<>>
      BY <1>2 DEF Told
  <2>2. DOMAIN g = {}
      BY <2>1
  <2> HIDE DEF g
  <2> QED BY <1>1, <1>2, <2>2 DEF PeekNow
<1>3. CASE t = Top(Parent)
  <2>1. /\ DOMAIN g = {Nested(p) : p \in Ids(rows)}
        /\ \A u \in DOMAIN g : g[u] = PageOf(inline[u[2]], <<>>, 0)
      BY <1>3 DEF Told
  <2> HIDE DEF g
  <2>2. ASSUME NEW u \in DOMAIN g
        PROVE  /\ g[u] \in Page /\ g[u] = PageOf(Content(u), <<>>, 0)
               /\ \A h : u # Checks(h)
    <3>1. PICK p \in Ids(rows) : u = Nested(p)
        BY <2>1
    <3>2. u[2] = p /\ p \in DOMAIN inline
        BY <1>3, <3>1 DEF Nested
    <3>3. Shown(inline[p], Newest) /\ Newest \in Nat
        BY <3>2, NewestNat DEF ForgeInv
    <3>4. g[u] = PageOf(inline[p], <<>>, 0)
        BY <2>1, <3>2
    <3>5. g[u] \in Page
        BY <3>3, <3>4, FirstPage
    <3>6. Content(u) = inline[p] /\ \A h : u # Checks(h)
        BY <3>1, TargetKinds
    <3> QED BY <3>4, <3>5, <3>6
  <2>3. ToldOf(known, rows)
      BY <1>1, <2>1 DEF ToldOf
  <2>4. PeekNow(f) => PeekNow(known)
    <3> SUFFICES ASSUME PeekNow(f), NEW u \in DOMAIN known, History(u)
                 PROVE  known[u] = PageOf(Content(u), <<>>, 0)
        BY DEF PeekNow
    <3>1. CASE u \in DOMAIN f
        BY <3>1, <1>1 DEF PeekNow
    <3>2. CASE u \notin DOMAIN f
        BY <3>2, <1>1, <2>2
    <3> QED BY <3>1, <3>2
  <2> QED BY <1>1, <2>2, <2>3, <2>4
<1> QED BY <1>2, <1>3

\* What is being read.
LEMMA HeadKind ==
    ASSUME ForgeInv, MemoryInv, pc \in Active
    PROVE  /\ Head(todo) \in PhaseTargets(pc, taken)
           /\ todo # <<>> /\ todo \in Seq(PhaseTargets(pc, taken))
           /\ pc = "history" => Head(todo) \in Tops
           /\ pc = "inline" => \E p \in Ids(taken[Top(Parent)]) : Head(todo) = Nested(p)
           /\ pc \in {"checks", "fresh", "recheck"} => Head(todo) = Checks(first.head)
           /\ \/ Head(todo) \in Tops \/ Head(todo) = Checks(first.head)
              \/ \E p : Head(todo) = Nested(p)
           /\ Parent \in Range(Lists) /\ Top(Parent) \in Tops
<1>1. todo \in Seq(PhaseTargets(pc, taken)) /\ todo # <<>>
      BY DEF MemoryInv, PhaseInv
<1>2. Head(todo) \in PhaseTargets(pc, taken)
      BY <1>1, HeadTailProperties, Zenon
<1>3. pc = "history" => Head(todo) \in Tops
      BY <1>2 DEF PhaseTargets
<1>4. pc = "inline" => \E p \in Ids(taken[Top(Parent)]) : Head(todo) = Nested(p)
      BY <1>2 DEF PhaseTargets
<1>5. pc \in {"checks", "fresh", "recheck"} => Head(todo) = Checks(first.head)
      BY <1>2 DEF PhaseTargets
<1>6. Parent \in Range(Lists) /\ Top(Parent) \in Tops
      BY ListNames DEF ForgeInv, Tops
<1> QED BY <1>1, <1>2, <1>3, <1>4, <1>5, <1>6 DEF Active

LEMMA ConcatIds ==
    ASSUME NEW a \in Seq(Row), NEW b \in Seq(Row)
    PROVE  a \o b \in Seq(Row) /\ Len(a \o b) = Len(a) + Len(b) /\ Ids(a \o b) \subseteq Ids(a) \cup Ids(b)
<1>1. /\ a \o b \in Seq(Row) /\ Len(a \o b) = Len(a) + Len(b)
      /\ \A i \in 1 .. Len(a) + Len(b) : (a \o b)[i] = IF i <= Len(a) THEN a[i] ELSE b[i - Len(a)]
      BY ConcatProperties, Zenon
<1> DEFINE c == a \o b
<1>2. /\ Len(a) \in Nat /\ DOMAIN a = 1 .. Len(a) /\ Len(b) \in Nat /\ DOMAIN b = 1 .. Len(b)
      /\ DOMAIN c = 1 .. Len(a) + Len(b)
      BY <1>1, SeqRow
<1> HIDE DEF c
<1>3. ASSUME NEW i \in DOMAIN c PROVE c[i].id \in Ids(a) \cup Ids(b)
  <2>1. i \in 1 .. Len(a) + Len(b) /\ c[i] = IF i <= Len(a) THEN a[i] ELSE b[i - Len(a)]
      BY <1>1, <1>2 DEF c
  <2>2. CASE i <= Len(a)
      BY <1>2, <2>1, <2>2 DEF Ids
  <2>3. CASE ~(i <= Len(a))
    <3>1. i - Len(a) \in DOMAIN b
        BY <1>2, <2>1, <2>3
    <3> QED BY <2>1, <2>3, <3>1 DEF Ids
  <2> QED BY <2>2, <2>3
<1>4. Ids(c) \subseteq Ids(a) \cup Ids(b)
      BY <1>3 DEF Ids
<1> QED BY <1>1, <1>4 DEF c

\* How many rows Forgejo has sent when more follow.
LEMMA ForgejoFull ==
    ASSUME NEW page \in Page, Len(page.rows) <= PageSize, NEW t,
           scan \in Reads, Len(scan.got) = scan.pages * PageSize,
           ForgejoPage(page), ForgejoMore(t, page)
    PROVE  Len(scan.got) + Len(page.rows) = (scan.pages + 1) * PageSize
<1>1. /\ Len(scan.got) \in Nat /\ Len(page.rows) \in Nat /\ page.total \in Nat /\ scan.pages \in Nat
      /\ PageSize \in Nat
      BY Limits, SeqRow DEF Reads, Page
<1>2. Len(page.rows) = PageSize \/ Len(page.rows) = page.total - Len(scan.got)
      BY DEF ForgejoPage
<1>3. Len(page.rows) = PageSize
  <2>1. CASE t[1] = "checks"
      BY <1>1, <1>2, <2>1 DEF ForgejoMore
  <2>2. CASE t[1] # "checks"
    <3>1. Len(scan.got) + Len(page.rows) = page.total => ~(Len(page.rows) < PageSize)
        BY <2>2 DEF ForgejoMore
    <3> QED BY <1>1, <1>2, <3>1
  <2> QED BY <2>1, <2>2
<1>4. \A p, q \in Nat : p * q + q = (p + 1) * q
      OBVIOUS
<1> QED BY <1>1, <1>3, <1>4

LEMMA Behind ==
    ASSUME NEW a \in Nat, NEW b \in Nat, NEW j \in 1 .. a + b, ~(j <= a)
    PROVE  j - a \in 1 .. b
OBVIOUS

LEMMA ForgejoMoreBoolean == ASSUME NEW t, NEW page PROVE ForgejoMore(t, page) \in BOOLEAN
<1>1. CASE t[1] = "checks"
      BY <1>1 DEF ForgejoMore
<1>2. CASE t[1] # "checks"
      BY <1>2 DEF ForgejoMore
<1> QED BY <1>1, <1>2

LEMMA NextPageStep ==
    ASSUME IInv, NextPage
    PROVE  IInv'
<1> DEFINE t == Head(todo)
           s == Content(t)
           page == PageOf(s, scan.got, scan.pages)
           good == Exists(t) /\ IF provider = "github" THEN GithubPage(page) ELSE ForgejoPage(page)
           r == [got |-> scan.got \o page.rows, total |-> page.total,
                 more |-> IF provider = "github" THEN page.more ELSE ForgejoMore(t, page),
                 pages |-> scan.pages + 1]
           known == Merge(peek, Told(t, page.rows))
<1>1. /\ pc \in Reading /\ scan.more /\ UNCHANGED <<provider, forge>>
      /\ \/ /\ good /\ scan' = r /\ peek' = known
            /\ UNCHANGED <<pc, first, todo, taken, ghosts>>
         \/ ~good /\ Fail
      BY DEF NextPage
<1>2. CASE ~good /\ Fail
      BY <1>1, <1>2, FailStep DEF Fail
<1>3. CASE good /\ scan' = r /\ peek' = known /\ UNCHANGED <<pc, first, todo, taken, ghosts>>
  <2> USE <1>3
  <2>1. pc \in Active /\ ForgeInv /\ MemoryInv /\ TimeInv /\ Newest \in Nat
      BY <1>1, NewestNat DEF IInv, MemoryInv, Reading, Active
  <2>2. /\ t \in Tops \/ t = Checks(first.head) \/ \E p : t = Nested(p)
        /\ Parent \in Range(Lists) /\ Top(Parent) \in Tops
      BY <2>1, HeadKind
  <2>3. Shown(s, Newest) /\ s \in Seq(Row) /\ Sorted(s)
    <3>1. t \in Tops \/ t = Checks(first.head) \/ \E p \in DOMAIN inline : t = Nested(p)
        BY <2>2, TargetKinds
    <3> QED BY <2>1, <3>1, ContentShown DEF TimeInv, Shown
  <2>4. scan \in Reads /\ scan.got \in Seq(Row) /\ scan.pages \in Nat
      BY <2>1 DEF MemoryInv, ScanInv, Reads
  <2> DEFINE k == Skip(s, scan.got, scan.pages)
  <2>5. PageAfter(page, s, k)
      BY <2>3, <2>4, PageShape
  <2> HIDE DEF page, k
  <2>6. /\ page \in Page /\ page.rows \in Seq(Row) /\ page.total = Len(s) /\ page.more \in BOOLEAN
        /\ Len(page.rows) <= PageSize /\ Len(s) \in Nat
      BY <2>3, <2>5, SeqRow DEF PageAfter, Page
  <2>7. t = Top(Parent) => Ids(page.rows) \subseteq DOMAIN inline
    <3> SUFFICES ASSUME t = Top(Parent), NEW i \in DOMAIN page.rows
                 PROVE  page.rows[i].id \in DOMAIN inline
        BY DEF Ids
    <3>1. s = lists[Parent]
        BY TargetKinds
    <3>2. k + i \in DOMAIN s /\ page.rows[i] = s[k + i]
        BY <2>5 DEF PageAfter
    <3> QED BY <2>1, <3>1, <3>2 DEF ForgeInv, Ids
  <2>8. \A u \in DOMAIN peek : peek[u] \in Page
      BY <2>1 DEF MemoryInv, PeekInv
  <2>9. /\ \A u \in DOMAIN known : known[u] \in Page
        /\ PeekNow(peek) => PeekNow(known)
        /\ DOMAIN peek \subseteq DOMAIN known /\ \A u \in DOMAIN peek : known[u] = peek[u]
        /\ t = Top(Parent) => ToldOf(known, page.rows)
        /\ \A h : Checks(h) \in DOMAIN known => Checks(h) \in DOMAIN peek
    <3> DEFINE rows == page.rows
    <3>1. known = Merge(peek, Told(t, rows))
        OBVIOUS
    <3> HIDE DEF known, rows, t
    <3>2. t = Top(Parent) => Ids(rows) \subseteq DOMAIN inline
        BY <2>7 DEF rows
    <3>3. /\ \A u \in DOMAIN known : known[u] \in Page
          /\ PeekNow(peek) => PeekNow(known)
          /\ DOMAIN peek \subseteq DOMAIN known /\ \A u \in DOMAIN peek : known[u] = peek[u]
          /\ t = Top(Parent) => ToldOf(known, rows)
          /\ \A h : Checks(h) \in DOMAIN known => Checks(h) \in DOMAIN peek
        BY <2>1, <2>8, <3>1, <3>2, ToldShape
    <3> QED BY <3>3 DEF rows
  <2> DEFINE got == scan.got \o page.rows
             more == IF provider = "github" THEN page.more ELSE ForgejoMore(t, page)
  <2>10. /\ got \in Seq(Row) /\ Len(got) = Len(scan.got) + Len(page.rows)
         /\ Ids(got) \subseteq Ids(scan.got) \cup Ids(page.rows)
      BY <2>4, <2>6, ConcatIds
  <2>11. more \in BOOLEAN
    <3>1. ForgejoMore(t, page) \in BOOLEAN
        BY ForgejoMoreBoolean
    <3> QED BY <2>6, <3>1
  <2>12. r.got = got /\ r.total = page.total /\ (r.more <=> more) /\ r.pages = scan.pages + 1
         /\ r \in Reads
    <3>1. more = TRUE \/ more = FALSE
        BY <2>11
    <3>2. r = [got |-> got, total |-> page.total, more |-> more, pages |-> scan.pages + 1]
        OBVIOUS
    <3> HIDE DEF r, got, more
    <3>3. scan.pages + 1 \in Nat /\ page.total \in Nat
        BY <2>4, <2>6
    <3>4. CASE more = TRUE
        BY <2>10, <3>2, <3>3, <3>4 DEF Reads
    <3>5. CASE more = FALSE
        BY <2>10, <3>2, <3>3, <3>5 DEF Reads
    <3> QED BY <3>1, <3>4, <3>5
  <2>13. provider = "forgejo" => Len(scan.got) = scan.pages * PageSize
      BY <1>1, <2>1 DEF MemoryInv, ScanInv
  <2>14. provider = "forgejo" => IF r.more THEN Len(r.got) = r.pages * PageSize ELSE r.pages > 0
    <3> SUFFICES ASSUME provider = "forgejo"
                 PROVE  IF r.more THEN Len(r.got) = r.pages * PageSize ELSE r.pages > 0
        OBVIOUS
    <3> HIDE DEF r, got
    <3>1. r.more => ForgejoMore(t, page) /\ ForgejoPage(page)
        BY <2>12
    <3>2. r.more => Len(r.got) = r.pages * PageSize
        BY <2>4, <2>6, <2>10, <2>12, <2>13, <3>1, ForgejoFull
    <3>3. r.pages > 0
        BY <2>4, <2>12
    <3> QED BY <3>2, <3>3
  <2>15. t = Top(Parent) => ToldOf(known, r.got)
    <3> SUFFICES ASSUME t = Top(Parent), NEW p \in Ids(r.got) PROVE Nested(p) \in DOMAIN known
        BY DEF ToldOf
    <3> HIDE DEF r, got, known
    <3>1. p \in Ids(scan.got) \/ p \in Ids(page.rows)
        BY <2>10, <2>12
    <3>2. ToldOf(peek, scan.got)
        BY <2>1 DEF MemoryInv, ScanInv
    <3> QED BY <2>9, <3>1, <3>2 DEF ToldOf
  <2>16. t = Checks(first.head) =>
             Shown(r.got, Newest) /\ (provider = "forgejo" => Ahead(r.got, Contexts))
    <3> SUFFICES ASSUME t = Checks(first.head)
                 PROVE  Shown(r.got, Newest) /\ (provider = "forgejo" => Ahead(r.got, Contexts))
        OBVIOUS
    <3>1. s = Contexts
        BY TargetKinds DEF Contexts
    <3>2. Shown(scan.got, Newest) /\ (provider = "forgejo" => Ahead(scan.got, s))
        BY <2>1, <3>1 DEF MemoryInv, ScanInv
    <3>3. page = PageOf(s, scan.got, scan.pages) /\ provider \in {"github", "forgejo"}
        BY <2>1 DEF ForgeInv, page
    <3> HIDE DEF s, r
    <3>4. Shown(got, Newest) /\ (provider = "forgejo" => Ahead(got, s))
        BY <2>1, <2>3, <2>4, <2>13, <3>2, <3>3, NextShown
    <3> QED BY <2>12, <3>1, <3>4
  <2>17. ScanNow(scan, t) => ScanNow(r, t)
    <3> SUFFICES ASSUME ScanNow(scan, t), History(t) PROVE Begins(r, s)
        BY DEF ScanNow
    <3>1. Prefix(scan.got, s)
        BY DEF ScanNow, Begins
    <3>2. page = PageOf(s, scan.got, scan.pages) /\ provider \in {"github", "forgejo"}
        BY <2>1 DEF ForgeInv, page
    <3> HIDE DEF s, r
    <3>3. Prefix(got, s)
        BY <2>1, <2>3, <2>4, <2>13, <3>1, <3>2, NextPrefix
    <3> QED BY <2>6, <2>12, <3>3 DEF Begins
  <2> HIDE DEF r, known, s, got, more
  <2>18. PeekInv(known)
      BY <2>1, <2>2, <2>9 DEF MemoryInv, PeekInv, ToldOf
  <2>19. TakenInv(taken, known)
      BY <2>1, <2>9 DEF MemoryInv, TakenInv, ToldOf
  <2>20. ScanInv(r, t, known)
      BY <2>12, <2>14, <2>15, <2>16 DEF ScanInv
  <2>21. PhaseInv(pc, todo, taken, known)
    <3>1. PhaseInv(pc, todo, taken, peek) /\ TakenInv(taken, peek)
        BY <2>1 DEF MemoryInv
    <3>2. ASSUME pc # "history", NEW p \in Ids(taken[Top(Parent)]), ~(peek[Nested(p)].total > 0)
          PROVE  ~(known[Nested(p)].total > 0)
      <4>1. Nested(p) \in DOMAIN peek
          BY <2>2, <3>1, <3>2 DEF PhaseInv, TakenInv, ToldOf
      <4> QED BY <2>9, <3>2, <4>1
    <3> QED BY <3>1, <3>2 DEF PhaseInv
  <2>22. NowInv
      BY <2>1 DEF MemoryInv
  <2>23. Quiet' <=> Quiet
      BY <1>1 DEF Quiet, forge, ghosts
  <2>24. TimeInv'
      BY <1>1, <2>1 DEF TimeInv, forge, ghosts
  <2>25. MemoryInv'
    <3>1. UNCHANGED <<provider, forge, first>> /\ peek' = known /\ taken' = taken /\ scan' = r
          /\ Head(todo') = t /\ pc' = pc /\ todo' = todo
        BY <1>1
    <3>2. Quiet' => PeekNow(known) /\ TakenNow(taken) /\ ScanNow(r, t)
        BY <2>9, <2>17, <2>22, <2>23 DEF NowInv
    <3> QED BY <2>18, <2>19, <2>20, <2>21, <2>24, <3>1, <3>2, Kept
  <2>26. AgreeInv'
    <3>1. pc = "recheck" /\ ~exact.checks => Differ(scan, taken[Checks(first.head)])
        BY DEF IInv, AgreeInv
    <3>2. ASSUME pc = "recheck", NEW rows, Differ(scan, rows) PROVE Differ(r, rows)
      <4>1. s = Contexts
          BY <2>1, <3>2, HeadKind, TargetKinds DEF Contexts, s
      <4>2. CASE \E i \in DOMAIN rows : Gone(rows[i]) /\ \A j \in DOMAIN scan.got : scan.got[j] # rows[i]
        <5>1. PICK i \in DOMAIN rows : Gone(rows[i]) /\ \A j \in DOMAIN scan.got : scan.got[j] # rows[i]
            BY <4>2
        <5>2. \A j \in DOMAIN page.rows : page.rows[j] # rows[i]
            BY <2>5, <4>1, <5>1 DEF PageAfter, Gone
        <5>3. ASSUME NEW j \in DOMAIN got PROVE got[j] # rows[i]
          <6>0. j \in 1 .. Len(scan.got) + Len(page.rows)
              BY <2>10, SeqRow
          <6>1. got[j] = IF j <= Len(scan.got) THEN scan.got[j] ELSE page.rows[j - Len(scan.got)]
            <7>1. \A m \in 1 .. Len(scan.got) + Len(page.rows) :
                     got[m] = IF m <= Len(scan.got) THEN scan.got[m] ELSE page.rows[m - Len(scan.got)]
                BY <2>4, <2>6, ConcatProperties, ZenonT(60) DEF got
            <7> QED BY <6>0, <7>1
          <6>2. CASE j <= Len(scan.got)
            <7>1. j \in DOMAIN scan.got
                BY <2>4, <2>6, <6>0, <6>2, SeqRow
            <7> QED BY <5>1, <6>1, <6>2, <7>1
          <6>3. CASE ~(j <= Len(scan.got))
            <7>1. Len(scan.got) \in Nat /\ Len(page.rows) \in Nat /\ DOMAIN page.rows = 1 .. Len(page.rows)
                BY <2>4, <2>6, SeqRow
            <7>2. j - Len(scan.got) \in 1 .. Len(page.rows)
                BY <6>0, <6>3, <7>1, Behind, Zenon
            <7> QED BY <5>2, <6>1, <6>3, <7>1, <7>2
          <6> QED BY <6>2, <6>3
        <5> QED BY <2>12, <5>1, <5>3 DEF Differ
      <4>3. CASE Len(rows) < IF provider = "forgejo" /\ scan.pages = 0 THEN Len(Contexts) ELSE scan.total
        <5>1. r.total = Len(Contexts) /\ r.pages # 0
            BY <2>4, <2>6, <2>12, <4>1
        <5>2. ~(provider = "forgejo" /\ scan.pages = 0) => scan.total = page.total
            BY <2>1, <2>4 DEF GithubPage, ForgejoPage, ForgeInv
        <5> QED BY <2>6, <4>1, <4>3, <5>1, <5>2 DEF Differ
      <4> QED BY <3>2, <4>2, <4>3 DEF Differ
    <3>3. UNCHANGED <<provider, forge, first, taken, exact, settled, pc>> /\ scan' = r
        BY <1>1 DEF ghosts
    <3>4. Newest' = Newest /\ Contexts' = Contexts
        BY <3>3, Frame DEF Contexts, forge
    <3>5. pc = "recheck" /\ ~exact.checks => Differ(r, taken[Checks(first.head)])
        BY <3>1, <3>2
    <3>6. Differ(scan', taken'[Checks(first'.head)]) => Differ(scan, taken[Checks(first.head)])'
        BY <3>3, <3>4 DEF Differ, Gone
    <3> QED BY <3>3, <3>5, <3>6, <1>1 DEF AgreeInv, IInv, Reading
  <2>27. ForgeInv'
      BY <1>1, <2>1, Frame
  <2> QED BY <1>1, <2>1, <2>25, <2>26, <2>27 DEF IInv, Reading, Active
<1> QED BY <1>1, <1>2, <1>3

\* The n-th of a finite set of numbers.
LEMMA NthOfSet ==
    ASSUME NEW m \in Nat, NEW S \in SUBSET (1 .. m)
    PROVE  /\ Cardinality(S) \in Nat
           /\ \A n \in 1 .. Cardinality(S) : Nth(S, n) \in S
           /\ \A i \in S : \E n \in 1 .. Cardinality(S) : Nth(S, n) = i
<1> DEFINE Below(i) == {j \in S : j < i}
           c == Cardinality(S)
           f == [i \in S |-> Cardinality(Below(i)) + 1]
<1>1. IsFiniteSet(1 .. m)
      BY UpTo, Zenon
<1>2. IsFiniteSet(S) /\ c \in Nat
      BY <1>1, FS_Subset, FS_CardinalityType, Zenon
<1>3. ASSUME NEW i \in S
      PROVE  /\ IsFiniteSet(Below(i)) /\ Cardinality(Below(i)) \in Nat /\ Cardinality(Below(i)) < c
             /\ \A k \in S : i < k => Cardinality(Below(i)) < Cardinality(Below(k))
  <2>1. \A T \in SUBSET S : IsFiniteSet(T) /\ Cardinality(T) \in Nat
      BY <1>2, FS_Subset, FS_CardinalityType, Zenon
  <2>2. Below(i) \in SUBSET S /\ i \notin Below(i)
      OBVIOUS
  <2>3. IsFiniteSet(Below(i)) /\ Cardinality(Below(i)) \in Nat
      BY <2>1, <2>2
  <2> DEFINE T == Below(i) \cup {i}
  <2>4. Cardinality(T) = Cardinality(Below(i)) + 1
    <3> HIDE DEF Below
    <3>1. Cardinality(Below(i) \cup {i}) =
             IF i \in Below(i) THEN Cardinality(Below(i)) ELSE Cardinality(Below(i)) + 1
        BY <2>3, FS_AddElement, Zenon
    <3> QED BY <2>2, <3>1
  <2>5. Cardinality(T) <= c
    <3>1. T \in SUBSET S
        OBVIOUS
    <3> QED BY <3>1, <1>2, FS_Subset, Zenon
  <2>6. ASSUME NEW k \in S, i < k PROVE Cardinality(T) <= Cardinality(Below(k))
    <3>1. T \in SUBSET Below(k)
      <4>1. \A j \in S : j \in Nat
          OBVIOUS
      <4>2. \A j \in S : j < i => j < k
          BY <2>6, <4>1
      <4> QED BY <2>6, <4>2
    <3>2. IsFiniteSet(Below(k))
        BY <2>1
    <3> QED BY <3>1, <3>2, FS_Subset, Zenon
  <2> HIDE DEF Below, T, c
  <2>7. Cardinality(Below(i)) < c
      BY <1>2, <2>3, <2>4, <2>5
  <2>8. ASSUME NEW k \in S, i < k PROVE Cardinality(Below(i)) < Cardinality(Below(k))
    <3>1. Cardinality(Below(k)) \in Nat
        BY <2>1 DEF Below
    <3> QED BY <2>3, <2>4, <2>6, <2>8, <3>1
  <2> QED BY <2>3, <2>7, <2>8
<1>4. f \in Injection(S, 1 .. c)
  <2> HIDE DEF Below, c
  <2>1. ASSUME NEW i \in S PROVE f[i] \in 1 .. c
      BY <1>2, <1>3
  <2>2. ASSUME NEW i \in S, NEW k \in S, f[i] = f[k] PROVE i = k
    <3>1. /\ Cardinality(Below(i)) \in Nat /\ Cardinality(Below(k)) \in Nat
          /\ Cardinality(Below(i)) + 1 = Cardinality(Below(k)) + 1
          /\ i < k => Cardinality(Below(i)) < Cardinality(Below(k))
          /\ k < i => Cardinality(Below(k)) < Cardinality(Below(i))
        BY <1>3, <2>2
    <3>2. ~(i < k) /\ ~(k < i)
        BY <3>1
    <3> QED BY <3>2
  <2> QED BY <2>1, <2>2 DEF Injection, IsInjective
<1>5. f \in Surjection(S, 1 .. c)
  <2>1. IsFiniteSet(1 .. c) /\ Cardinality(1 .. c) = Cardinality(S)
      BY <1>2, UpTo, Zenon
  <2> HIDE DEF c, f
  <2> QED BY <1>4, <2>1, FS_Injection, Zenon
<1>6. ASSUME NEW n \in 1 .. c
      PROVE  Nth(S, n) \in S /\ Cardinality(Below(Nth(S, n))) = n - 1
  <2>1. PICK i \in S : f[i] = n
      BY <1>5 DEF Surjection
  <2>2. Cardinality(Below(i)) = n - 1
    <3>1. Cardinality(Below(i)) + 1 = n /\ Cardinality(Below(i)) \in Nat
        BY <1>3, <2>1
    <3> HIDE DEF Below
    <3> QED BY <3>1
  <2> QED BY <2>2 DEF Nth
<1>7. ASSUME NEW i \in S PROVE \E n \in 1 .. c : Nth(S, n) = i
  <2> DEFINE n == f[i]
  <2>1. n \in 1 .. c
      BY <1>4 DEF Injection
  <2>2. Nth(S, n) \in S /\ Cardinality(Below(Nth(S, n))) = n - 1
      BY <1>6, <2>1
  <2>3. Cardinality(Below(i)) = n - 1 /\ Cardinality(Below(i)) \in Nat
      BY <1>3
  <2> HIDE DEF n, Below, f, c
  <2> DEFINE q == Nth(S, n)
  <2>4. q \in S /\ i \in Nat /\ q \in Nat /\ Cardinality(Below(q)) = Cardinality(Below(i))
    <3>1. q \in S /\ Cardinality(Below(q)) = Cardinality(Below(i))
        BY <2>2, <2>3
    <3>2. \A j \in S : j \in Nat
        OBVIOUS
    <3> QED BY <3>1, <3>2
  <2> HIDE DEF q
  <2>5. /\ i < q => Cardinality(Below(i)) < Cardinality(Below(q))
        /\ q < i => Cardinality(Below(q)) < Cardinality(Below(i))
      BY <1>3, <2>4
  <2>6. q = i
      BY <2>3, <2>4, <2>5
  <2> QED BY <2>1, <2>6 DEF q
<1> QED BY <1>2, <1>6, <1>7

LEMMA InlineTargetsShape ==
    ASSUME NEW rows \in Seq(Row), provider \in {"github", "forgejo"}
    PROVE  /\ InlineTargets(rows) \in Seq({Nested(p) : p \in Ids(rows)})
           /\ \A p \in Ids(rows) : \/ Nested(p) \in Range(InlineTargets(rows))
                                   \/ provider = "forgejo" /\ ~(peek[Nested(p)].total > 0)
<1> DEFINE S == Counted(rows)
           s == InlineTargets(rows)
<1>1. Len(rows) \in Nat /\ DOMAIN rows = 1 .. Len(rows) /\ S \in SUBSET (1 .. Len(rows))
      BY SeqRow DEF Counted
<1>2. /\ Cardinality(S) \in Nat
      /\ \A n \in 1 .. Cardinality(S) : Nth(S, n) \in S
      /\ \A i \in S : \E n \in 1 .. Cardinality(S) : Nth(S, n) = i
      BY <1>1, NthOfSet, Zenon
<1>3. /\ s = [n \in 1 .. Cardinality(S) |-> Nested(rows[Nth(S, n)].id)]
      /\ DOMAIN s = 1 .. Cardinality(S)
      BY DEF InlineTargets
<1>4. \A n \in 1 .. Cardinality(S) : Nested(rows[Nth(S, n)].id) \in {Nested(p) : p \in Ids(rows)}
      BY <1>1, <1>2 DEF Ids
<1>5. s \in Seq({Nested(p) : p \in Ids(rows)})
  <2> HIDE DEF S
  <2> QED BY <1>2, <1>3, <1>4, IsASeq
<1>6. ASSUME NEW p \in Ids(rows), ~(provider = "forgejo" /\ ~(peek[Nested(p)].total > 0))
      PROVE  Nested(p) \in Range(s)
  <2>1. PICK i \in DOMAIN rows : rows[i].id = p
      BY DEF Ids
  <2>2. i \in S
      BY <1>6, <2>1 DEF Counted
  <2>3. PICK n \in 1 .. Cardinality(S) : Nth(S, n) = i
      BY <1>2, <2>2
  <2>4. n \in DOMAIN s /\ s[n] = Nested(p)
      BY <1>3, <2>1, <2>3
  <2> HIDE DEF s
  <2> QED BY <2>4 DEF Range
<1> QED BY <1>5, <1>6

LEMMA PhaseHead ==
    ASSUME ForgeInv, NEW phase \in Active, NEW ts, NEW got, NEW known, PhaseInv(phase, ts, got, known)
    PROVE  /\ \/ Head(ts) \in Tops \/ Head(ts) = Checks(first.head)
              \/ phase = "inline" /\ \E p \in Ids(got[Top(Parent)]) : Head(ts) = Nested(p)
           /\ phase = "inline" => Top(Parent) \in DOMAIN got
<1>1. ts \in Seq(PhaseTargets(phase, got)) /\ ts # <<>>
      BY DEF PhaseInv
<1>2. Head(ts) \in PhaseTargets(phase, got)
      BY <1>1, HeadTailProperties, Zenon
<1>3. phase = "inline" => Top(Parent) \in DOMAIN got
      BY ListNames DEF PhaseInv, ForgeInv, Tops
<1>4. CASE phase = "history"
      BY <1>2, <1>3, <1>4 DEF PhaseTargets
<1>5. CASE phase = "inline"
      BY <1>2, <1>3, <1>5 DEF PhaseTargets
<1>6. CASE phase \notin {"history", "inline"}
      BY <1>2, <1>3, <1>6 DEF PhaseTargets
<1> QED BY <1>4, <1>5, <1>6

\* Go on to other targets with what is known.
LEMMA ReadStep ==
    ASSUME IInv, pc \in Active, UNCHANGED <<provider, forge, first, peek, settled>>,
           pc' \in Active, scan' = Opened(Head(todo'), peek),
           TakenInv(taken', peek), Quiet => TakenNow(taken'), PhaseInv(pc', todo', taken', peek)
    PROVE  ForgeInv' /\ MemoryInv'
<1>1. ForgeInv /\ MemoryInv /\ TimeInv /\ PeekInv(peek)
      BY DEF IInv, MemoryInv
<1> DEFINE t == Head(todo')
<1>2. \/ t \in Tops \/ t = Checks(first.head)
      \/ pc' = "inline" /\ \E p \in Ids(taken'[Top(Parent)]) : t = Nested(p)
      BY <1>1, PhaseHead
<1>3. pc' = "inline" => Top(Parent) \in DOMAIN taken'
      BY <1>1, PhaseHead
<1>4. provider = "github" => t \in DOMAIN peek
  <2>1. ASSUME pc' = "inline", NEW p \in Ids(taken'[Top(Parent)]) PROVE Nested(p) \in DOMAIN peek
      BY <1>3, <2>1 DEF TakenInv, ToldOf
  <2> QED BY <1>1, <1>2, <2>1 DEF PeekInv
<1>5. t \in Tops \/ t = Checks(first.head) \/ \E p : t = Nested(p)
      BY <1>2
<1> HIDE DEF t
<1>6. /\ ScanInv(Opened(t, peek), t, peek)
      /\ PeekNow(peek) => ScanNow(Opened(t, peek), t)
      BY <1>1, <1>4, <1>5, OpenedShape DEF TimeInv
<1>7. Quiet' <=> Quiet
      BY DEF Quiet, forge
<1>8. TimeInv'
      BY <1>1 DEF TimeInv, forge
<1>9. Quiet => PeekNow(peek)
      BY <1>1 DEF MemoryInv, NowInv
<1>10. scan' = Opened(t, peek) /\ Head(todo') = t /\ peek' = peek
      BY DEF t
<1>11. MemoryInv'
  <2>1. Quiet' => PeekNow(peek') /\ TakenNow(taken') /\ ScanNow(scan', Head(todo'))
      BY <1>6, <1>7, <1>9, <1>10
  <2>2. PeekInv(peek') /\ TakenInv(taken', peek') /\ ScanInv(scan', Head(todo'), peek')
        /\ PhaseInv(pc', todo', taken', peek')
      BY <1>1, <1>6, <1>10
  <2> QED BY <1>8, <2>1, <2>2, Kept
<1> QED BY <1>1, <1>11, Frame

\* A target that is accepted.
LEMMA AcceptedTaken ==
    ASSUME ForgeInv, MemoryInv, pc \in Active, ~scan.more, Complete(Head(todo)),
           NEW got, got = Merge(taken, [t \in {Head(todo)} |-> scan.got])
    PROVE  /\ TakenInv(got, peek)
           /\ Quiet => TakenNow(got)
           /\ DOMAIN got = DOMAIN taken \cup {Head(todo)}
           /\ \A t \in DOMAIN taken : got[t] = taken[t]
<1> DEFINE h == Head(todo)
           g == [t \in {h} |-> scan.got]
<1>1. /\ DOMAIN got = DOMAIN taken \cup {h}
      /\ \A t \in DOMAIN taken : got[t] = taken[t]
      /\ h \notin DOMAIN taken => got[h] = scan.got
  <2>1. DOMAIN g = {h} /\ g[h] = scan.got
      OBVIOUS
  <2>2. got = Merge(taken, g)
      OBVIOUS
  <2> HIDE DEF g, h
  <2> DEFINE m == Merge(taken, g)
  <2>3. /\ DOMAIN m = DOMAIN taken \cup DOMAIN g
        /\ \A t \in DOMAIN taken : m[t] = taken[t]
        /\ \A t \in DOMAIN g : t \notin DOMAIN taken => m[t] = g[t]
      BY Merged, Zenon
  <2> HIDE DEF m
  <2>4. got = m
      BY <2>2 DEF m
  <2> QED BY <2>1, <2>3, <2>4
<1>2. TakenInv(taken, peek) /\ ScanInv(scan, h, peek) /\ TimeInv
      BY DEF MemoryInv
<1>3. scan \in Reads /\ scan.got \in Seq(Row)
      BY <1>2 DEF ScanInv, Reads
<1>4. provider = "github" \/ scan.pages > 0
      BY <1>2 DEF ScanInv, ForgeInv
<1>5. h \in Tops \/ h = Checks(first.head) \/ \E p : h = Nested(p)
      BY HeadKind
<1> HIDE DEF h
<1>6. TakenInv(got, peek)
      BY <1>1, <1>2, <1>3 DEF TakenInv, ScanInv
<1>7. ASSUME Quiet PROVE TakenNow(got)
  <2>1. TakenNow(taken) /\ ScanNow(scan, h)
      BY <1>7 DEF MemoryInv, NowInv, h
  <2>2. ASSUME History(h) PROVE scan.got = Content(h)
    <3>1. h \in Tops \/ h = Checks(first.head) \/ \E p \in DOMAIN inline : h = Nested(p)
        BY <1>5, <2>2, TargetKinds
    <3>2. Content(h) \in Seq(Row)
        BY <1>2, <3>1, ContentShown DEF TimeInv, Shown
    <3>3. Begins(scan, Content(h)) /\ Len(scan.got) = scan.total
        BY <2>1, <2>2 DEF ScanNow, Complete
    <3> QED BY <1>4, <3>2, <3>3, CompleteReads
  <2> QED BY <1>1, <2>1, <2>2 DEF TakenNow
<1> QED BY <1>1, <1>6, <1>7 DEF h

LEMMA AcceptStep ==
    ASSUME IInv, Accept
    PROVE  IInv'
<1> DEFINE h == Head(todo)
           got == Merge(taken, [t \in {h} |-> scan.got])
           good == /\ Complete(h)
                   /\ pc = "history" /\ Len(todo) = 1 => InlineTotal(got[Top(Parent)]) <= InlineLimit
           rows == got[Top(Parent)]
<1>1. /\ pc \in {"history", "inline", "checks"} /\ ~scan.more /\ UNCHANGED <<provider, forge>>
      /\ \/ /\ good /\ taken' = got /\ UNCHANGED <<first, peek, ghosts>>
            /\ IF Len(todo) > 1 THEN Read(pc, Tail(todo), peek) ELSE NextPhase(got)
         \/ ~good /\ Fail
      BY DEF Accept, Reading
<1>2. CASE ~good /\ Fail
      BY <1>1, <1>2, FailStep DEF Fail
<1>3. CASE /\ good /\ taken' = got /\ UNCHANGED <<first, peek, ghosts>>
           /\ IF Len(todo) > 1 THEN Read(pc, Tail(todo), peek) ELSE NextPhase(got)
  <2>1. pc \in Active /\ ForgeInv /\ MemoryInv /\ provider \in {"github", "forgejo"}
      BY <1>1 DEF IInv, Active, ForgeInv
  <2>2. /\ TakenInv(got, peek)
        /\ Quiet => TakenNow(got)
        /\ DOMAIN got = DOMAIN taken \cup {h}
        /\ \A t \in DOMAIN taken : got[t] = taken[t]
      BY <1>1, <1>3, <2>1, AcceptedTaken
  <2> HIDE DEF got
  <2>3. /\ todo \in Seq(PhaseTargets(pc, taken)) /\ todo # <<>>
        /\ Top(Parent) \in Tops
        /\ pc = "checks" => h = Checks(first.head)
      BY <1>1, <2>1, HeadKind
  <2>4. PhaseInv(pc, todo, taken, peek)
      BY <2>1 DEF MemoryInv
  <2>5. Range(todo) = {h} \cup Range(Tail(todo))
    <3>1. /\ Len(todo) \in Nat \ {0} /\ DOMAIN todo = 1 .. Len(todo) /\ h = todo[1]
        BY <2>3, LenProperties, EmptySeq
    <3>2. /\ Tail(todo) \in Seq(PhaseTargets(pc, taken)) /\ Len(Tail(todo)) = Len(todo) - 1
          /\ \A i \in 1 .. Len(Tail(todo)) : Tail(todo)[i] = todo[i + 1]
        BY <2>3, HeadTailProperties, Zenon
    <3> DEFINE s == Tail(todo)
    <3>3. DOMAIN s = 1 .. Len(todo) - 1 /\ \A i \in 1 .. Len(todo) - 1 : s[i] = todo[i + 1]
        BY <3>1, <3>2, LenProperties
    <3> HIDE DEF s, h
    <3>4. \A i \in DOMAIN todo : i = 1 \/ (i - 1 \in DOMAIN s /\ s[i - 1] = todo[i])
      <4> SUFFICES ASSUME NEW i \in DOMAIN todo, i # 1 PROVE i - 1 \in DOMAIN s /\ s[i - 1] = todo[i]
          OBVIOUS
      <4>1. i - 1 \in 1 .. Len(todo) - 1 /\ (i - 1) + 1 = i
          BY <3>1
      <4> QED BY <3>3, <4>1
    <3>5. \A i \in DOMAIN s : i + 1 \in DOMAIN todo /\ s[i] = todo[i + 1]
        BY <3>1, <3>3
    <3>6. 1 \in DOMAIN todo
        BY <3>1
    <3>7. Range(todo) = {h} \cup Range(s)
        BY <3>1, <3>4, <3>5, <3>6 DEF Range
    <3> QED BY <3>7 DEF s
  <2> DEFINE Continues == /\ pc' \in {"history", "inline", "checks"}
                          /\ scan' = Opened(Head(todo'), peek)
                          /\ PhaseInv(pc', todo', got, peek)
  <2>6. CASE Continues
    <3>1. UNCHANGED <<provider, forge, first, peek, settled>> /\ taken' = got
        BY <1>1, <1>3 DEF ghosts
    <3>2. pc' \in Active
        BY <2>6 DEF Active
    <3>3. PhaseInv(pc', todo', taken', peek) /\ TakenInv(taken', peek) /\ (Quiet => TakenNow(taken'))
        BY <2>2, <2>6, <3>1
    <3>4. ForgeInv' /\ MemoryInv'
        BY <2>1, <2>6, <3>1, <3>2, <3>3, ReadStep
    <3> QED BY <2>6, <3>2, <3>4 DEF IInv, AgreeInv, Active
  <2>7. CASE Len(todo) > 1
    <3>1. pc' = pc /\ todo' = Tail(todo) /\ scan' = Opened(Head(todo'), peek)
        BY <1>3, <2>7 DEF Read
    <3>2. PhaseTargets(pc, got) = PhaseTargets(pc, taken)
      <4>1. pc = "inline" => got[Top(Parent)] = taken[Top(Parent)]
          BY <2>2, <2>3, <2>4 DEF PhaseInv
      <4> QED BY <1>1, <4>1 DEF PhaseTargets
    <3>3. Tail(todo) \in Seq(PhaseTargets(pc, taken)) /\ Len(Tail(todo)) = Len(todo) - 1
          /\ Len(todo) \in Nat
        BY <2>3, HeadTailProperties, LenProperties, Zenon
    <3>4. Tail(todo) # <<>>
      <4>1. Len(Tail(todo)) # 0
          BY <2>7, <3>3
      <4>2. Len(<<>>) = 0
          OBVIOUS
      <4> QED BY <4>1, <4>2, Zenon
    <3>5. ASSUME pc # "history", NEW p \in Ids(got[Top(Parent)])
          PROVE  \/ Nested(p) \in DOMAIN got
                 \/ pc = "inline" /\ Nested(p) \in Range(Tail(todo))
                 \/ provider = "forgejo" /\ ~(peek[Nested(p)].total > 0)
      <4>1. p \in Ids(taken[Top(Parent)])
          BY <2>2, <2>3, <2>4, <3>5 DEF PhaseInv
      <4> QED BY <2>2, <2>4, <2>5, <3>5, <4>1 DEF PhaseInv
    <3>6. PhaseInv(pc, Tail(todo), got, peek)
        BY <1>1, <2>2, <2>4, <2>5, <3>2, <3>3, <3>4, <3>5 DEF PhaseInv
    <3>7. Continues
        BY <1>1, <3>1, <3>6
    <3> QED BY <2>6, <3>7
  <2>8. CASE ~(Len(todo) > 1)
    <3>1. NextPhase(got)
        BY <1>3, <2>8
    <3>2. Range(todo) = {h}
      <4>1. Len(todo) = 1 /\ DOMAIN todo = 1 .. Len(todo) /\ h = todo[1]
        <5>1. Len(todo) \in Nat /\ Len(todo) # 0 /\ DOMAIN todo = 1 .. Len(todo)
            BY <2>3, LenProperties, EmptySeq
        <5>2. Len(todo) = 1
            BY <2>8, <5>1
        <5>3. h = todo[1]
            BY <2>3
        <5> QED BY <5>1, <5>2, <5>3
      <4> HIDE DEF h
      <4> QED BY <4>1 DEF Range
    <3>3. Tops \subseteq DOMAIN got
        BY <1>1, <2>2, <2>4, <3>2 DEF PhaseInv
    <3>4. rows \in Seq(Row)
        BY <2>2, <2>3, <3>3 DEF TakenInv
    <3>5. /\ InlineTargets(rows) \in Seq({Nested(p) : p \in Ids(rows)})
          /\ \A p \in Ids(rows) : \/ Nested(p) \in Range(InlineTargets(rows))
                                  \/ provider = "forgejo" /\ ~(peek[Nested(p)].total > 0)
        BY <2>1, <3>4, InlineTargetsShape
    <3> DEFINE ts == InlineTargets(rows)
    <3>6. CASE pc = "history" /\ ts # <<>> /\ Read("inline", ts, peek)
      <4>1. pc' = "inline" /\ todo' = ts /\ scan' = Opened(Head(todo'), peek)
          BY <3>6 DEF Read
      <4>2. PhaseTargets("inline", got) = {Nested(p) : p \in Ids(rows)}
          BY DEF PhaseTargets
      <4> HIDE DEF ts
      <4>3. PhaseInv("inline", ts, got, peek)
          BY <3>3, <3>5, <3>6, <4>2 DEF PhaseInv, ts
      <4> QED BY <2>6, <4>1, <4>3
    <3>7. CASE /\ Read("checks", <<Checks(first.head)>>, peek)
               /\ \/ pc = "history" /\ ts = <<>>
                  \/ pc = "inline"
      <4>1. /\ pc' = "checks" /\ todo' = <<Checks(first.head)>> /\ scan' = Opened(Head(todo'), peek)
          BY <3>7 DEF Read
      <4>2. <<Checks(first.head)>> \in Seq(PhaseTargets("checks", got)) /\ <<Checks(first.head)>> # <<>>
          BY DEF PhaseTargets
      <4>3. ASSUME NEW p \in Ids(got[Top(Parent)])
            PROVE  \/ Nested(p) \in DOMAIN got
                   \/ provider = "forgejo" /\ ~(peek[Nested(p)].total > 0)
        <5>1. CASE pc = "history" /\ ts = <<>>
          <6>1. Range(<<>>) = {}
              BY DEF Range
          <6> HIDE DEF ts
          <6>2. Range(ts) = {}
              BY <5>1, <6>1
          <6> QED BY <3>5, <6>2 DEF ts
        <5>2. CASE pc = "inline"
          <6>1. p \in Ids(taken[Top(Parent)])
              BY <2>2, <2>3, <2>4, <5>2 DEF PhaseInv
          <6>2. \/ Nested(p) \in DOMAIN taken \/ Nested(p) \in Range(todo)
                \/ provider = "forgejo" /\ ~(peek[Nested(p)].total > 0)
              BY <2>4, <5>2, <6>1 DEF PhaseInv
          <6> QED BY <2>2, <3>2, <6>2
        <5> QED BY <3>7, <5>1, <5>2
      <4>4. PhaseInv("checks", <<Checks(first.head)>>, got, peek)
          BY <3>3, <4>2, <4>3 DEF PhaseInv
      <4> QED BY <2>6, <4>1, <4>4
    <3>8. CASE pc = "checks" /\ pc' = "fresh" /\ UNCHANGED <<todo, scan>>
      <4>1. PhaseTargets("fresh", got) = PhaseTargets(pc, taken)
          BY <3>8 DEF PhaseTargets
      <4>2. ASSUME NEW p \in Ids(got[Top(Parent)])
            PROVE  \/ Nested(p) \in DOMAIN got
                   \/ provider = "forgejo" /\ ~(peek[Nested(p)].total > 0)
        <5>1. p \in Ids(taken[Top(Parent)])
            BY <2>2, <2>3, <2>4, <3>8 DEF PhaseInv
        <5> QED BY <2>2, <2>4, <3>8, <5>1 DEF PhaseInv
      <4>3. PhaseInv("fresh", todo, got, peek)
          BY <2>2, <2>3, <3>3, <3>8, <4>1, <4>2 DEF PhaseInv
      <4>4. UNCHANGED <<provider, forge, first, peek, settled, todo, scan>> /\ taken' = got /\ pc' = "fresh"
          BY <1>1, <1>3, <3>8 DEF ghosts
      <4>5. TimeInv' /\ (Quiet' <=> Quiet)
          BY <2>1, <4>4 DEF MemoryInv, TimeInv, Quiet, forge
      <4>6. /\ PeekInv(peek') /\ TakenInv(taken', peek') /\ ScanInv(scan', Head(todo'), peek')
            /\ PhaseInv(pc', todo', taken', peek')
          BY <2>1, <2>2, <4>3, <4>4 DEF MemoryInv
      <4>7. Quiet' => PeekNow(peek') /\ TakenNow(taken') /\ ScanNow(scan', Head(todo'))
          BY <2>1, <2>2, <4>4, <4>5 DEF MemoryInv, NowInv
      <4>8. MemoryInv'
          BY <4>4, <4>5, <4>6, <4>7, Kept
      <4>9. ForgeInv'
          BY <2>1, <4>4, Frame
      <4> QED BY <4>4, <4>8, <4>9 DEF IInv, AgreeInv, Active
    <3> QED BY <3>1, <3>6, <3>7, <3>8 DEF NextPhase
  <2> QED BY <2>7, <2>8
<1> QED BY <1>1, <1>2, <1>3

\* The history at the re-read.
LEMMA QuietHistory ==
    ASSUME ForgeInv, MemoryInv, pc = "fresh", settled, pull = first
    PROVE  HistoryNow
<1>1. Quiet
      BY DEF Quiet
<1>2. PeekNow(peek) /\ TakenNow(taken) /\ TakenInv(taken, peek) /\ PhaseInv(pc, todo, taken, peek)
      BY <1>1 DEF MemoryInv, NowInv
<1>3. Tops \subseteq DOMAIN taken /\ Parent \in Range(Lists) /\ Top(Parent) \in Tops
      BY <1>2, HeadKind DEF PhaseInv, Active
<1>4. \A l \in Range(Lists) : taken[Top(l)] = lists[l]
      BY <1>2, <1>3, TargetKinds DEF TakenNow, Tops
<1>5. ASSUME NEW p \in DOMAIN inline
      PROVE  inline[p] = IF Nested(p) \in DOMAIN taken THEN taken[Nested(p)] ELSE <<>>
  <2>1. p \in Ids(taken[Top(Parent)])
      BY <1>3, <1>4 DEF ForgeInv
  <2>2. History(Nested(p)) /\ Content(Nested(p)) = inline[p]
      BY TargetKinds
  <2>3. CASE Nested(p) \in DOMAIN taken
      BY <1>2, <2>2, <2>3 DEF TakenNow
  <2>4. CASE Nested(p) \notin DOMAIN taken
    <3>1. ~(peek[Nested(p)].total > 0)
        BY <1>2, <2>1, <2>4 DEF PhaseInv
    <3>2. Nested(p) \in DOMAIN peek
        BY <1>2, <1>3, <2>1 DEF TakenInv, ToldOf
    <3>3. peek[Nested(p)] = PageOf(inline[p], <<>>, 0)
        BY <1>2, <2>2, <3>2 DEF PeekNow
    <3>4. Shown(inline[p], Newest) /\ Newest \in Nat
        BY NewestNat DEF ForgeInv
    <3>5. peek[Nested(p)].total = Len(inline[p])
        BY <3>3, <3>4, FirstPage
    <3>6. inline[p] \in Seq(Row) /\ Len(inline[p]) = 0
        BY <3>1, <3>4, <3>5, SeqRow DEF Shown
    <3>7. inline[p] = <<>>
        BY <3>6, EmptySeq
    <3> QED BY <2>4, <3>7
  <2> QED BY <2>3, <2>4
<1> QED BY <1>4, <1>5 DEF HistoryNow

\* The checks at the re-read.
LEMMA OldChecksDiffer ==
    ASSUME ForgeInv, MemoryInv, pc = "fresh", Unmoved,
           NEW rows, rows = taken[Checks(first.head)], rows # Contexts
    PROVE  Differ(Opened(Checks(first.head), peek), rows)
<1> DEFINE cs == Checks(first.head)
           r == Opened(cs, peek)
<1>1. /\ Newest \in Nat /\ Shown(Contexts, Newest) /\ Shown(rows, Newest)
      /\ provider \in {"github", "forgejo"}
  <2>1. Newest \in Nat /\ Shown(Contexts, Newest) /\ provider \in {"github", "forgejo"}
      BY NewestNat DEF ForgeInv, MemoryInv, TimeInv, Contexts
  <2>2. cs \in DOMAIN taken
      BY DEF MemoryInv, PhaseInv
  <2>3. Shown(rows, Newest)
      BY <2>2 DEF MemoryInv, TakenInv
  <2> QED BY <2>1, <2>3
<1>2. /\ \A j \in DOMAIN r.got : \E i \in DOMAIN Contexts : r.got[j] = Contexts[i]
      /\ IF provider = "forgejo" THEN r.pages = 0 ELSE r.total = Len(Contexts)
  <2>1. CASE provider = "github"
    <3>1. peek[cs] = PageOf(Contexts, <<>>, 0)
        BY <2>1 DEF Unmoved, Contexts
    <3>2. /\ peek[cs].total = Len(Contexts)
          /\ \A i \in DOMAIN peek[cs].rows : i \in DOMAIN Contexts /\ peek[cs].rows[i] = Contexts[i]
        BY <1>1, <3>1, FirstPage
    <3>3. r.got = peek[cs].rows /\ r.total = peek[cs].total
        BY <2>1 DEF Opened
    <3> HIDE DEF r, cs
    <3> QED BY <2>1, <3>2, <3>3
  <2>2. CASE provider = "forgejo"
    <3>1. r.got = <<>> /\ r.pages = 0
        BY <2>2 DEF Opened
    <3>2. DOMAIN r.got = {}
        BY <3>1
    <3> HIDE DEF r
    <3> QED BY <2>2, <3>1, <3>2
  <2> QED BY <1>1, <2>1, <2>2
<1> HIDE DEF r, cs
<1>3. CASE \E i \in DOMAIN rows : \A j \in DOMAIN Contexts : Contexts[j] # rows[i]
  <2>1. PICK i \in DOMAIN rows : \A j \in DOMAIN Contexts : Contexts[j] # rows[i]
      BY <1>3
  <2>2. Gone(rows[i])
      BY <1>1, <2>1 DEF Gone, Shown, Older
  <2>3. \A j \in DOMAIN r.got : r.got[j] # rows[i]
      BY <1>2, <2>1
  <2>4. Differ(r, rows)
      BY <2>2, <2>3 DEF Differ
  <2> QED BY <2>4 DEF r, cs
<1>4. CASE \A i \in DOMAIN rows : \E j \in DOMAIN Contexts : Contexts[j] = rows[i]
  <2>1. ~(Len(Contexts) <= Len(rows))
      BY <1>1, <1>4, SameRows
  <2>2. Len(rows) < Len(Contexts)
      BY <1>1, <2>1, SeqRow DEF Shown
  <2>3. Differ(r, rows)
      BY <1>1, <1>2, <2>2 DEF Differ
  <2> QED BY <2>3 DEF r, cs
<1> QED BY <1>3, <1>4

LEMMA ReadAgainStep ==
    ASSUME IInv, ReadAgain
    PROVE  IInv'
<1> DEFINE cs == Checks(first.head)
<1>1. CASE ~Unmoved /\ Fail
      BY <1>1, FailStep DEF ReadAgain, Fail
<1>2. CASE /\ Unmoved /\ Read("recheck", <<cs>>, peek)
           /\ exact' = [history |-> HistoryNow, checks |-> ChecksNow]
           /\ UNCHANGED <<first, peek, taken, settled>>
  <2>1. /\ pc = "fresh" /\ pc' = "recheck" /\ todo' = <<cs>> /\ scan' = Opened(cs, peek)
        /\ UNCHANGED <<provider, forge, first, peek, taken, settled>>
        /\ Head(todo') = cs
      BY <1>2 DEF ReadAgain, Read
  <2>2. ForgeInv /\ MemoryInv
      BY <2>1 DEF IInv, Active
  <2>3. PhaseInv("recheck", <<cs>>, taken, peek)
    <3>1. PhaseInv("fresh", todo, taken, peek)
        BY <2>1, <2>2 DEF MemoryInv
    <3>2. <<cs>> \in Seq(PhaseTargets("recheck", taken)) /\ <<cs>> # <<>>
        BY DEF PhaseTargets
    <3> HIDE DEF cs
    <3> QED BY <3>1, <3>2 DEF PhaseInv
  <2> HIDE DEF cs
  <2>4. ForgeInv' /\ MemoryInv'
    <3>1. TakenInv(taken', peek) /\ (Quiet => TakenNow(taken')) /\ PhaseInv(pc', todo', taken', peek)
        BY <2>1, <2>2, <2>3 DEF MemoryInv, NowInv
    <3> QED BY <2>1, <3>1, ReadStep DEF Active
  <2>5. settled => exact'.history
    <3> SUFFICES ASSUME settled PROVE exact'.history
        OBVIOUS
    <3>1. HistoryNow
        BY <1>2, <2>1, <2>2, QuietHistory DEF Unmoved
    <3>2. exact' = [history |-> TRUE, checks |-> ChecksNow]
        BY <1>2, <3>1
    <3> QED BY <3>2
  <2>6. ~exact'.checks => taken[cs] # Contexts
    <3> SUFFICES ASSUME taken[cs] = Contexts PROVE exact'.checks
        OBVIOUS
    <3>1. ChecksNow
        BY DEF ChecksNow, Contexts, cs
    <3>2. exact' = [history |-> HistoryNow, checks |-> TRUE]
        BY <1>2, <3>1
    <3> QED BY <3>2
  <2>7. ~exact'.checks => Differ(scan', taken'[Checks(first'.head)])
      BY <1>2, <2>1, <2>2, <2>6, OldChecksDiffer DEF cs
  <2>8. Newest' = Newest /\ Contexts' = Contexts
      BY <2>1, Frame DEF Contexts, forge
  <2>9. Differ(scan', taken'[Checks(first'.head)]) => Differ(scan, taken[Checks(first.head)])'
      BY <2>1, <2>8 DEF Differ, Gone
  <2>10. AgreeInv'
      BY <2>1, <2>5, <2>7, <2>9 DEF AgreeInv
  <2> QED BY <2>1, <2>4, <2>10 DEF IInv, Active
<1> QED BY <1>1, <1>2 DEF ReadAgain

LEMMA PublishStep ==
    ASSUME IInv, Publish
    PROVE  IInv'
<1>1. /\ pc = "recheck" /\ ~scan.more /\ UNCHANGED <<provider, forge, memory, ghosts>>
      /\ pc' = IF Complete(Head(todo)) /\ SameChecks THEN "done" ELSE "failed"
      BY DEF Publish
<1>2. CASE pc' = "failed"
      BY <1>1, <1>2, FailStep
<1>3. CASE Complete(Head(todo)) /\ SameChecks /\ pc' = "done"
  <2>1. ForgeInv /\ MemoryInv
      BY <1>1 DEF IInv, Active
  <2>2. scan \in Reads /\ ~(provider = "forgejo" /\ scan.pages = 0)
      BY <1>1, <2>1 DEF MemoryInv, ScanInv, Reads
  <2>3. ~Differ(scan, scan.got)
    <3>1. Len(scan.got) = scan.total /\ scan.got \in Seq(Row)
        BY <1>3, <2>2 DEF Complete, Reads
    <3>2. ~(Len(scan.got) < scan.total)
        BY <3>1, SeqRow
    <3> QED BY <2>2, <3>2 DEF Differ
  <2>4. scan.got = taken[Checks(first.head)]
      BY <1>3 DEF SameChecks
  <2>5. exact.checks
      BY <1>1, <2>3, <2>4 DEF IInv, AgreeInv
  <2>6. settled => exact.history
      BY <1>1 DEF IInv, AgreeInv
  <2>7. ForgeInv'
      BY <1>1, <2>1, Frame
  <2>8. UNCHANGED <<settled, exact>>
      BY <1>1 DEF ghosts
  <2> QED BY <1>3, <2>5, <2>6, <2>7, <2>8 DEF IInv, AgreeInv, Active
<1> QED BY <1>1, <1>2, <1>3

LEMMA GiveUpStep ==
    ASSUME IInv, Exhausted \/ Refused
    PROVE  IInv'
BY FailStep DEF Exhausted, Refused, Fail

LEMMA StartStep ==
    ASSUME IInv, Start
    PROVE  IInv'
<1> DEFINE f == [t \in {Top(l) : l \in Range(Lists)} \cup {Checks(pull.head)} |->
                     PageOf(Content(t), <<>>, 0)]
           rows == PageOf(lists[Parent], <<>>, 0).rows
           known == Merge(f, Told(Top(Parent), rows))
           tops == [i \in DOMAIN Lists |-> Top(Lists[i])]
<1>1. /\ pc = "start" /\ pc' = "history" /\ first' = pull /\ settled' = ~sameSecond
      /\ peek' = IF provider = "forgejo" THEN <<>> ELSE known
      /\ todo' = tops /\ scan' = Opened(Head(tops), peek')
      /\ UNCHANGED <<provider, forge, taken, exact>>
      BY DEF Start, Read
<1>2. /\ ForgeInv /\ first = pull /\ first' = first /\ taken = <<>>
      /\ provider \in {"github", "forgejo"} /\ Newest \in Nat
      BY <1>1, NewestNat DEF IInv, ForgeInv
<1>3. first \in PullRequest /\ first.head \in DOMAIN checks
  <2>1. MaxChanges \in Nat /\ changes \in 0 .. MaxChanges /\ pull.head \in 1 .. changes + 1
      BY <1>2, CollectorAssumption DEF ForgeInv
  <2>2. pull.head \in 1 .. MaxChanges + 1
      BY <2>1
  <2> QED BY <1>2, <2>2 DEF ForgeInv
<1>4. /\ tops \in Seq(Tops) /\ tops # <<>> /\ Range(tops) = Tops
      /\ Parent \in Range(Lists) /\ Top(Parent) \in Tops
      BY <1>2, ListNames DEF Tops
<1> HIDE DEF tops
<1>5. Head(tops) \in Tops
      BY <1>4, HeadTailProperties, Zenon
<1>6. /\ PeekInv(peek') /\ PeekNow(peek')
      /\ provider = "github" => Head(tops) \in DOMAIN peek'
  <2>1. CASE provider = "forgejo"
    <3>1. peek' = <<>>
        BY <1>1, <2>1
    <3>2. DOMAIN peek' = {}
        BY <3>1
    <3> QED BY <2>1, <3>2 DEF PeekInv, PeekNow
  <2>2. CASE provider = "github"
    <3>1. /\ DOMAIN f = Tops \cup {Checks(first.head)}
          /\ \A t \in DOMAIN f : f[t] = PageOf(Content(t), <<>>, 0)
        BY <1>2 DEF Tops
    <3>2. rows = f[Top(Parent)].rows
        BY <1>4, <3>1, TargetKinds
    <3>3. \A t \in DOMAIN f : Shown(Content(t), Newest)
        BY <1>2, <1>3, <3>1, ContentShown
    <3>4. peek' = Merge(f, Told(Top(Parent), rows))
        BY <1>1, <2>2
    <3> HIDE DEF f, rows
    <3>5. \A t \in DOMAIN f : f[t] \in Page /\ Shown(f[t].rows, Newest)
                              /\ \A i \in DOMAIN f[t].rows : i \in DOMAIN Content(t) /\ f[t].rows[i] = Content(t)[i]
        BY <1>2, <3>1, <3>3, FirstPage
    <3>6. PeekNow(f)
        BY <3>1 DEF PeekNow
    <3>7. Ids(rows) \subseteq DOMAIN inline
      <4>1. Content(Top(Parent)) = lists[Parent]
          BY TargetKinds
      <4> QED BY <1>2, <1>4, <3>1, <3>2, <3>5, <4>1 DEF ForgeInv, Ids
    <3>8. /\ \A u \in DOMAIN peek' : peek'[u] \in Page
          /\ PeekNow(f) => PeekNow(peek')
          /\ DOMAIN f \subseteq DOMAIN peek' /\ \A u \in DOMAIN f : peek'[u] = f[u]
          /\ Top(Parent) = Top(Parent) => ToldOf(peek', rows)
          /\ \A h : Checks(h) \in DOMAIN peek' => Checks(h) \in DOMAIN f
        BY <1>2, <3>4, <3>5, <3>7, ToldShape
    <3>9. PeekInv(peek')
        BY <1>4, <3>1, <3>2, <3>5, <3>8 DEF PeekInv
    <3> QED BY <1>5, <3>1, <3>6, <3>8, <3>9
  <2> QED BY <1>2, <2>1, <2>2
<1>7. /\ ScanInv(scan', Head(tops), peek')
      /\ ScanNow(scan', Head(tops))
      BY <1>1, <1>2, <1>3, <1>5, <1>6, OpenedShape
<1>8. DOMAIN taken' = {}
      BY <1>1, <1>2
<1>9. TakenInv(taken', peek') /\ TakenNow(taken')
      BY <1>8 DEF TakenInv, TakenNow
<1>10. PhaseInv(pc', todo', taken', peek')
      BY <1>1, <1>4 DEF PhaseInv, PhaseTargets
<1>11. TimeInv'
      BY <1>1, <1>2, <1>3 DEF TimeInv, forge
<1>12. MemoryInv'
      BY <1>1, <1>2, <1>6, <1>7, <1>9, <1>10, <1>11, Kept
<1>13. ForgeInv'
      BY <1>1, <1>2, Frame
<1> QED BY <1>1, <1>12, <1>13 DEF IInv, AgreeInv, Active

-----------------------------------------------------------------------------
(* Changes outside the collection.                                         *)

\* The memory is as the invariant says after a change of the forge.
LEMMA OutsideStep ==
    ASSUME IInv, pc \in Active, UNCHANGED <<provider, pc, memory, ghosts>>,
           ForgeInv', TimeInv', Newest' \in {Newest, Newest + 1},
           Quiet' => Quiet /\ UNCHANGED <<lists, inline>>,
           \/ Contexts' = Contexts
           \/ Newest' = Newest + 1 /\ Edited(Contexts, Contexts', Newest)
    PROVE  IInv'
<1>1. ForgeInv /\ MemoryInv /\ TimeInv /\ Newest \in Nat /\ Shown(Contexts, Newest)
      BY NewestNat DEF IInv, MemoryInv, TimeInv, ForgeInv, Contexts
<1>2. \A s : Shown(s, Newest) => Shown(s, Newest')
      BY <1>1, ShownLater
<1>3. UNCHANGED <<provider, pc, first, todo, scan, peek, taken, settled, exact>>
      BY DEF memory, ghosts
<1>4. Parent' = Parent /\ Lists' = Lists /\ Tops' = Tops
      BY <1>3 DEF Parent, Lists, Tops
<1>5. ASSUME NEW got, Shown(got, Newest), Ahead(got, Contexts) PROVE Ahead(got, Contexts')
  <2>1. CASE Contexts' = Contexts
      BY <1>5, <2>1
  <2>2. CASE Edited(Contexts, Contexts', Newest)
    <3> DEFINE c == Contexts
               d == Contexts'
    <3>1. /\ c \in Seq(Row) /\ d \in Seq(Row) /\ got \in Seq(Row) /\ Ahead(c, d) /\ Ahead(got, c)
        BY <1>1, <1>5, <2>2 DEF Edited, Shown
    <3> HIDE DEF c, d
    <3>2. /\ Len(c) \in Nat /\ Len(d) \in Nat /\ Len(got) \in Nat
          /\ DOMAIN c = 1 .. Len(c) /\ DOMAIN d = 1 .. Len(d) /\ DOMAIN got = 1 .. Len(got)
        BY <3>1, SeqRow
    <3>3. Len(got) <= Len(c) /\ Len(c) <= Len(d)
        BY <3>1 DEF Ahead
    <3>4. ASSUME NEW i \in DOMAIN got PROVE got[i].id <= d[i].id
      <4>1. i \in DOMAIN c /\ i \in DOMAIN d
          BY <3>2, <3>3
      <4>2. got[i].id \in Nat /\ c[i].id \in Nat /\ d[i].id \in Nat
          BY <3>1, <4>1, SeqRow
      <4>3. got[i].id <= c[i].id /\ c[i].id <= d[i].id
          BY <3>1, <4>1 DEF Ahead
      <4> QED BY <4>2, <4>3
    <3>5. Ahead(got, d)
        BY <3>2, <3>3, <3>4 DEF Ahead
    <3> QED BY <3>5 DEF d
  <2> QED BY <2>1, <2>2
<1>6. PeekInv(peek)'
      BY <1>1, <1>2, <1>3, <1>4 DEF MemoryInv, PeekInv, ToldOf
<1>7. TakenInv(taken, peek)'
      BY <1>1, <1>2, <1>3, <1>4 DEF MemoryInv, TakenInv, ToldOf
<1>8. ScanInv(scan, Head(todo), peek)'
      BY <1>1, <1>2, <1>3, <1>4, <1>5 DEF MemoryInv, ScanInv, ToldOf
<1>9. PhaseInv(pc, todo, taken, peek)'
      BY <1>1, <1>3, <1>4 DEF MemoryInv, PhaseInv, PhaseTargets
<1>10. NowInv'
  <2> SUFFICES ASSUME Quiet' PROVE (PeekNow(peek) /\ TakenNow(taken) /\ ScanNow(scan, Head(todo)))'
      BY DEF NowInv
  <2>1. UNCHANGED <<lists, inline>> /\ PeekNow(peek) /\ TakenNow(taken) /\ ScanNow(scan, Head(todo))
      BY <1>1 DEF MemoryInv, NowInv
  <2>2. \A t : /\ History(t)' <=> History(t)
               /\ History(t) => Content(t)' = Content(t)
    <3>1. \A t : t[1] = "list" => /\ History(t)' <=> History(t)
                                  /\ Content(t)' = Content(t)
        BY <2>1 DEF History, Exists, Content
    <3>2. \A t : t[1] = "inline" => /\ History(t)' <=> History(t)
                                    /\ Content(t)' = Content(t)
        BY <2>1 DEF History, Exists, Content
    <3>3. \A t : t[1] \notin {"list", "inline"} => ~History(t) /\ ~History(t)'
        BY DEF History
    <3> QED BY <3>1, <3>2, <3>3
  <2>3. \A s, got, number : PageOf(s, got, number)' = PageOf(s, got, number)
      BY <1>3 DEF PageOf
  <2>4. PeekNow(peek)'
      BY <1>3, <2>1, <2>2, <2>3 DEF PeekNow
  <2>5. TakenNow(taken)'
      BY <1>3, <2>1, <2>2 DEF TakenNow
  <2>6. ScanNow(scan, Head(todo))'
      BY <1>3, <2>1, <2>2 DEF ScanNow, Begins
  <2> QED BY <2>4, <2>5, <2>6
<1>11. MemoryInv'
      BY <1>6, <1>7, <1>8, <1>9, <1>10 DEF MemoryInv
<1>12. AgreeInv'
  <2>1. ASSUME pc = "recheck", ~exact.checks
        PROVE  Differ(scan, taken[Checks(first.head)])'
    <3> DEFINE rows == taken[Checks(first.head)]
    <3>1. Differ(scan, rows)
        BY <2>1 DEF IInv, AgreeInv
    <3>2. Shown(rows, Newest)
        BY <1>1, <2>1 DEF MemoryInv, PhaseInv, TakenInv
    <3>3. \A i \in DOMAIN rows : Gone(rows[i]) => Gone(rows[i])'
      <4> SUFFICES ASSUME NEW i \in DOMAIN rows, Gone(rows[i])
                   PROVE  /\ rows[i].rev < Newest'
                          /\ \A j \in DOMAIN Contexts' : Contexts'[j] # rows[i]
          BY <1>3 DEF Gone
      <4>1. rows[i].rev < Newest /\ rows[i].rev \in Nat
          BY <3>2, SeqRow DEF Gone, Shown
      <4>2. \A j \in DOMAIN Contexts : Contexts[j] # rows[i]
          BY DEF Gone
      <4> HIDE DEF rows
      <4>3. \A j \in DOMAIN Contexts' : Contexts'[j] # rows[i]
          BY <1>1, <4>1, <4>2 DEF Edited
      <4> QED BY <1>1, <4>1, <4>3
    <3>4. Len(Contexts) \in Nat /\ Len(Contexts') \in Nat /\ Len(Contexts) <= Len(Contexts')
      <4>1. Len(Contexts) \in Nat
          BY <1>1, SeqRow DEF Shown
      <4>2. CASE Contexts' = Contexts
          BY <4>1, <4>2
      <4>3. CASE Edited(Contexts, Contexts', Newest)
          BY <4>1, <4>3, SeqRow DEF Edited, Shown, Ahead
      <4> QED BY <4>2, <4>3
    <3>5. Len(rows) \in Nat
        BY <3>2, SeqRow DEF Shown
    <3>6. rows' = rows
        BY <1>3
    <3>7. CASE \E i \in DOMAIN rows : Gone(rows[i]) /\ \A j \in DOMAIN scan.got : scan.got[j] # rows[i]
      <4>1. PICK i \in DOMAIN rows : Gone(rows[i]) /\ \A j \in DOMAIN scan.got : scan.got[j] # rows[i]
          BY <3>7
      <4>2. Gone(rows[i])'
          BY <3>3, <4>1
      <4>3. /\ Gone(rows[i])' <=> /\ rows[i].rev < Newest'
                                 /\ \A j \in DOMAIN Contexts' : Contexts'[j] # rows[i]
          BY <3>6 DEF Gone
      <4> HIDE DEF rows
      <4> QED BY <1>3, <3>6, <4>1, <4>2, <4>3 DEF Differ, Gone, rows
    <3>8. CASE Len(rows) < IF provider = "forgejo" /\ scan.pages = 0 THEN Len(Contexts)
                           ELSE scan.total
      <4>1. Len(rows) < IF provider = "forgejo" /\ scan.pages = 0 THEN Len(Contexts')
                        ELSE scan.total
          BY <3>4, <3>5, <3>8
      <4> QED BY <1>3, <3>6, <4>1 DEF Differ
    <3> QED BY <3>1, <3>7, <3>8 DEF Differ
  <2>2. (pc \in {"recheck", "done"} /\ settled => exact.history)'
      BY <1>3 DEF IInv, AgreeInv
  <2>3. pc # "done"
      BY DEF Active
  <2>4. (pc = "recheck" /\ ~exact.checks => Differ(scan, taken[Checks(first.head)]))'
    <3>1. pc' = "recheck" /\ ~exact'.checks => pc = "recheck" /\ ~exact.checks
        BY <1>3
    <3> QED BY <2>1, <3>1, Zenon
  <2>5. (pc = "done" => exact.checks)'
      BY <1>3, <2>3
  <2> QED BY <2>2, <2>4, <2>5, Zenon DEF AgreeInv
<1> QED BY <1>3, <1>11, <1>12 DEF IInv, Active

LEMMA NewIsNewest == New = NewRow(Newest) /\ New.rev = Newest
BY DEF New, NewRow

LEMMA AlteredShown ==
    ASSUME Newest \in Nat, NEW s, Shown(s, Newest), NEW a \in Altered(s)
    PROVE  Shown(a, Newest + 1)
<1>1. CASE a = Append(s, New)
      BY <1>1, AppendEdited, NewIsNewest DEF Edited
<1>2. CASE \E i \in DOMAIN s : a = RemoveAt(s, i)
      BY <1>2, RemoveShown, ShownLater
<1>3. CASE \E i \in DOMAIN s : a = [s EXCEPT ![i].rev = New.rev]
  <2>1. PICK i \in DOMAIN s : a = [s EXCEPT ![i].rev = Newest]
      BY <1>3, NewIsNewest
  <2> QED BY <2>1, ReviseEdited DEF Edited
<1> QED BY <1>1, <1>2, <1>3 DEF Altered

\* What a change leaves as it is.
LEMMA ChangeFrame ==
    ASSUME IInv, Change
    PROVE  /\ pc \in Active /\ UNCHANGED <<provider, pc, memory, ghosts>>
           /\ Newest \in Nat /\ Newest' = Newest + 1
           /\ changes \in Nat /\ changes' = changes + 1 /\ changes' \in 0 .. MaxChanges
           /\ Parent' = Parent /\ Lists' = Lists
           /\ ForgeInv /\ TimeInv /\ first' = first
           /\ \A s : Shown(s, Newest) => Shown(s, Newest')
<1>1. /\ pc \notin {"start", "done", "failed"} /\ changes < MaxChanges
      /\ changes' = changes + 1 /\ UNCHANGED <<provider, pc, memory, ghosts>>
      BY DEF Change
<1>2. pc \in Active /\ ForgeInv /\ Newest \in Nat /\ first' = first
      BY <1>1, NewestNat DEF IInv, memory
<1>3. TimeInv
      BY <1>2 DEF IInv, MemoryInv
<1>4. Newest' = Newest + 1
  <2>1. \A b \in Nat : b * b \in Nat
      OBVIOUS
  <2>2. Base * Base \in Nat /\ changes \in Nat
      BY <2>1, <1>2, CollectorAssumption, OpeningAssumption DEF ForgeInv
  <2> QED BY <1>1, <2>2 DEF Newest
<1>5. changes \in Nat /\ changes' \in 0 .. MaxChanges
      BY <1>1, <1>2, CollectorAssumption DEF ForgeInv
<1>6. Parent' = Parent /\ Lists' = Lists
      BY <1>1 DEF Parent, Lists
<1>7. \A s : Shown(s, Newest) => Shown(s, Newest')
      BY <1>2, <1>4, ShownLater
<1> QED BY <1>1, <1>2, <1>3, <1>4, <1>5, <1>6, <1>7

\* A change that sets the update time ends the quiet.
LEMMA HistoryMoves ==
    ASSUME IInv, Change, pull'.updated = Updated, sameSecond' = TRUE,
           DOMAIN checks' = DOMAIN checks
    PROVE  TimeInv' /\ ~Quiet'
<1>1. TimeInv /\ ForgeInv /\ UNCHANGED <<first, settled>>
      BY ChangeFrame DEF memory, ghosts
<1>2. first.updated \in Nat /\ pull.updated \in Nat /\ sameSecond \in BOOLEAN
      BY <1>1 DEF TimeInv, ForgeInv, PullRequest
<1>3. settled => first.updated < pull'.updated
      BY <1>1, <1>2 DEF TimeInv, Updated
<1> QED BY <1>1, <1>2, <1>3 DEF TimeInv, Quiet

LEMMA HistoryChange ==
    ASSUME IInv, Change, UNCHANGED checks, sameSecond' = TRUE,
           pull'.head \in {pull.head, pull.head + 1}, pull'.status = pull.status,
           pull' = [head |-> pull'.head, updated |-> Updated, status |-> pull'.status],
           DOMAIN lists' = DOMAIN lists, \A l \in DOMAIN lists : Shown(lists'[l], Newest'),
           DOMAIN inline' = Ids(lists'[Parent]),
           \A p \in DOMAIN inline' : Shown(inline'[p], Newest')
    PROVE  IInv'
<1>1. /\ pc \in Active /\ UNCHANGED <<provider, pc, memory, ghosts>>
      /\ Newest' = Newest + 1 /\ changes \in Nat /\ changes' = changes + 1
      /\ changes' \in 0 .. MaxChanges /\ Parent' = Parent /\ Lists' = Lists
      /\ ForgeInv /\ first' = first
      /\ \A s : Shown(s, Newest) => Shown(s, Newest')
      BY ChangeFrame
<1>2. TimeInv' /\ ~Quiet'
      BY HistoryMoves
<1>3. pull' \in PullRequest /\ pull'.head \in 1 .. changes' + 1
  <2>1. pull \in PullRequest /\ pull.head \in 1 .. changes + 1 /\ sameSecond \in BOOLEAN
      BY <1>1 DEF ForgeInv
  <2>2. Updated \in Nat
      BY <2>1 DEF Updated, PullRequest
  <2>3. pull'.head \in 1 .. changes' + 1
      BY <1>1, <2>1
  <2>4. pull'.status \in {0, 1} /\ pull'.head \in Nat
      BY <1>1, <2>1, <2>3 DEF PullRequest
  <2> QED BY <2>2, <2>3, <2>4 DEF PullRequest
<1>4. ForgeInv'
      BY <1>1, <1>3 DEF ForgeInv
<1>5. Contexts' = Contexts
      BY <1>1 DEF Contexts
<1> QED BY <1>1, <1>2, <1>4, <1>5, OutsideStep

LEMMA ListChangesStep ==
    ASSUME IInv, ListChanges
    PROVE  IInv'
<1>1. /\ Newest \in Nat /\ Newest' = Newest + 1 /\ ForgeInv
      /\ \A s : Shown(s, Newest) => Shown(s, Newest')
      BY ChangeFrame DEF ListChanges
<1>2. PICK l \in Range(Lists) : \E s \in Altered(lists[l]), r \in {<<>>, <<New>>} :
          /\ lists' = [lists EXCEPT ![l] = s]
          /\ inline' = IF l # Parent THEN inline
                       ELSE [p \in Ids(s) |-> IF p \in DOMAIN inline THEN inline[p] ELSE r]
      BY DEF ListChanges
<1>3. PICK s \in Altered(lists[l]) : \E r \in {<<>>, <<New>>} :
          /\ lists' = [lists EXCEPT ![l] = s]
          /\ inline' = IF l # Parent THEN inline
                       ELSE [p \in Ids(s) |-> IF p \in DOMAIN inline THEN inline[p] ELSE r]
      BY <1>2
<1>4. PICK r \in {<<>>, <<New>>} :
          /\ lists' = [lists EXCEPT ![l] = s]
          /\ inline' = IF l # Parent THEN inline
                       ELSE [p \in Ids(s) |-> IF p \in DOMAIN inline THEN inline[p] ELSE r]
      BY <1>3
<1>5. l \in DOMAIN lists /\ Shown(lists[l], Newest) /\ Shown(s, Newest')
      BY <1>1, <1>3, AlteredShown DEF ForgeInv
<1>6. Shown(r, Newest')
  <2>1. Shown(<<>>, Newest)
      BY DEF Shown, Sorted, Older
  <2>2. Shown(<<New>>, Newest')
    <3>1. Append(<<>>, New) = <<New>> /\ Append(<<>>, New) \in Altered(<<>>)
        BY DEF Altered
    <3> QED BY <1>1, <2>1, <3>1, AlteredShown
  <2> QED BY <1>1, <2>1, <2>2
<1>7. DOMAIN lists' = DOMAIN lists /\ \A m \in DOMAIN lists : Shown(lists'[m], Newest')
      BY <1>1, <1>4, <1>5 DEF ForgeInv
<1>8. /\ DOMAIN inline' = Ids(lists'[Parent])
      /\ \A p \in DOMAIN inline' : Shown(inline'[p], Newest')
  <2>1. CASE l # Parent
    <3>1. lists'[Parent] = lists[Parent] /\ inline' = inline
        BY <1>4, <2>1
    <3> QED BY <1>1, <3>1 DEF ForgeInv
  <2>2. CASE l = Parent
    <3>1. lists'[Parent] = s
        BY <1>4, <1>5, <2>2
    <3>2. inline' = [p \in Ids(s) |-> IF p \in DOMAIN inline THEN inline[p] ELSE r]
        BY <1>4, <2>2
    <3>3. \A p \in DOMAIN inline : Shown(inline[p], Newest')
        BY <1>1 DEF ForgeInv
    <3> QED BY <1>6, <3>1, <3>2, <3>3
  <2> QED BY <2>1, <2>2
<1>9. /\ Change /\ UNCHANGED checks /\ sameSecond' = TRUE
      /\ pull' = [pull EXCEPT !.updated = Updated]
      BY DEF ListChanges
<1>10. /\ pull'.head = pull.head /\ pull'.status = pull.status
       /\ pull' = [head |-> pull'.head, updated |-> Updated, status |-> pull'.status]
      BY <1>1, <1>9 DEF ForgeInv, PullRequest
<1> QED BY <1>7, <1>8, <1>9, <1>10, HistoryChange

LEMMA InlineChangesStep ==
    ASSUME IInv, InlineChanges
    PROVE  IInv'
<1>1. /\ Newest \in Nat /\ Newest' = Newest + 1 /\ ForgeInv /\ Parent' = Parent
      /\ \A s : Shown(s, Newest) => Shown(s, Newest')
      BY ChangeFrame DEF InlineChanges
<1>2. PICK p \in DOMAIN inline : \E s \in Altered(inline[p]) : inline' = [inline EXCEPT ![p] = s]
      BY DEF InlineChanges
<1>3. PICK s \in Altered(inline[p]) : inline' = [inline EXCEPT ![p] = s]
      BY <1>2
<1>4. Shown(s, Newest')
      BY <1>1, <1>3, AlteredShown DEF ForgeInv
<1>5. /\ Change /\ UNCHANGED <<lists, checks>> /\ sameSecond' = TRUE
      /\ pull' = [pull EXCEPT !.updated = Updated]
      BY DEF InlineChanges
<1>6. /\ DOMAIN lists' = DOMAIN lists /\ \A l \in DOMAIN lists : Shown(lists'[l], Newest')
      /\ DOMAIN inline' = Ids(lists'[Parent])
      /\ \A q \in DOMAIN inline' : Shown(inline'[q], Newest')
      BY <1>1, <1>3, <1>4, <1>5 DEF ForgeInv
<1>7. /\ pull'.head = pull.head /\ pull'.status = pull.status
      /\ pull' = [head |-> pull'.head, updated |-> Updated, status |-> pull'.status]
      BY <1>1, <1>5 DEF ForgeInv, PullRequest
<1> QED BY <1>5, <1>6, <1>7, HistoryChange

LEMMA PushStep ==
    ASSUME IInv, Push
    PROVE  IInv'
<1>1. ForgeInv /\ \A s : Shown(s, Newest) => Shown(s, Newest')
      BY ChangeFrame DEF Push
<1>2. /\ Change /\ UNCHANGED <<lists, inline, checks>> /\ sameSecond' = TRUE
      /\ pull' = [pull EXCEPT !.updated = Updated, !.head = @ + 1]
      BY DEF Push
<1>3. /\ DOMAIN lists' = DOMAIN lists /\ \A l \in DOMAIN lists : Shown(lists'[l], Newest')
      /\ DOMAIN inline' = Ids(lists'[Parent])
      /\ \A q \in DOMAIN inline' : Shown(inline'[q], Newest')
      BY <1>1, <1>2 DEF ForgeInv
<1>4. /\ pull'.head = pull.head + 1 /\ pull'.status = pull.status
      /\ pull' = [head |-> pull'.head, updated |-> Updated, status |-> pull'.status]
      BY <1>1, <1>2 DEF ForgeInv, PullRequest
<1> QED BY <1>2, <1>3, <1>4, HistoryChange

\* A change that no update time tells of.
LEMMA SilentChange ==
    ASSUME IInv, Change, UNCHANGED <<lists, inline, sameSecond>>,
           pull' \in PullRequest, pull'.head = pull.head, pull'.updated = pull.updated,
           \/ checks' = checks
           \/ \E s : /\ Edited(checks[pull.head], s, Newest)
                     /\ checks' = [checks EXCEPT ![pull.head] = s]
    PROVE  IInv'
<1>1. /\ pc \in Active /\ UNCHANGED <<provider, pc, memory, ghosts>>
      /\ Newest \in Nat /\ Newest' = Newest + 1 /\ changes \in Nat /\ changes' = changes + 1
      /\ changes' \in 0 .. MaxChanges /\ Parent' = Parent /\ Lists' = Lists
      /\ ForgeInv /\ TimeInv /\ first' = first
      /\ \A s : Shown(s, Newest) => Shown(s, Newest')
      BY ChangeFrame
<1>2. /\ DOMAIN checks' = DOMAIN checks
      /\ \A h \in DOMAIN checks' : Shown(checks'[h], Newest')
      /\ Contexts' = Contexts \/ Edited(Contexts, Contexts', Newest)
  <2>1. CASE checks' = checks
      BY <1>1, <2>1 DEF ForgeInv, Contexts
  <2>2. CASE \E s : /\ Edited(checks[pull.head], s, Newest)
                    /\ checks' = [checks EXCEPT ![pull.head] = s]
    <3>1. PICK s : /\ Edited(checks[pull.head], s, Newest)
                   /\ checks' = [checks EXCEPT ![pull.head] = s]
        BY <2>2
    <3>2. DOMAIN checks' = DOMAIN checks /\ Shown(s, Newest')
        BY <1>1, <3>1 DEF Edited
    <3>3. \A h \in DOMAIN checks : checks'[h] = IF h = pull.head THEN s ELSE checks[h]
        BY <3>1
    <3>4. \A h \in DOMAIN checks' : Shown(checks'[h], Newest')
        BY <1>1, <3>2, <3>3 DEF ForgeInv
    <3>5. first.head \in DOMAIN checks
        BY <1>1 DEF TimeInv
    <3>6. Contexts' = IF first.head = pull.head THEN s ELSE Contexts
        BY <1>1, <3>3, <3>5 DEF Contexts
    <3>7. Contexts' = Contexts \/ Edited(Contexts, Contexts', Newest)
      <4>1. CASE first.head = pull.head
        <5>1. Contexts = checks[pull.head] /\ Contexts' = s
            BY <3>6, <4>1 DEF Contexts
        <5> QED BY <3>1, <5>1
      <4>2. CASE first.head # pull.head
          BY <3>6, <4>2
      <4> QED BY <4>1, <4>2
    <3> QED BY <3>2, <3>4, <3>7
  <2> QED BY <2>1, <2>2
<1>3. pull'.head \in 1 .. changes' + 1
      BY <1>1 DEF ForgeInv
<1>4. ForgeInv'
      BY <1>1, <1>2, <1>3 DEF ForgeInv
<1>5. UNCHANGED <<first, settled>>
      BY <1>1 DEF memory, ghosts
<1>6. TimeInv' /\ (Quiet' => Quiet)
      BY <1>1, <1>2, <1>5 DEF TimeInv, Quiet
<1> QED BY <1>1, <1>2, <1>4, <1>6, OutsideStep

LEMMA StatusChangesStep ==
    ASSUME IInv, StatusChanges
    PROVE  IInv'
<1>1. ForgeInv
      BY ChangeFrame DEF StatusChanges
<1>2. /\ Change /\ UNCHANGED <<lists, inline, checks, sameSecond>>
      /\ pull' = [pull EXCEPT !.status = 1 - @]
      BY DEF StatusChanges
<1>3. /\ pull' \in PullRequest /\ pull'.head = pull.head /\ pull'.updated = pull.updated
  <2>1. pull \in PullRequest /\ pull.status \in {0, 1}
      BY <1>1 DEF ForgeInv, PullRequest
  <2>2. 1 - pull.status \in {0, 1}
      BY <2>1
  <2> QED BY <1>2, <2>1, <2>2 DEF PullRequest
<1> QED BY <1>2, <1>3, SilentChange

LEMMA CheckChangesStep ==
    ASSUME IInv, CheckChanges
    PROVE  IInv'
<1> DEFINE s == checks[pull.head]
<1>1. ForgeInv /\ Newest \in Nat
      BY ChangeFrame DEF CheckChanges
<1>2. Change /\ UNCHANGED <<pull, lists, inline, sameSecond>>
      BY DEF CheckChanges
<1>3. pull \in PullRequest /\ Shown(s, Newest)
  <2>1. MaxChanges \in Nat /\ changes \in 0 .. MaxChanges /\ pull.head \in 1 .. changes + 1
      BY <1>1, CollectorAssumption DEF ForgeInv
  <2>2. pull.head \in 1 .. MaxChanges + 1
      BY <2>1
  <2> QED BY <1>1, <2>2 DEF ForgeInv
<1>4. \E a : Edited(s, a, Newest) /\ checks' = [checks EXCEPT ![pull.head] = a]
  <2>1. CASE checks' = [checks EXCEPT ![pull.head] = Append(s, New)]
    <3>1. Edited(s, Append(s, New), Newest)
        BY <1>1, <1>3, AppendEdited, NewIsNewest
    <3> QED BY <2>1, <3>1
  <2>2. CASE \E i \in DOMAIN s : checks' = [checks EXCEPT ![pull.head] =
                 IF provider = "github" THEN [s EXCEPT ![i].rev = New.rev]
                 ELSE Append(RemoveAt(s, i), New)]
    <3>1. PICK i \in DOMAIN s : checks' = [checks EXCEPT ![pull.head] =
              IF provider = "github" THEN [s EXCEPT ![i].rev = New.rev]
              ELSE Append(RemoveAt(s, i), New)]
        BY <2>2
    <3>2. /\ Edited(s, [s EXCEPT ![i].rev = New.rev], Newest)
          /\ Edited(s, Append(RemoveAt(s, i), New), Newest)
        BY <1>1, <1>3, ReviseEdited, ReplaceEdited, NewIsNewest
    <3> HIDE DEF s
    <3> QED BY <3>1, <3>2
  <2> QED BY <2>1, <2>2 DEF CheckChanges
<1> QED BY <1>2, <1>3, <1>4, SilentChange

LEMMA TickStep ==
    ASSUME IInv, Tick
    PROVE  IInv'
<1>1. /\ sameSecond /\ pc \notin {"done", "failed"} /\ sameSecond' = FALSE
      /\ UNCHANGED <<provider, pull, lists, inline, checks, changes, pc, memory, ghosts>>
      BY DEF Tick
<1>2. /\ Newest' = Newest /\ Parent' = Parent /\ Lists' = Lists /\ Contexts' = Contexts
      /\ first' = first /\ settled' = settled /\ taken' = taken
      BY <1>1 DEF Newest, Parent, Lists, Contexts, memory, ghosts
<1>3. ForgeInv'
  <2>1. ForgeInv
      BY DEF IInv
  <2> QED BY <1>1, <1>2, <2>1 DEF ForgeInv
<1>4. CASE pc = "start"
      BY <1>1, <1>2, <1>3, <1>4 DEF IInv, Active, AgreeInv
<1>5. CASE pc \in Active
  <2>1. TimeInv /\ ForgeInv
      BY <1>5 DEF IInv, MemoryInv
  <2>2. TimeInv'
      BY <1>1, <1>2, <2>1 DEF TimeInv
  <2>3. Quiet' <=> Quiet
      BY <1>1, <1>2 DEF Quiet
  <2> QED BY <1>1, <1>2, <1>3, <1>5, <2>2, <2>3, OutsideStep
<1> QED BY <1>1, <1>4, <1>5 DEF IInv

-----------------------------------------------------------------------------
(* The start, every step, and the theorems.                                *)

LEMMA RowsShown ==
    ASSUME NEW n \in Nat, NEW b \in Nat, NEW m \in Nat, b + n < m
    PROVE  Shown(Rows(n, b), m)
<1> DEFINE s == Rows(n, b)
<1>1. DOMAIN s = 1 .. n /\ \A i \in 1 .. n : s[i] = [id |-> b + i, rev |-> 0]
      BY DEF Rows
<1>2. \A i \in 1 .. n : s[i].id = b + i /\ s[i].rev = 0 /\ s[i] \in Row
      BY <1>1 DEF Row
<1>3. s \in Seq(Row)
  <2>1. s \in [1 .. n -> Row]
      BY <1>2 DEF Rows
  <2> HIDE DEF s
  <2> QED BY <2>1
<1> HIDE DEF s
<1>4. Sorted(s) /\ Older(s, m)
      BY <1>1, <1>2 DEF Sorted, Older
<1> QED BY <1>3, <1>4 DEF Shown, s

\* Numbers of two digits in a base are below its square.
LEMMA TwoDigits ==
    ASSUME NEW b \in Nat, NEW p \in 0 .. b - 1, NEW q \in 0 .. b - 1
    PROVE  b * p \in Nat /\ b * p + q < b * b /\ q < b * b
<1>1. PICK d \in Nat : b = p + 1 + d
  <2>1. b - p - 1 \in Nat /\ b = p + 1 + (b - p - 1)
      OBVIOUS
  <2> QED BY <2>1
<1>2. \A x, y, z \in Nat : x * (y + 1 + z) = x * y + x + x * z /\ x * y \in Nat /\ x * z \in Nat
      OBVIOUS
<1>3. b * b = b * p + b + b * d /\ b * p \in Nat /\ b * d \in Nat
  <2>1. b * (p + 1 + d) = b * p + b + b * d /\ b * p \in Nat /\ b * d \in Nat
      BY <1>2
  <2> QED BY <1>1, <2>1, Zenon
<1> DEFINE x == b * b
           y == b * p
           z == b * d
<1>4. x = y + b + z /\ y \in Nat /\ z \in Nat
      BY <1>3
<1> HIDE DEF x, y, z
<1>5. y \in Nat /\ y + q < x /\ q < x
      BY <1>4
<1> QED BY <1>5 DEF x, y

LEMMA InitIInv ==
    ASSUME Init
    PROVE  IInv
<1>1. /\ provider \in {"github", "forgejo"}
      /\ MaxChanges \in Nat /\ Base \in Nat
      BY CollectorAssumption, OpeningAssumption DEF Init
<1>2. PICK o \in Openings :
          /\ lists = [l \in Range(Lists) |->
                         IF l = Parent THEN Rows(Len(o.inline), 0) ELSE Rows(o[l], 0)]
          /\ inline = [p \in 1 .. Len(o.inline) |-> Rows(o.inline[p], Base * p)]
          /\ checks = [h \in 1 .. MaxChanges + 1 |-> IF h = 1 THEN Rows(o.checks, 0) ELSE <<>>]
      BY DEF Init
<1>3. /\ {o.comments, o.reviews, o.checks} \subseteq 0 .. Base - 1
      /\ o.inline \in Seq(0 .. Base - 1) /\ Len(o.inline) < Base
      BY OpeningAssumption
<1>4. Len(o.inline) \in 0 .. Base - 1 /\ \A p \in 1 .. Len(o.inline) : o.inline[p] \in 0 .. Base - 1
  <2>1. Len(o.inline) \in Nat /\ \A p \in 1 .. Len(o.inline) : o.inline[p] \in 0 .. Base - 1
      BY <1>3, ElementOfSeq, LenProperties
  <2> QED BY <1>1, <1>3, <2>1
<1>5. Newest = Base * Base /\ Newest \in Nat
  <2>1. \A b \in Nat : b * b \in Nat /\ b * b + 0 = b * b
      OBVIOUS
  <2>2. changes = 0
      BY DEF Init
  <2> QED BY <1>1, <2>1, <2>2 DEF Newest
<1>6. ASSUME NEW n \in 0 .. Base - 1 PROVE Shown(Rows(n, 0), Newest)
  <2>1. n < Base * Base
      BY <1>1, TwoDigits
  <2>2. n \in Nat /\ 0 + n < Newest
      BY <1>5, <2>1
  <2> QED BY <1>5, <2>2, RowsShown
<1>7. ASSUME NEW l \in Range(Lists) PROVE Shown(lists[l], Newest)
  <2>1. CASE l = Parent
      BY <1>2, <1>4, <1>6, <2>1
  <2>2. CASE l # Parent
    <3>1. \E i \in DOMAIN Lists : Lists[i] = l
        BY DEF Range
    <3>2. o[l] \in 0 .. Base - 1
      <4>1. CASE provider = "github"
        <5>1. Lists = <<"comments", "reviews", "threads">> /\ Parent = "threads"
            BY <4>1 DEF Lists, Parent
        <5>2. l = "comments" \/ l = "reviews"
            BY <2>2, <3>1, <5>1
        <5> QED BY <1>3, <5>2
      <4>2. CASE provider = "forgejo"
        <5>1. Lists = <<"reviews", "comments">> /\ Parent = "reviews"
            BY <4>2 DEF Lists, Parent
        <5>2. l = "comments"
            BY <2>2, <3>1, <5>1
        <5> QED BY <1>3, <5>2
      <4> QED BY <1>1, <4>1, <4>2
    <3> QED BY <1>2, <1>6, <2>2, <3>2
  <2> QED BY <2>1, <2>2
<1>8. DOMAIN inline = Ids(lists[Parent])
  <2>1. Parent \in Range(Lists)
      BY <1>1, ListNames
  <2>2. lists[Parent] = Rows(Len(o.inline), 0)
      BY <1>2, <2>1
  <2>3. \A n \in Nat : Ids(Rows(n, 0)) = 1 .. n
    <3> SUFFICES ASSUME NEW n \in Nat PROVE Ids(Rows(n, 0)) = 1 .. n
        OBVIOUS
    <3>1. DOMAIN Rows(n, 0) = 1 .. n /\ \A i \in 1 .. n : Rows(n, 0)[i].id = i
        BY DEF Rows
    <3> QED BY <3>1, Zenon DEF Ids
  <2>4. Len(o.inline) \in Nat
      BY <1>4
  <2> QED BY <1>2, <2>2, <2>3, <2>4
<1>9. ASSUME NEW p \in DOMAIN inline PROVE Shown(inline[p], Newest)
  <2>1. p \in 1 .. Len(o.inline) /\ inline[p] = Rows(o.inline[p], Base * p)
      BY <1>2
  <2>2. p \in 0 .. Base - 1 /\ o.inline[p] \in 0 .. Base - 1
      BY <1>1, <1>4, <2>1
  <2>3. Base * p \in Nat /\ Base * p + o.inline[p] < Newest
      BY <1>1, <1>5, <2>2, TwoDigits
  <2>4. o.inline[p] \in Nat
      BY <1>1, <2>2
  <2> QED BY <1>5, <2>1, <2>3, <2>4, RowsShown
<1>10. ASSUME NEW h \in DOMAIN checks PROVE Shown(checks[h], Newest)
  <2>1. Shown(<<>>, Newest)
      BY DEF Shown, Sorted, Older
  <2>2. Shown(Rows(o.checks, 0), Newest)
      BY <1>3, <1>6
  <2> QED BY <1>2, <2>1, <2>2
<1>11. /\ pull = [head |-> 1, updated |-> 1, status |-> 0] /\ changes = 0
       /\ sameSecond \in BOOLEAN /\ pc = "start" /\ first = pull /\ taken = <<>>
      BY DEF Init
<1>12. /\ changes \in 0 .. MaxChanges
       /\ pull \in PullRequest /\ pull.head \in 1 .. changes + 1
      BY <1>1, <1>11 DEF PullRequest
<1>13. DOMAIN lists = Range(Lists) /\ DOMAIN checks = 1 .. MaxChanges + 1
      BY <1>2
<1>14. ForgeInv
      BY <1>1, <1>7, <1>8, <1>9, <1>10, <1>11, <1>12, <1>13 DEF ForgeInv
<1> QED BY <1>11, <1>14 DEF IInv, Active, AgreeInv

LEMMA NextStep ==
    ASSUME IInv, [Next]_vars
    PROVE  IInv'
<1>1. CASE Start
      BY <1>1, StartStep
<1>2. CASE NextPage
      BY <1>2, NextPageStep
<1>3. CASE Accept
      BY <1>3, AcceptStep
<1>4. CASE ReadAgain
      BY <1>4, ReadAgainStep
<1>5. CASE Publish
      BY <1>5, PublishStep
<1>6. CASE Exhausted \/ Refused
      BY <1>6, GiveUpStep
<1>7. CASE ListChanges
      BY <1>7, ListChangesStep
<1>8. CASE InlineChanges
      BY <1>8, InlineChangesStep
<1>9. CASE Push
      BY <1>9, PushStep
<1>10. CASE StatusChanges
      BY <1>10, StatusChangesStep
<1>11. CASE CheckChanges
      BY <1>11, CheckChangesStep
<1>12. CASE Tick
      BY <1>12, TickStep
<1>13. CASE UNCHANGED vars
  <2>1. UNCHANGED <<provider, forge, pc, memory, ghosts>>
      BY <1>13 DEF vars
  <2>2. ForgeInv'
      BY <2>1, Frame DEF IInv
  <2>3. pc \in Active => MemoryInv'
    <3> SUFFICES ASSUME pc \in Active PROVE MemoryInv'
        OBVIOUS
    <3>1. MemoryInv /\ UNCHANGED <<first, todo, scan, peek, taken, settled, pc>>
        BY <2>1 DEF IInv, memory, ghosts
    <3>2. TimeInv'
        BY <2>1, <3>1 DEF MemoryInv, TimeInv, forge
    <3>3. Quiet' => Quiet
        BY <2>1, <3>1 DEF Quiet, forge
    <3>4. /\ PeekInv(peek') /\ TakenInv(taken', peek') /\ ScanInv(scan', Head(todo'), peek')
          /\ PhaseInv(pc', todo', taken', peek')
          /\ Quiet => PeekNow(peek') /\ TakenNow(taken') /\ ScanNow(scan', Head(todo'))
        BY <3>1 DEF MemoryInv, NowInv
    <3> QED BY <2>1, <3>1, <3>2, <3>3, <3>4, Kept
  <2>4. AgreeInv'
    <3>1. Newest' = Newest /\ Contexts' = Contexts
        BY <2>1, Frame DEF Contexts, forge, memory
    <3>2. UNCHANGED <<pc, provider, first, scan, taken, settled, exact>>
        BY <2>1 DEF memory, ghosts
    <3> QED BY <3>1, <3>2 DEF IInv, AgreeInv, Differ, Gone
  <2>5. UNCHANGED <<pc, first, pull, taken>>
      BY <2>1 DEF memory, forge
  <2> QED BY <2>2, <2>3, <2>4, <2>5 DEF IInv, Active
<1> QED BY <1>1, <1>2, <1>3, <1>4, <1>5, <1>6, <1>7, <1>8, <1>9, <1>10, <1>11, <1>12, <1>13
        DEF Next, Collect, Outside

\* Every state of a collection, however the forge changes between its requests, keeps what
\* the readings of snapshots.rs rely on: rows in the order of their identities, pages of what
\* the forge had, and while the update time stands a history that is the forge's now.
THEOREM Invariance == Spec => []IInv
<1>1. Init => IInv
      BY InitIInv
<1>2. IInv /\ [Next]_vars => IInv'
      BY NextStep
<1> QED BY <1>1, <1>2, PTL DEF Spec

\* github() and forgejo() publish a history that is the whole one of the instant of the
\* re-read, when the second of the last update was over at the first read: pages that were
\* read at other instants, lists that grew or shrank between them and rows that moved from
\* one page to another never get through, with any sizes, limits and changes.
THEOREM HistoryOfOneInstant == Spec => []PublishedIsOneInstant
<1>1. IInv => PublishedIsOneInstant
      BY DEF IInv, AgreeInv, PublishedIsOneInstant
<1> QED BY <1>1, Invariance, PTL

\* The checks that are read twice are published only if they are those of the head at the
\* instant between the two readings, though they change without setting the update time.
THEOREM ChecksOfOneInstant == Spec => []ChecksAreOneInstant
<1>1. IInv => ChecksAreOneInstant
      BY DEF IInv, AgreeInv, ChecksAreOneInstant
<1> QED BY <1>1, Invariance, PTL

-----------------------------------------------------------------------------
(* A pull request that does not change: everything known and read is what  *)
(* the forge has, and the requests sent are some of those it takes, each   *)
(* sent once, so that their number and the budget left add up to Budget.   *)

\* The page the reading r asks for next.
Turn(r) == IF provider = "github" THEN r.pages + 1 ELSE r.pages

\* The reading under way, and the requests sent of those that an unchanged pull request needs.
Current == IF pc = "recheck" THEN Again(first.head) ELSE Head(todo)
Sent == {r \in PageRequests : r[1] \in DOMAIN taken \/ (r[1] = Current /\ r[2] < Turn(scan))}
Pulls == IF pc = "recheck" THEN 2 ELSE 1

Comments == {Nested(p) : p \in DOMAIN inline}
CommentTotal == Total([i \in DOMAIN lists[Parent] |-> Len(inline[lists[Parent][i].id])])

\* No comment stands in two threads or reviews.
OneThread == \A p, q \in DOMAIN inline : p # q => Ids(inline[p]) \cap Ids(inline[q]) = {}

\* Everything known and read is as the forge has it, checks included.
StillPeek(known) == \A t \in DOMAIN known : Exists(t) /\ known[t] = PageOf(Content(t), <<>>, 0)
StillTaken(got) == \A t \in DOMAIN got : got[t] = Content(t) /\ Len(Content(t)) <= Most
StillScan(r, t) ==
    /\ Begins(r, Content(t))
    /\ r.more <=> Asked(t, Turn(r))
    /\ r.more => Len(r.got) = PageSize * Turn(r)
    /\ ~r.more => Len(r.got) = Len(Content(t)) /\ Len(r.got) <= Most

\* What is read and what is still to read are different targets of the forge.
StillTodo(phase, ts, got) ==
    /\ \A i, j \in DOMAIN ts : ts[i] = ts[j] => i = j
    /\ phase \notin {"fresh", "recheck"} => \A i \in DOMAIN ts : ts[i] \notin DOMAIN got
    /\ Range(ts) \subseteq Tops \cup Comments \cup {Checks(first.head)}
    /\ provider = "forgejo" => \A i \in DOMAIN ts : ts[i] \in Comments => Len(Content(ts[i])) > 0
    /\ DOMAIN got \subseteq Tops \cup (IF phase = "history" THEN {} ELSE Comments)
                            \cup (IF phase \in {"fresh", "recheck"} THEN {Checks(first.head)} ELSE {})

StillInv ==
    /\ first = pull
    /\ StillPeek(peek)
    /\ StillTaken(taken)
    /\ StillScan(scan, Head(todo))
    /\ StillTodo(pc, todo, taken)
    /\ pc # "history" => CommentTotal <= InlineLimit
    /\ left \in Nat /\ left + Pulls + Cardinality(Sent) = Budget

LimitsInv ==
    /\ faults \in Nat
    /\ changes = 0 => OneThread
    /\ changes = 0 /\ pc = "start" => left = Budget
    /\ changes = 0 /\ pc \in Active => StillInv
    /\ changes = 0 /\ pc = "done" => Collectable
    /\ changes = 0 /\ faults = 0 /\ pc = "failed" => ~Collectable

-----------------------------------------------------------------------------
(* Requests for pages.                                                     *)

LEMMA PageNumbers ==
    ASSUME NEW j \in Nat, NEW k \in Nat
    PROVE  /\ PageSize * k \in Nat /\ PageSize * (k + 1) = PageSize * k + PageSize
           /\ k * PageSize = PageSize * k
           /\ j < k => PageSize * j + PageSize <= PageSize * k
           /\ j <= k => PageSize * j <= PageSize * k
           /\ PageSize * 0 = 0 /\ PageSize * 1 = PageSize
<1>1. PageSize \in Nat
      BY Limits
<1>2. \A x, y, z \in Nat : /\ x * y \in Nat /\ x * (y + 1) = x * y + x /\ y * x = x * y
                           /\ x * (y + 1 + z) = x * y + x + x * z
                           /\ x * 0 = 0 /\ x * 1 = x
      OBVIOUS
<1>3. ASSUME j < k PROVE PageSize * j + PageSize <= PageSize * k
  <2>1. PICK d \in Nat : k = j + 1 + d
    <3>1. k - j - 1 \in Nat /\ k = j + 1 + (k - j - 1)
        BY <1>3
    <3> QED BY <3>1
  <2>2. PageSize * k = PageSize * j + PageSize + PageSize * d
    <3>1. PageSize * (j + 1 + d) = PageSize * j + PageSize + PageSize * d
        BY <1>1, <1>2
    <3> QED BY <2>1, <3>1, Zenon
  <2> DEFINE x == PageSize * j
             y == PageSize * d
             z == PageSize * k
  <2>3. x \in Nat /\ y \in Nat /\ z = x + PageSize + y
      BY <1>1, <1>2, <2>2
  <2> HIDE DEF x, y, z
  <2>4. x + PageSize <= z
      BY <1>1, <2>3
  <2> QED BY <2>4 DEF x, z
<1>4. j <= k => PageSize * j <= PageSize * k
  <2>1. CASE j < k
    <3> DEFINE x == PageSize * j
               z == PageSize * k
    <3>1. x \in Nat /\ z \in Nat /\ x + PageSize <= z
        BY <1>1, <1>2, <1>3, <2>1
    <3> HIDE DEF x, z
    <3>2. x <= z
        BY <1>1, <3>1
    <3> QED BY <3>2 DEF x, z
  <2>2. CASE j = k
      BY <1>1, <1>2, <2>2
  <2> QED BY <2>1, <2>2
<1> QED BY <1>1, <1>2, <1>3, <1>4

\* After a page that is not asked for, none is.
LEMMA AskedBefore ==
    ASSUME NEW t, Len(Content(t)) \in Nat, NEW j \in Nat, NEW k \in Nat,
           ~Asked(t, j), provider = "github" => j > 0, Asked(t, k)
    PROVE  k < j
<1> DEFINE n == Len(Content(t))
           x == PageSize * j
           y == PageSize * k
<1>1. x \in Nat /\ y \in Nat /\ (j <= k => x <= y) /\ n \in Nat
      BY PageNumbers
<1>2. /\ IF provider = "github" THEN k > 0 /\ y < n
         ELSE CASE t[1] = "list" -> y <= n
                [] t[1] = "inline" -> n > 0 /\ y <= n
                [] OTHER -> k = 0 \/ y < n
      /\ ~(IF provider = "github" THEN j > 0 /\ x < n
           ELSE CASE t[1] = "list" -> x <= n
                  [] t[1] = "inline" -> n > 0 /\ x <= n
                  [] OTHER -> j = 0 \/ x < n)
      BY DEF Asked
<1> HIDE DEF n, x, y
<1>3. CASE provider = "github"
      BY <1>1, <1>2, <1>3
<1>4. CASE provider # "github" /\ t[1] = "list"
      BY <1>1, <1>2, <1>4
<1>5. CASE provider # "github" /\ t[1] = "inline"
      BY <1>1, <1>2, <1>5
<1>6. CASE provider # "github" /\ t[1] \notin {"list", "inline"}
      BY <1>1, <1>2, <1>6
<1> QED BY <1>3, <1>4, <1>5, <1>6

\* Rows in the order of their identities have as many of them.
LEMMA SortedIds ==
    ASSUME NEW s \in Seq(Row)
    PROVE  /\ IsFiniteSet(Ids(s))
           /\ Sorted(s) => Cardinality(Ids(s)) = Len(s)
<1> DEFINE f == [i \in 1 .. Len(s) |-> s[i].id]
<1>1. /\ Len(s) \in Nat /\ DOMAIN s = 1 .. Len(s)
      /\ \A i \in DOMAIN s : s[i].id \in Nat
      /\ IsFiniteSet(1 .. Len(s)) /\ Cardinality(1 .. Len(s)) = Len(s)
      BY SeqRow, UpTo
<1>2. f \in Surjection(1 .. Len(s), Ids(s))
      BY <1>1 DEF Surjection, Ids
<1>3. IsFiniteSet(Ids(s))
  <2> HIDE DEF f
  <2> QED BY <1>1, <1>2, FS_Surjection, Zenon
<1>4. ASSUME Sorted(s) PROVE Cardinality(Ids(s)) = Len(s)
  <2>1. ASSUME NEW i \in 1 .. Len(s), NEW j \in 1 .. Len(s), f[i] = f[j] PROVE i = j
    <3>1. s[i].id = s[j].id /\ s[i].id \in Nat
        BY <1>1, <2>1
    <3>2. ~(i < j) /\ ~(j < i)
        BY <1>1, <1>4, <3>1 DEF Sorted
    <3> QED BY <1>1, <3>2
  <2>2. f \in Injection(1 .. Len(s), Ids(s))
    <3>1. f \in [1 .. Len(s) -> Ids(s)]
        BY <1>2 DEF Surjection
    <3> HIDE DEF f
    <3> QED BY <2>1, <3>1 DEF Injection, IsInjective
  <2> HIDE DEF f
  <2>3. Cardinality(Ids(s)) = Cardinality(1 .. Len(s)) <=> f \in Injection(1 .. Len(s), Ids(s))
      BY <1>1, <1>2, FS_Surjection, Zenon
  <2> QED BY <1>1, <2>2, <2>3
<1> QED BY <1>3, <1>4

LEMMA FiniteImage ==
    ASSUME NEW S, IsFiniteSet(S), NEW f, DOMAIN f = S
    PROVE  IsFiniteSet(Range(f))
<1>1. [x \in S |-> f[x]] \in Surjection(S, Range(f))
      BY DEF Surjection, Range
<1> QED BY <1>1, FS_Surjection, Zenon

LEMMA FiniteRequests ==
    ASSUME ForgeInv
    PROVE  IsFiniteSet(PageRequests) /\ Cardinality(PageRequests) \in Nat
<1>1. Pages \in Nat /\ IsFiniteSet(0 .. Pages)
      BY Limits, FS_Interval
<1>2. IsFiniteSet({Top(l) : l \in Range(Lists)})
  <2>1. IsFiniteSet(DOMAIN Lists)
    <3>1. provider = "github" \/ provider = "forgejo"
        BY DEF ForgeInv
    <3>2. DOMAIN Lists = 1 .. 3 \/ DOMAIN Lists = 1 .. 2
        BY <3>1 DEF Lists
    <3>3. IsFiniteSet(1 .. 3) /\ IsFiniteSet(1 .. 2)
        BY UpTo
    <3> QED BY <3>2, <3>3
  <2>2. IsFiniteSet(Range([i \in DOMAIN Lists |-> Top(Lists[i])]))
      BY <2>1, FiniteImage
  <2>3. Range([i \in DOMAIN Lists |-> Top(Lists[i])]) = {Top(l) : l \in Range(Lists)}
      BY DEF Range
  <2> QED BY <2>2, <2>3
<1>3. IsFiniteSet({Nested(p) : p \in DOMAIN inline})
  <2>1. Parent \in Range(Lists)
      BY ListNames DEF ForgeInv
  <2>2. IsFiniteSet(DOMAIN inline)
      BY <2>1, SortedIds DEF ForgeInv, Shown
  <2>3. IsFiniteSet(Range([p \in DOMAIN inline |-> Nested(p)]))
      BY <2>2, FiniteImage
  <2>4. Range([p \in DOMAIN inline |-> Nested(p)]) = {Nested(p) : p \in DOMAIN inline}
      BY DEF Range
  <2> QED BY <2>3, <2>4
<1>4. IsFiniteSet({Checks(pull.head), Again(pull.head)})
  <2>1. IsFiniteSet({Checks(pull.head)}) /\ IsFiniteSet({Again(pull.head)})
      BY FS_Singleton
  <2>2. IsFiniteSet({Checks(pull.head)} \cup {Again(pull.head)})
      BY <2>1, FS_Union
  <2>3. {Checks(pull.head)} \cup {Again(pull.head)} = {Checks(pull.head), Again(pull.head)}
      OBVIOUS
  <2> QED BY <2>2, <2>3
<1>5. IsFiniteSet(Readings)
      BY <1>2, <1>3, <1>4, FS_Union DEF Readings
<1>6. IsFiniteSet(Readings \X (0 .. Pages))
      BY <1>1, <1>5, FS_Product, Zenon
<1>7. PageRequests \in SUBSET (Readings \X (0 .. Pages))
      BY DEF PageRequests
<1> QED BY <1>6, <1>7, FS_Subset, FS_CardinalityType, Zenon

\* A collection of a forge as it is: what does not change in a step of the collection.
LEMMA LimitsFrame ==
    ASSUME UNCHANGED <<provider, forge>>
    PROVE  /\ PageRequests' = PageRequests /\ Most' = Most /\ CommentTotal' = CommentTotal
           /\ Comments' = Comments /\ (Collectable' <=> Collectable) /\ (OneThread' <=> OneThread)
           /\ \A t, k : Asked(t, k)' <=> Asked(t, k)
           /\ changes' = changes /\ pull' = pull
<1> USE DEF forge
<1>1. /\ Parent' = Parent /\ Lists' = Lists
      /\ \A t : Content(t)' = Content(t)
      BY Frame
<1>2. \A t, k : Asked(t, k)' <=> Asked(t, k)
      BY <1>1 DEF Asked
<1>3. Readings' = Readings
      BY <1>1 DEF Readings
<1>4. PageRequests' = PageRequests
      BY <1>2, <1>3 DEF PageRequests
<1>5. Most' = Most
      BY DEF Most
<1>6. CommentTotal' = CommentTotal
      BY <1>1 DEF CommentTotal
<1>7. Comments' = Comments /\ (OneThread' <=> OneThread)
      BY DEF Comments, OneThread
<1>8. Collectable' <=> Collectable
  <2>1. CommentTotal = Total([i \in DOMAIN lists[Parent] |-> Len(inline[lists[Parent][i].id])])
      BY DEF CommentTotal
  <2>2. CommentTotal' = Total([i \in DOMAIN lists[Parent] |-> Len(inline[lists[Parent][i].id])])'
      BY DEF CommentTotal
  <2>3. Cost' = Cost
      BY <1>4 DEF Cost
  <2> QED BY <1>1, <1>3, <1>5, <1>6, <2>1, <2>2, <2>3 DEF Collectable
<1> QED BY <1>2, <1>4, <1>5, <1>6, <1>7, <1>8

\* A target of the forge.
Known(t) == t \in Tops \cup Comments \cup {Checks(first.head)}

LEMMA KnownShown ==
    ASSUME ForgeInv, first.head \in DOMAIN checks, NEW t, Known(t)
    PROVE  /\ Shown(Content(t), Newest) /\ Exists(t)
           /\ Content(t) \in Seq(Row) /\ Sorted(Content(t)) /\ Len(Content(t)) \in Nat
           /\ t \in Tops \/ t = Checks(first.head) \/ \E p : t = Nested(p)
<1>1. t \in Tops \/ t = Checks(first.head) \/ \E p \in DOMAIN inline : t = Nested(p)
      BY DEF Known, Comments
<1> QED BY <1>1, ContentShown, SeqRow DEF Shown

\* A reading that begins.
LEMMA StillOpened ==
    ASSUME ForgeInv, first.head \in DOMAIN checks, NEW known, StillPeek(known),
           NEW t, Known(t), provider = "github" => t \in DOMAIN known,
           provider = "forgejo" => (t \in Comments => Len(Content(t)) > 0)
    PROVE  StillScan(Opened(t, known), t) /\ Opened(t, known).pages = 0
<1> DEFINE r == Opened(t, known)
           s == Content(t)
<1>1. s \in Seq(Row) /\ Sorted(s) /\ Len(s) \in Nat /\ Shown(s, Newest) /\ Newest \in Nat
      BY KnownShown, NewestNat
<1>2. PageSize \in Nat /\ PageSize > 0 /\ Pages \in Nat /\ Pages > 0
      BY CollectorAssumption
<1>3. CASE provider = "github"
  <2>1. /\ r.got = known[t].rows /\ r.total = known[t].total /\ r.more = known[t].more /\ r.pages = 0
      BY <1>3 DEF Opened
  <2>2. known[t] = PageOf(s, <<>>, 0)
      BY <1>3 DEF StillPeek
  <2> DEFINE page == PageOf(s, <<>>, 0)
  <2>3. Skip(s, <<>>, 0) = 0
    <3>1. Passed(s, <<>>) = {}
        BY DEF Passed
    <3>2. Cardinality({}) = 0
        BY FS_EmptySet, Zenon
    <3> QED BY <1>3, <3>1, <3>2 DEF Skip
  <2>4. PageAfter(page, s, 0)
    <3>1. <<>> \in Seq(Row) /\ 0 \in Nat
        OBVIOUS
    <3> HIDE DEF s, page
    <3> QED BY <1>1, <2>3, <3>1, PageShape DEF page
  <2>5. page.more <=> Asked(t, 1)
      BY <1>1, <1>2, <1>3, <2>4, PageNumbers DEF PageAfter, Asked
  <2>6. /\ page.total = Len(s) /\ Prefix(page.rows, s)
        /\ page.more => Len(page.rows) = PageSize
        /\ ~page.more => page.rows = s
    <3> HIDE DEF s
    <3> QED BY <1>1, <2>4, FirstPage DEF PageAfter, Prefix
  <2>7. Turn(r) = 1
      BY <1>3, <2>1 DEF Turn
  <2>8. ~page.more => Len(s) <= Most
    <3>1. ~page.more => Len(s) <= PageSize
        BY <1>1, <1>2, <2>4 DEF PageAfter
    <3>2. PageSize <= PageSize * (Pages + 1)
      <4>1. PageSize * 1 <= PageSize * (Pages + 1) /\ PageSize * 1 = PageSize
        <5>1. 1 \in Nat /\ Pages + 1 \in Nat /\ 1 <= Pages + 1
            BY <1>2
        <5> QED BY <5>1, PageNumbers
      <4> QED BY <4>1
    <3>3. PageSize * (Pages + 1) \in Nat
        BY <1>2, PageNumbers
    <3>4. Most = PageSize * (Pages + 1)
        BY <1>3 DEF Most
    <3> DEFINE m == PageSize * (Pages + 1)
    <3> HIDE DEF m, s
    <3>5. PageSize <= m /\ m \in Nat /\ Most = m
        BY <3>2, <3>3, <3>4 DEF m
    <3> QED BY <1>1, <1>2, <3>1, <3>5
  <2> HIDE DEF r, s, page
  <2>9. r.got = page.rows /\ r.total = page.total /\ r.more = page.more /\ r.pages = 0
      BY <2>1, <2>2 DEF page
  <2>10. Begins(r, s)
      BY <2>6, <2>9 DEF Begins
  <2>11. PageSize * 1 = PageSize
      BY PageNumbers
  <2>12. StillScan(r, t)
      BY <2>5, <2>6, <2>7, <2>8, <2>9, <2>10, <2>11 DEF StillScan, s
  <2> QED BY <2>9, <2>12 DEF r
<1>4. CASE provider = "forgejo"
  <2>1. r = [got |-> <<>>, total |-> 0, more |-> TRUE, pages |-> 0]
      BY <1>4 DEF Opened
  <2> HIDE DEF r
  <2>2. r.got = <<>> /\ r.more /\ r.pages = 0 /\ Turn(r) = 0 /\ Len(r.got) = 0
      BY <2>1, <1>4 DEF Turn
  <2>3. Begins(r, s)
      BY <1>1, <1>4, <2>2, NoRows DEF Begins, Prefix
  <2>4. PageSize * 0 = 0
      BY PageNumbers
  <2>5. Asked(t, 0)
    <3>1. t[1] = "inline" => Len(s) > 0
        BY <1>4, TargetKinds DEF Known, Comments, Tops, Top, Nested, Checks
    <3> QED BY <1>1, <1>4, <2>4, <3>1 DEF Asked
  <2>6. StillScan(r, t)
      BY <2>2, <2>3, <2>4, <2>5 DEF StillScan
  <2> QED BY <2>2, <2>6 DEF r
<1> QED BY <1>3, <1>4 DEF ForgeInv

\* The next page of an unchanged target is beyond the limit only when its rows are too many.
LEMMA TooMany ==
    ASSUME ForgeInv, first.head \in DOMAIN checks, NEW t, Known(t), NEW k \in Nat,
           Asked(t, k), k > Pages
    PROVE  Len(Content(t)) > Most
<1> DEFINE n == Len(Content(t))
           x == PageSize * k
           y == PageSize * (Pages + 1)
           z == PageSize * Pages
<1>1. PageSize \in Nat /\ PageSize > 0 /\ Pages \in Nat /\ n \in Nat
      BY Limits, KnownShown
<1>2. x \in Nat /\ y \in Nat /\ z \in Nat /\ y <= x /\ y = z + PageSize /\ k > 0 /\ k \in Nat
  <2>1. Pages + 1 \in Nat /\ Pages + 1 <= k
      BY <1>1
  <2> QED BY <1>1, <2>1, PageNumbers
<1>3. x <= n /\ (provider = "github" => x < n)
  <2>1. t[1] = "list" \/ t[1] = "inline" \/ t[1] \notin {"list", "inline"}
      OBVIOUS
  <2>2. \/ provider = "github" /\ x < n
        \/ provider # "github" /\ (x <= n \/ k = 0 \/ x < n)
      BY <2>1, Zenon DEF Asked
  <2> HIDE DEF x, n, y, z
  <2> QED BY <1>1, <1>2, <2>2
<1>4. Most = IF provider = "github" THEN y ELSE z
      BY DEF Most
<1> HIDE DEF n, x, y, z
<1>5. n > Most
      BY <1>1, <1>2, <1>3, <1>4
<1> QED BY <1>5 DEF n

\* One more page of an unchanged target.
GoodPage(page) == IF provider = "github" THEN GithubPage(page) ELSE ForgejoPage(page)

LEMMA StillPage ==
    ASSUME ForgeInv, first.head \in DOMAIN checks, NEW t, Known(t),
           ScanInv(scan, t, peek), StillScan(scan, t), scan.more,
           NEW page, page = PageOf(Content(t), scan.got, scan.pages),
           NEW r, r.got = scan.got \o page.rows, r.total = page.total, r.pages = scan.pages + 1,
           r.more <=> IF provider = "github" THEN page.more ELSE ForgejoMore(t, page)
    PROVE  /\ Turn(scan) \in Nat /\ Turn(r) = Turn(scan) + 1
           /\ GoodPage(page) => Turn(scan) <= Pages /\ StillScan(r, t)
           /\ ~GoodPage(page) => Len(Content(t)) > Most
<1> DEFINE s == Content(t)
           n == Len(s)
           L == Len(scan.got)
           m == Len(page.rows)
           T == Turn(scan)
           P == PageSize
           x == P * T
           y == P * (T + 1)
<1>1. /\ s \in Seq(Row) /\ Sorted(s) /\ n \in Nat /\ Shown(s, Newest) /\ Newest \in Nat
      /\ provider \in {"github", "forgejo"}
      BY KnownShown, NewestNat DEF ForgeInv
<1>2. P \in Nat /\ P > 0 /\ Pages \in Nat
      BY Limits
<1>3. scan.got \in Seq(Row) /\ L \in Nat /\ scan.pages \in Nat /\ T \in Nat
      /\ T = IF provider = "github" THEN scan.pages + 1 ELSE scan.pages
  <2>1. scan.got \in Seq(Row) /\ scan.pages \in Nat
      BY DEF ScanInv, Reads
  <2> QED BY <2>1, SeqRow DEF Turn
<1>4. Turn(r) = T + 1
      BY <1>1, <1>3 DEF Turn
<1>5. /\ Begins(scan, s) /\ Prefix(scan.got, s) /\ L <= n /\ L = x /\ Asked(t, T)
      /\ provider = "forgejo" => L = scan.pages * P
  <2>1. provider = "forgejo" => L = scan.pages * P
      BY DEF ScanInv
  <2> QED BY <2>1 DEF StillScan, Begins, Prefix
<1>6. PageAfter(page, s, L)
  <2>1. Skip(s, scan.got, scan.pages) = L
    <3>1. CASE provider = "github"
        BY <1>1, <1>3, <1>5, <3>1, PassedPrefix DEF Skip, Prefix
    <3>2. CASE provider = "forgejo"
        BY <1>5, <3>2 DEF Skip
    <3> QED BY <1>1, <3>1, <3>2
  <2> HIDE DEF s, L
  <2> QED BY <1>1, <1>3, <2>1, PageShape DEF s
<1>7. /\ page.total = n /\ page.rows \in Seq(Row) /\ m \in Nat /\ m <= P /\ L + m <= n
      /\ page.more => m = P
      /\ ~page.more => L + m = n
      /\ page.more <=> n > L + P
      /\ page.more \in BOOLEAN
  <2>1. page.rows \in Seq(Row) /\ page.more \in BOOLEAN
      BY <1>6 DEF PageAfter, Page
  <2> QED BY <1>5, <1>6, <2>1, SeqRow DEF PageAfter
<1>8. /\ r.got \in Seq(Row) /\ Len(r.got) = L + m /\ Prefix(r.got, s)
  <2>1. Prefix(scan.got \o page.rows, s)
    <3> HIDE DEF s
    <3> QED BY <1>1, <1>3, <1>5, NextPrefix DEF s
  <2> QED BY <1>3, <1>7, <2>1, ConcatIds
<1>9. Begins(r, s)
      BY <1>7, <1>8 DEF Begins
<1>10. /\ x \in Nat /\ y \in Nat /\ y = x + P
      BY <1>2, <1>3, PageNumbers
<1>11. T <= Pages => y <= P * (Pages + 1) /\ (T + 1 <= Pages => y <= P * Pages)
  <2>1. T + 1 \in Nat /\ Pages + 1 \in Nat /\ (T <= Pages => T + 1 <= Pages + 1)
      BY <1>2, <1>3
  <2> QED BY <1>2, <2>1, PageNumbers
<1>12. P * (Pages + 1) \in Nat /\ P * Pages \in Nat /\ P * (Pages + 1) = P * Pages + P
      BY <1>2, PageNumbers
<1>13. T > Pages => n > Most
      BY <1>3, <1>5, TooMany
<1> DEFINE full == P * (Pages + 1)
           whole == P * Pages
<1>14. CASE provider = "github"
  <2>1. Most = full
      BY <1>14 DEF Most
  <2>2. GithubPage(page) <=> T <= Pages
    <3>1. scan.total = n
        BY <1>5, <1>14 DEF Begins
    <3>2. T = scan.pages + 1
        BY <1>3, <1>14
    <3> HIDE DEF T, n
    <3> QED BY <1>2, <1>3, <1>7, <3>1, <3>2 DEF GithubPage
  <2>3. Asked(t, T + 1) <=> y < n
      BY <1>3, <1>14 DEF Asked
  <2> HIDE DEF n, L, m, T, P, x, y, s, full
  <2>4. r.more <=> n > L + P
      BY <1>7, <1>14
  <2>5. r.more <=> Asked(t, T + 1)
      BY <1>2, <1>5, <1>10, <1>1, <2>3, <2>4
  <2>6. r.more => Len(r.got) = y
      BY <1>5, <1>7, <1>8, <1>10, <2>4
  <2>7. ~r.more => Len(r.got) = n
      BY <1>7, <1>8, <2>4
  <2>8. ASSUME ~r.more, T <= Pages PROVE n <= Most
    <3>1. n <= y /\ y <= full
        BY <1>1, <1>5, <1>10, <1>11, <2>4, <2>8, <1>2 DEF full
    <3>2. full \in Nat
        BY <1>12 DEF full
    <3> QED BY <1>1, <1>10, <2>1, <3>1, <3>2
  <2>9. T <= Pages => StillScan(r, t)
      BY <1>4, <1>9, <2>5, <2>6, <2>7, <2>8 DEF StillScan, y, P, n, s
  <2>10. ~(T <= Pages) => n > Most
      BY <1>2, <1>3, <1>13
  <2>11. GithubPage(page) => Turn(scan) <= Pages /\ StillScan(r, t)
      BY <2>2, <2>9 DEF T
  <2>12. ~GithubPage(page) => Len(Content(t)) > Most
      BY <2>2, <2>10 DEF n, s
  <2> QED BY <1>3, <1>4, <1>14, <2>11, <2>12 DEF T, GoodPage
<1>15. CASE provider = "forgejo"
  <2>1. Most = whole
      BY <1>15 DEF Most
  <2>2. T = scan.pages
      BY <1>3, <1>15
  <2>3. scan.pages > 0 => scan.total = n
      BY <1>5, <1>15 DEF Begins
  <2>4. ForgejoPage(page) <=> n <= whole /\ T <= Pages
    <3>1. m = P \/ m = n - L
      <4> HIDE DEF n, L, m, P
      <4> QED BY <1>1, <1>3, <1>7
    <3> HIDE DEF T, n, L, m, P
    <3> QED BY <1>7, <2>2, <2>3, <3>1 DEF ForgejoPage, P, L, m
  <2>5. Asked(t, T + 1) <=> IF t[1] = "list" THEN y <= n
                            ELSE IF t[1] = "inline" THEN n > 0 /\ y <= n ELSE y < n
    <3>1. T + 1 # 0
        BY <1>3
    <3> HIDE DEF T
    <3>2. CASE t[1] = "list"
        BY <1>15, <3>2 DEF Asked
    <3>3. CASE t[1] = "inline"
        BY <1>15, <3>3 DEF Asked
    <3>4. CASE t[1] \notin {"list", "inline"}
        BY <1>15, <3>1, <3>4 DEF Asked
    <3> QED BY <3>2, <3>3, <3>4
  <2>6. ForgejoMore(t, page) <=> IF t[1] = "checks" THEN L + m < n
                                 ELSE ~(L + m = n /\ (m < P \/ T = Pages))
      BY <1>7, <2>2 DEF ForgejoMore
  <2>7. t[1] \in {"list", "inline", "checks"}
      BY DEF Known, Comments, Tops, Top, Nested, Checks
  <2>8. T <= Pages /\ T + 1 <= Pages => y <= whole
      BY <1>11
  <2>9. whole \in Nat /\ full \in Nat /\ full = whole + P /\ (T <= Pages => y <= full)
      BY <1>11, <1>12
  <2>10. (r.more <=> ForgejoMore(t, page))
      BY <1>15
  <2> HIDE DEF n, L, m, T, P, x, y, s, full, whole
  <2>11. CASE n <= whole /\ T <= Pages
    <3>1. T = Pages => y = full
      <4>1. T = Pages => P * (T + 1) = P * (Pages + 1)
          BY Zenon
      <4> QED BY <4>1 DEF y, full
    <3>2. r.more <=> Asked(t, T + 1)
      <4>1. CASE y < n
        <5>1. m = P /\ T # Pages
            BY <1>1, <1>2, <1>5, <1>7, <1>10, <2>9, <2>11, <3>1, <4>1
        <5>2. L + m < n
            BY <1>1, <1>2, <1>5, <1>10, <4>1, <5>1
        <5> QED BY <1>1, <1>2, <1>3, <1>7, <1>10, <2>5, <2>6, <2>7, <2>10, <4>1, <5>2
      <4>2. CASE y = n
        <5>1. m = P /\ L + m = n /\ T # Pages
            BY <1>1, <1>2, <1>5, <1>7, <1>10, <2>9, <2>11, <3>1, <4>2
        <5> QED BY <1>1, <1>2, <1>3, <1>7, <1>10, <2>5, <2>6, <2>7, <2>10, <4>2, <5>1
      <4>3. CASE y > n
        <5>1. m < P /\ L + m = n
            BY <1>1, <1>2, <1>3, <1>5, <1>7, <1>10, <4>3
        <5> QED BY <1>1, <1>2, <1>3, <1>7, <1>10, <2>5, <2>6, <2>7, <2>10, <4>3, <5>1
      <4> QED BY <1>1, <1>10, <4>1, <4>2, <4>3
    <3>3. r.more => m = P /\ Len(r.got) = y
      <4>1. ASSUME r.more PROVE m = P
          BY <1>1, <1>2, <1>3, <1>7, <2>6, <2>7, <2>10, <4>1
      <4> QED BY <1>5, <1>8, <1>10, <4>1
    <3>4. ~r.more => Len(r.got) = n
      <4>1. ASSUME ~r.more PROVE L + m = n
          BY <1>1, <1>2, <1>3, <1>7, <2>6, <2>7, <2>10, <4>1
      <4> QED BY <1>8, <4>1
    <3>5. n <= Most
        BY <2>1, <2>11
    <3>6. StillScan(r, t)
        BY <1>4, <1>9, <3>2, <3>3, <3>4, <3>5 DEF StillScan, y, P, n, s
    <3> QED BY <1>3, <1>4, <1>15, <2>4, <2>11, <3>6 DEF T, GoodPage
  <2>12. CASE ~(n <= whole /\ T <= Pages)
    <3>1. n > Most
        BY <1>1, <1>2, <1>3, <1>13, <2>1, <2>9, <2>12
    <3> QED BY <1>3, <1>4, <1>15, <2>4, <2>12, <3>1 DEF T, n, s, GoodPage
  <2> QED BY <2>11, <2>12
<1> QED BY <1>1, <1>14, <1>15

\* What a response tells of an unchanged pull request.
LEMMA StillTold ==
    ASSUME NEW f, StillPeek(f), NEW t, NEW rows, t = Top(Parent) => Ids(rows) \subseteq DOMAIN inline
    PROVE  StillPeek(Merge(f, Told(t, rows)))
<1> DEFINE g == Told(t, rows)
           known == Merge(f, g)
<1>1. /\ DOMAIN known = DOMAIN f \cup DOMAIN g
      /\ \A u \in DOMAIN f : known[u] = f[u]
      /\ \A u \in DOMAIN g : u \notin DOMAIN f => known[u] = g[u]
      BY Merged
<1>2. ASSUME NEW u \in DOMAIN g PROVE Exists(u) /\ g[u] = PageOf(Content(u), <<>>, 0)
  <2>1. t = Top(Parent)
    <3>1. t # Top(Parent) => DOMAIN g = {}
        BY DEF Told
    <3> QED BY <1>2, <3>1
  <2>2. /\ DOMAIN g = {Nested(p) : p \in Ids(rows)}
        /\ \A v \in DOMAIN g : g[v] = PageOf(inline[v[2]], <<>>, 0)
      BY <2>1 DEF Told
  <2> HIDE DEF g
  <2>3. PICK p \in Ids(rows) : u = Nested(p)
      BY <1>2, <2>2
  <2>4. u[2] = p /\ p \in DOMAIN inline
      BY <2>1, <2>3 DEF Nested
  <2> QED BY <1>2, <2>2, <2>3, <2>4, TargetKinds
<1> HIDE DEF known, g
<1>3. StillPeek(known)
      BY <1>1, <1>2 DEF StillPeek
<1> QED BY <1>3 DEF known, g

\* The budget and the requests of a set of those that are needed.
LEMMA RequestSets ==
    ASSUME ForgeInv, NEW S \in SUBSET PageRequests
    PROVE  /\ Cardinality(S) \in Nat /\ Cardinality(S) <= Cardinality(PageRequests)
           /\ Cardinality(PageRequests) \in Nat
           /\ \A r \in PageRequests : r \notin S =>
                  /\ Cardinality(S \cup {r}) = Cardinality(S) + 1
                  /\ Cardinality(S) + 1 <= Cardinality(PageRequests)
<1>1. IsFiniteSet(PageRequests) /\ Cardinality(PageRequests) \in Nat
      BY FiniteRequests
<1>2. \A T \in SUBSET PageRequests :
          IsFiniteSet(T) /\ Cardinality(T) \in Nat /\ Cardinality(T) <= Cardinality(PageRequests)
      BY <1>1, FS_Subset, FS_CardinalityType, Zenon
<1>3. ASSUME NEW r \in PageRequests, r \notin S
      PROVE  Cardinality(S \cup {r}) = Cardinality(S) + 1
  <2>1. IsFiniteSet(S)
      BY <1>2
  <2>2. Cardinality(S \cup {r}) = IF r \in S THEN Cardinality(S) ELSE Cardinality(S) + 1
      BY <2>1, FS_AddElement, Zenon
  <2> QED BY <1>3, <2>2
<1>4. \A r \in PageRequests : S \cup {r} \in SUBSET PageRequests
      OBVIOUS
<1> QED BY <1>1, <1>2, <1>3, <1>4

\* What is being read of an unchanged pull request.
LEMMA CurrentReading ==
    ASSUME IInv, pc \in Active, StillInv
    PROVE  /\ ForgeInv /\ MemoryInv /\ first.head \in DOMAIN checks /\ first.head = pull.head
           /\ todo # <<>> /\ 1 \in DOMAIN todo /\ Head(todo) = todo[1] /\ DOMAIN todo = 1 .. Len(todo)
           /\ Len(todo) \in Nat
           /\ Known(Head(todo)) /\ Head(todo) \in Readings /\ Current \in Readings
           /\ \A k : Asked(Current, k) <=> Asked(Head(todo), k)
           /\ pc \in Reading => Current \notin DOMAIN taken
           /\ ScanInv(scan, Head(todo), peek) /\ StillScan(scan, Head(todo))
<1>1. ForgeInv /\ MemoryInv /\ first.head \in DOMAIN checks /\ first.head = pull.head
      BY DEF IInv, MemoryInv, TimeInv, StillInv
<1>2. /\ todo # <<>> /\ todo \in Seq(PhaseTargets(pc, taken))
      BY <1>1, HeadKind
<1>3. /\ 1 \in DOMAIN todo /\ Head(todo) = todo[1] /\ DOMAIN todo = 1 .. Len(todo) /\ Len(todo) \in Nat
  <2>1. Len(todo) \in Nat /\ Len(todo) # 0 /\ DOMAIN todo = 1 .. Len(todo)
      BY <1>2, LenProperties, EmptySeq
  <2> QED BY <1>2, <2>1
<1>4. Known(Head(todo))
  <2>1. Range(todo) \subseteq Tops \cup Comments \cup {Checks(first.head)}
      BY DEF StillInv, StillTodo
  <2> QED BY <1>3, <2>1 DEF Range, Known
<1>5. Head(todo) \in Readings
      BY <1>1, <1>4 DEF Known, Tops, Comments, Readings
<1>6. Current \in Readings
      BY <1>1, <1>5 DEF Current, Readings
<1>7. \A k : Asked(Current, k) <=> Asked(Head(todo), k)
  <2>1. CASE pc = "recheck"
    <3>1. Head(todo) = Checks(first.head) /\ Current = Again(first.head)
        BY <1>1, <2>1, HeadKind DEF Current
    <3>2. /\ Content(Again(first.head)) = Content(Checks(first.head))
          /\ Again(first.head)[1] \notin {"list", "inline"} /\ Checks(first.head)[1] \notin {"list", "inline"}
        BY DEF Content, Again, Checks
    <3> QED BY <3>1, <3>2, Zenon DEF Asked
  <2>2. CASE pc # "recheck"
      BY <2>2 DEF Current
  <2> QED BY <2>1, <2>2
<1>8. ASSUME pc \in Reading PROVE Current \notin DOMAIN taken
  <2>1. CASE pc = "recheck"
    <3>1. \A t \in DOMAIN taken : t \in Tops \cup Comments \cup {Checks(first.head)}
        BY DEF StillInv, StillTodo
    <3>2. Again(first.head) \notin Tops \cup Comments \cup {Checks(first.head)}
        BY DEF Again, Tops, Comments, Top, Nested, Checks
    <3> QED BY <2>1, <3>1, <3>2 DEF Current
  <2>2. CASE pc # "recheck"
    <3>1. pc \notin {"fresh", "recheck"}
        BY <1>8, <2>2 DEF Reading
    <3> QED BY <1>3, <2>2, <3>1 DEF StillInv, StillTodo, Current
  <2> QED BY <2>1, <2>2
<1> QED BY <1>1, <1>2, <1>3, <1>4, <1>5, <1>6, <1>7, <1>8 DEF StillInv, MemoryInv

\* The request for the next page is one that is needed and not sent yet.
LEMMA NextRequest ==
    ASSUME IInv, pc \in Reading, StillInv, scan.more
    PROVE  /\ Turn(scan) \in Nat
           /\ Turn(scan) <= Pages => <<Current, Turn(scan)>> \in PageRequests \ Sent
           /\ Turn(scan) > Pages => Len(Content(Head(todo))) > Most
<1>1. pc \in Active
      BY DEF Reading, Active
<1>2. /\ ForgeInv /\ first.head \in DOMAIN checks /\ Known(Head(todo)) /\ Current \in Readings
      /\ \A k : Asked(Current, k) <=> Asked(Head(todo), k)
      /\ Current \notin DOMAIN taken
      /\ ScanInv(scan, Head(todo), peek) /\ StillScan(scan, Head(todo))
      BY <1>1, CurrentReading
<1>3. Turn(scan) \in Nat
      BY <1>2 DEF ScanInv, Reads, Turn
<1>4. Asked(Head(todo), Turn(scan))
      BY <1>2 DEF StillScan
<1> DEFINE q == <<Current, Turn(scan)>>
<1>5. ASSUME Turn(scan) <= Pages PROVE q \in PageRequests
  <2>1. Turn(scan) \in 0 .. Pages
      BY <1>3, <1>5, Limits
  <2>2. q \in Readings \X (0 .. Pages) /\ q[1] = Current /\ q[2] = Turn(scan)
      BY <1>2, <2>1
  <2> HIDE DEF q
  <2> QED BY <1>2, <1>4, <2>2 DEF PageRequests
<1>6. q \notin Sent
  <2>1. q[1] = Current /\ q[2] = Turn(scan)
      OBVIOUS
  <2> HIDE DEF q
  <2>2. ~(Turn(scan) < Turn(scan))
      BY <1>3
  <2> QED BY <1>2, <2>1, <2>2 DEF Sent
<1> QED BY <1>2, <1>3, <1>4, <1>5, <1>6, TooMany

\* A pull request with too many rows of a target is not within the limits.
LEMMA NotCollectable ==
    ASSUME ForgeInv, first.head \in DOMAIN checks, first = pull, NEW t, Known(t), Len(Content(t)) > Most
    PROVE  ~Collectable
<1>1. t \in Readings
      BY DEF Known, Tops, Comments, Readings
<1>2. Len(Content(t)) \in Nat
      BY KnownShown
<1>3. Most \in Nat
  <2>1. Pages \in Nat /\ Pages + 1 \in Nat
      BY Limits
  <2> QED BY <2>1, PageNumbers DEF Most
<1>4. ~(Len(Content(t)) <= Most)
      BY <1>2, <1>3
<1> QED BY <1>1, <1>4 DEF Collectable

LEMMA SentNext ==
    ASSUME UNCHANGED <<provider, forge, first>>
    PROVE  /\ Sent' = {r \in PageRequests : \/ r[1] \in DOMAIN taken'
                                            \/ r[1] = Current' /\ r[2] < Turn(scan')}
           /\ Current' = IF pc' = "recheck" THEN Again(first.head) ELSE Head(todo')
           /\ Pulls' = IF pc' = "recheck" THEN 2 ELSE 1
<1>1. PageRequests' = PageRequests
      BY LimitsFrame
<1>2. Turn(scan)' = Turn(scan')
      BY DEF Turn
<1> QED BY <1>1, <1>2 DEF Sent, Current, Pulls

\* A step of the collection of an unchanged pull request.
LEMMA StillKept ==
    ASSUME UNCHANGED <<provider, forge, first>>, first = pull,
           StillPeek(peek'), StillTaken(taken'), StillScan(scan', Head(todo')),
           StillTodo(pc', todo', taken'), pc' # "history" => CommentTotal <= InlineLimit,
           left' \in Nat, left' + Pulls' + Cardinality(Sent') = Budget
    PROVE  StillInv'
<1>1. /\ Tops' = Tops
      /\ \A t : Content(t)' = Content(t) /\ (Exists(t)' <=> Exists(t))
      /\ \A s, got, number : PageOf(s, got, number)' = PageOf(s, got, number)
      BY Frame
<1>2. /\ Most' = Most /\ CommentTotal' = CommentTotal /\ Comments' = Comments
      /\ \A t, k : Asked(t, k)' <=> Asked(t, k)
      /\ pull' = pull
      BY LimitsFrame
<1>3. StillPeek(peek)'
      BY <1>1 DEF StillPeek
<1>4. StillTaken(taken)'
      BY <1>1, <1>2 DEF StillTaken
<1>5. StillScan(scan, Head(todo))'
  <2>1. Turn(scan)' = Turn(scan')
      BY DEF Turn
  <2>2. Begins(scan, Content(Head(todo)))' <=> Begins(scan', Content(Head(todo')))
      BY <1>1 DEF Begins
  <2> QED BY <1>1, <1>2, <2>1, <2>2 DEF StillScan
<1>6. StillTodo(pc, todo, taken)'
      BY <1>1, <1>2 DEF StillTodo
<1> QED BY <1>2, <1>3, <1>4, <1>5, <1>6 DEF StillInv

LEMMA LimitsKept ==
    ASSUME LimitsInv, UNCHANGED <<provider, forge>>, faults' \in Nat,
           \/ pc' \in Active /\ (changes = 0 => StillInv')
           \/ pc' = "done" /\ (changes = 0 => Collectable)
           \/ pc' = "failed" /\ (changes = 0 /\ faults' = 0 => ~Collectable)
    PROVE  LimitsInv'
<1>1. changes' = changes /\ (OneThread' <=> OneThread) /\ (Collectable' <=> Collectable)
      BY LimitsFrame
<1>2. "start" \notin Active /\ "done" \notin Active /\ "failed" \notin Active
      BY DEF Active
<1> QED BY <1>1, <1>2 DEF LimitsInv

LEMMA ReadingFields ==
    ASSUME NEW g, NEW n, NEW m \in BOOLEAN, NEW p,
           NEW r, r = [got |-> g, total |-> n, more |-> m, pages |-> p]
    PROVE  r.got = g /\ r.total = n /\ r.pages = p /\ (r.more <=> m)
OBVIOUS

\* The rows of a page of the parent list have inline comments on the forge.
LEMMA PageIds ==
    ASSUME ForgeInv, NEW got \in Seq(Row), NEW number \in Nat
    PROVE  Ids(PageOf(lists[Parent], got, number).rows) \subseteq DOMAIN inline
<1> DEFINE s == lists[Parent]
           page == PageOf(s, got, number)
<1>1. Parent \in Range(Lists)
      BY ListNames DEF ForgeInv
<1>2. s \in Seq(Row) /\ Sorted(s) /\ DOMAIN inline = Ids(s)
      BY <1>1 DEF ForgeInv, Shown
<1>3. PageAfter(page, s, Skip(s, got, number))
  <2> HIDE DEF s
  <2> QED BY <1>2, PageShape
<1> HIDE DEF page, s
<1>4. \A i \in DOMAIN page.rows : page.rows[i].id \in Ids(s)
      BY <1>3 DEF PageAfter, Ids
<1>5. Ids(page.rows) \subseteq Ids(s)
      BY <1>4 DEF Ids
<1> QED BY <1>2, <1>5 DEF page, s

LEMMA NextPageLimits ==
    ASSUME IInv, LimitsInv, NextPage
    PROVE  LimitsInv'
<1> DEFINE t == Head(todo)
           s == Content(t)
           page == PageOf(s, scan.got, scan.pages)
           more == IF provider = "github" THEN page.more ELSE ForgejoMore(t, page)
           r == [got |-> scan.got \o page.rows, total |-> page.total, more |-> more,
                 pages |-> scan.pages + 1]
           known == Merge(peek, Told(t, page.rows))
<1>1. /\ pc \in Reading /\ scan.more /\ UNCHANGED <<provider, forge, faults>>
      /\ left > 0 /\ left' = left - 1
      /\ \/ /\ Exists(t) /\ GoodPage(page) /\ scan' = r /\ peek' = known
            /\ UNCHANGED <<pc, first, todo, taken>>
         \/ ~(Exists(t) /\ GoodPage(page)) /\ pc' = "failed"
      BY DEF NextPage, GoodPage, Fail, Request, ghosts
<1>2. pc \in Active
      BY <1>1 DEF Reading, Active
<1>3. faults' \in Nat
      BY <1>1 DEF LimitsInv
<1>4. ASSUME changes = 0
      PROVE  /\ pc' = "failed" => ~Collectable
             /\ pc' # "failed" => StillInv'
  <2>1. StillInv
      BY <1>2, <1>4 DEF LimitsInv
  <2>2. /\ ForgeInv /\ MemoryInv /\ first.head \in DOMAIN checks /\ Known(t)
        /\ ScanInv(scan, t, peek) /\ StillScan(scan, t)
        /\ Current \notin DOMAIN taken
      BY <1>1, <1>2, <2>1, CurrentReading
  <2>3. scan.got \in Seq(Row) /\ scan.pages \in Nat
      BY <2>2 DEF ScanInv, Reads
  <2>4. page.more \in BOOLEAN
    <3>1. s \in Seq(Row) /\ Sorted(s)
        BY <2>2, KnownShown
    <3> HIDE DEF s
    <3>2. PageAfter(page, s, Skip(s, scan.got, scan.pages))
        BY <2>3, <3>1, PageShape
    <3> HIDE DEF page
    <3> QED BY <3>2 DEF PageAfter, Page
  <2>5. more \in BOOLEAN
      BY <2>4, ForgejoMoreBoolean
  <2>6. /\ r.got = scan.got \o page.rows /\ r.total = page.total /\ r.pages = scan.pages + 1
        /\ r.more <=> more
    <3> DEFINE g == scan.got \o page.rows
               n == page.total
               p == scan.pages + 1
    <3>1. r = [got |-> g, total |-> n, more |-> more, pages |-> p]
        OBVIOUS
    <3> HIDE DEF g, n, p, more, r
    <3> QED BY <2>5, <3>1, ReadingFields DEF g, n, p
  <2>7. page = PageOf(Content(t), scan.got, scan.pages)
      OBVIOUS
  <2> HIDE DEF page, r
  <2>8. r.more <=> IF provider = "github" THEN page.more ELSE ForgejoMore(t, page)
      BY <2>6
  <2> HIDE DEF more, t, s
  <2>9. /\ Turn(scan) \in Nat /\ Turn(r) = Turn(scan) + 1
        /\ GoodPage(page) => Turn(scan) <= Pages /\ StillScan(r, t)
        /\ ~GoodPage(page) => Len(Content(t)) > Most
    <3>1. scan.more
        BY <1>1
    <3> QED BY ONLY <2>2, <2>6, <2>7, <2>8, <3>1, StillPage
  <2>10. Exists(t)
      BY <2>2, KnownShown
  <2>11. ASSUME pc' = "failed" PROVE ~Collectable
    <3>1. pc # "failed"
        BY <1>1 DEF Reading
    <3>2. ~GoodPage(page)
        BY <1>1, <2>10, <2>11, <3>1
    <3> QED BY <2>1, <2>2, <2>9, <3>2, NotCollectable DEF StillInv
  <2>12. ASSUME pc' # "failed" PROVE StillInv'
    <3>1. /\ GoodPage(page) /\ scan' = r /\ peek' = known
          /\ UNCHANGED <<pc, first, todo, taken>>
        BY <1>1, <2>12
    <3>2. StillPeek(known)
      <4>1. t = Top(Parent) => Content(t) = lists[Parent]
          BY TargetKinds
      <4>2. t = Top(Parent) => Ids(page.rows) \subseteq DOMAIN inline
          BY <2>2, <2>3, <2>7, <4>1, PageIds
      <4> QED BY <2>1, <4>2, StillTold DEF StillInv
    <3>3. /\ Turn(scan) <= Pages /\ StillScan(r, t)
          /\ <<Current, Turn(scan)>> \in PageRequests \ Sent
      <4>1. Turn(scan) <= Pages /\ StillScan(r, t)
          BY <2>9, <3>1
      <4> QED BY <1>1, <2>1, <4>1, NextRequest
    <3> DEFINE q == <<Current, Turn(scan)>>
    <3>4. Sent' = Sent \cup {q}
      <4>1. Current' = Current
          BY <1>1, <3>1 DEF Current
      <4>2. Sent' = {x \in PageRequests : \/ x[1] \in DOMAIN taken
                                          \/ x[1] = Current /\ x[2] < Turn(scan) + 1}
          BY <1>1, <2>9, <3>1, <4>1, SentNext
      <4>3. ASSUME NEW x \in PageRequests
            PROVE  x[1] = Current => (x[2] < Turn(scan) + 1 <=> x[2] < Turn(scan) \/ x = q)
        <5>1. x[2] \in Nat /\ x = <<x[1], x[2]>>
            BY DEF PageRequests
        <5>2. x[2] < Turn(scan) + 1 <=> x[2] < Turn(scan) \/ x[2] = Turn(scan)
            BY <2>9, <5>1
        <5> QED BY <5>1, <5>2
      <4>4. q[1] = Current /\ q \in PageRequests
          BY <3>3
      <4> HIDE DEF q
      <4> QED BY <4>2, <4>3, <4>4 DEF Sent
    <3>5. Sent \in SUBSET PageRequests
        BY DEF Sent
    <3>6. Cardinality(Sent') = Cardinality(Sent) + 1 /\ Cardinality(Sent) \in Nat
        BY <2>2, <3>3, <3>4, <3>5, RequestSets
    <3>7. Pulls' = Pulls /\ Pulls \in Nat
        BY <3>1 DEF Pulls
    <3>8. left \in Nat /\ left + Pulls + Cardinality(Sent) = Budget
        BY <2>1 DEF StillInv
    <3>9. left' \in Nat /\ left' + Pulls' + Cardinality(Sent') = Budget
        BY <1>1, <3>6, <3>7, <3>8
    <3> QED BY <1>1, <2>1, <3>1, <3>2, <3>3, <3>9, StillKept DEF StillInv, t
  <2> QED BY <2>11, <2>12
<1>5. pc' \in Active \/ pc' = "failed"
      BY <1>1, <1>2
<1> QED BY <1>1, <1>3, <1>4, <1>5, LimitsKept DEF Active

\* Of a target whose reading begins no request was sent, of one that is read all were.
LEMMA NoneSent ==
    ASSUME ForgeInv, NEW o, o.pages = 0, NEW r \in PageRequests
    PROVE  ~(r[2] < Turn(o))
<1>1. r[2] \in Nat /\ Asked(r[1], r[2])
      BY DEF PageRequests
<1>2. CASE provider = "github"
      BY <1>1, <1>2 DEF Asked, Turn
<1>3. CASE provider = "forgejo"
      BY <1>1, <1>3 DEF Turn
<1> QED BY <1>2, <1>3 DEF ForgeInv

LEMMA AllSent ==
    ASSUME IInv, StillInv, pc \in Active, ~scan.more, NEW r \in PageRequests, r[1] = Current
    PROVE  r[2] < Turn(scan)
<1> DEFINE t == Head(todo)
<1>1. /\ ForgeInv /\ first.head \in DOMAIN checks /\ Known(t)
      /\ \A k : Asked(Current, k) <=> Asked(t, k)
      /\ ScanInv(scan, t, peek) /\ StillScan(scan, t)
      BY CurrentReading
<1>2. r[2] \in Nat /\ Asked(t, r[2])
      BY <1>1 DEF PageRequests
<1>3. Turn(scan) \in Nat /\ (provider = "github" => Turn(scan) > 0)
  <2>1. scan.pages \in Nat
      BY <1>1 DEF ScanInv, Reads
  <2> QED BY <2>1 DEF Turn
<1>4. ~Asked(t, Turn(scan)) /\ Len(Content(t)) \in Nat
      BY <1>1, KnownShown DEF StillScan
<1> HIDE DEF t
<1> QED BY <1>2, <1>3, <1>4, AskedBefore

\* A reading of an unchanged target that ends is complete.
LEMMA StillComplete ==
    ASSUME IInv, StillInv, OneThread, pc \in Reading, ~scan.more
    PROVE  /\ Complete(Head(todo)) /\ scan.got = Content(Head(todo))
           /\ Len(Content(Head(todo))) <= Most
<1> DEFINE t == Head(todo)
           s == Content(t)
<1>1. /\ pc \in Active /\ ForgeInv /\ MemoryInv /\ first.head \in DOMAIN checks /\ Known(t)
      /\ ScanInv(scan, t, peek) /\ StillScan(scan, t) /\ 1 \in DOMAIN todo /\ t = todo[1]
  <2>1. pc \in Active
      BY DEF Reading, Active
  <2> QED BY <2>1, CurrentReading
<1>2. s \in Seq(Row) /\ Sorted(s) /\ Len(s) \in Nat
      BY <1>1, KnownShown
<1>3. /\ Begins(scan, s) /\ Len(scan.got) = Len(s) /\ Len(s) <= Most
      /\ provider = "github" \/ scan.pages > 0
  <2>1. provider = "github" \/ scan.pages > 0
      BY <1>1 DEF ScanInv, ForgeInv
  <2> QED BY <1>1, <2>1 DEF StillScan
<1>4. scan.total = Len(s)
      BY <1>3 DEF Begins
<1>5. scan.got = s
  <2> HIDE DEF s
  <2> QED BY <1>2, <1>3, <1>4, CompleteReads
<1>6. Cardinality(Ids(scan.got)) = Len(scan.got)
      BY <1>2, <1>5, SortedIds
<1>7. ASSUME t[1] = "inline"
      PROVE  /\ pc = "inline" /\ \E p \in DOMAIN inline : t = Nested(p)
             /\ t \in DOMAIN peek /\ t \notin DOMAIN taken
  <2>1. PICK p \in DOMAIN inline : t = Nested(p)
      BY <1>1, <1>7 DEF Known, Comments, Tops, Top, Checks
  <2>2. pc = "inline" /\ p \in Ids(taken[Top(Parent)])
    <3>1. t \notin Tops /\ t # Checks(first.head)
        BY <2>1, TargetKinds DEF Tops
    <3>2. pc = "inline"
        BY <1>1, <3>1, HeadKind DEF Active, Reading
    <3>3. PICK q \in Ids(taken[Top(Parent)]) : t = Nested(q)
        BY <1>1, <3>2, HeadKind
    <3>4. q = p
        BY <2>1, <3>3, TargetKinds
    <3> QED BY <3>2, <3>3, <3>4
  <2>3. Top(Parent) \in DOMAIN taken /\ TakenInv(taken, peek)
      BY <1>1, <2>2, HeadKind DEF MemoryInv, PhaseInv
  <2>4. t \in DOMAIN peek
      BY <2>1, <2>2, <2>3 DEF TakenInv, ToldOf
  <2>5. t \notin DOMAIN taken
      BY <1>1, <2>2 DEF StillInv, StillTodo
  <2> QED BY <2>1, <2>2, <2>4, <2>5
<1>8. provider = "forgejo" /\ t[1] = "inline" => Len(scan.got) = peek[t].total
  <2> SUFFICES ASSUME t[1] = "inline" PROVE Len(scan.got) = peek[t].total
      OBVIOUS
  <2>1. peek[t] = PageOf(s, <<>>, 0)
      BY <1>7 DEF StillInv, StillPeek
  <2>2. PageOf(s, <<>>, 0).total = Len(s)
      BY DEF PageOf
  <2> QED BY <1>5, <2>1, <2>2
<1>9. ASSUME t[1] = "inline", NEW u \in DOMAIN taken, u[1] = "inline"
      PROVE  Ids(taken[u]) \cap Ids(scan.got) = {}
  <2>1. PICK p \in DOMAIN inline : t = Nested(p)
      BY <1>7, <1>9
  <2>2. PICK q \in DOMAIN inline : u = Nested(q)
    <3>1. u \in Tops \cup Comments \cup {Checks(first.head)}
        BY <1>9 DEF StillInv, StillTodo
    <3> QED BY <1>9, <3>1 DEF Comments, Tops, Top, Checks
  <2>3. p # q
      BY <1>7, <1>9, <2>1, <2>2
  <2>4. taken[u] = inline[q] /\ s = inline[p]
      BY <1>9, <2>1, <2>2, TargetKinds DEF StillInv, StillTaken
  <2> QED BY <1>5, <2>3, <2>4 DEF OneThread
<1>10. Complete(t)
      BY <1>3, <1>4, <1>6, <1>8, <1>9 DEF Complete
<1> QED BY <1>3, <1>5, <1>10

LEMMA NoFewRows ==
    ASSUME ForgeInv, NEW n \in Nat, ~(n > 0)
    PROVE  n <= Most
<1>1. Pages \in Nat /\ Pages + 1 \in Nat
      BY Limits
<1>2. Most \in Nat
      BY <1>1, PageNumbers DEF Most
<1> QED BY <1>2

\* A collection that comes to its end was within every limit.
LEMMA EndCollectable ==
    ASSUME IInv, StillInv, pc = "recheck", ~scan.more
    PROVE  Collectable
<1>1. /\ pc \in Active /\ ForgeInv /\ MemoryInv /\ first.head = pull.head
      /\ PhaseInv(pc, todo, taken, peek) /\ TakenInv(taken, peek)
  <2>1. pc \in Active
      BY DEF Active
  <2> QED BY <2>1, CurrentReading DEF MemoryInv
<1>2. /\ Tops \subseteq DOMAIN taken /\ Checks(pull.head) \in DOMAIN taken
      /\ StillTaken(taken) /\ StillPeek(peek)
      BY <1>1 DEF PhaseInv, StillInv
<1>3. ASSUME NEW p \in DOMAIN inline
      PROVE  Nested(p) \in DOMAIN taken \/ (provider = "forgejo" /\ ~(Len(inline[p]) > 0))
  <2>1. Top(Parent) \in DOMAIN taken /\ Parent \in Range(Lists)
      BY <1>1, <1>2, HeadKind
  <2>2. taken[Top(Parent)] = lists[Parent]
      BY <1>2, <2>1, TargetKinds DEF StillTaken
  <2>3. p \in Ids(taken[Top(Parent)])
      BY <1>1, <2>2 DEF ForgeInv
  <2>4. Nested(p) \in DOMAIN peek
      BY <1>1, <2>1, <2>3 DEF TakenInv, ToldOf
  <2>5. peek[Nested(p)].total = Len(inline[p])
    <3>1. peek[Nested(p)] = PageOf(inline[p], <<>>, 0)
        BY <1>2, <2>4, TargetKinds DEF StillPeek
    <3> QED BY <3>1 DEF PageOf
  <2> QED BY <1>1, <2>3, <2>5 DEF PhaseInv
<1>4. Content(Again(pull.head)) = Content(Checks(pull.head))
      BY DEF Content, Again, Checks
<1>5. ASSUME NEW t \in Readings PROVE Len(Content(t)) <= Most
  <2>1. CASE t \in DOMAIN taken
      BY <1>2, <2>1 DEF StillTaken
  <2>2. CASE t = Again(pull.head)
      BY <1>2, <1>4, <2>2 DEF StillTaken
  <2>3. CASE t \notin DOMAIN taken /\ t # Again(pull.head)
    <3>1. PICK p \in DOMAIN inline : t = Nested(p)
        BY <1>2, <2>3 DEF Readings, Tops
    <3>2. ~(Len(inline[p]) > 0) /\ Content(t) = inline[p]
        BY <1>3, <2>3, <3>1, TargetKinds
    <3>3. Len(inline[p]) \in Nat
        BY <1>1, SeqRow DEF ForgeInv, Shown
    <3> QED BY <1>1, <3>2, <3>3, NoFewRows
  <2> QED BY <2>1, <2>2, <2>3
<1>6. ASSUME NEW r \in PageRequests PROVE r \in Sent
  <2>1. r[1] \in Readings /\ Asked(r[1], r[2])
      BY DEF PageRequests
  <2>2. CASE r[1] \in DOMAIN taken
      BY <2>2 DEF Sent
  <2>3. CASE r[1] = Again(pull.head)
    <3>1. r[1] = Current
        BY <1>1, <2>3 DEF Current
    <3>2. r[2] < Turn(scan)
        BY <1>1, <3>1, AllSent
    <3> QED BY <3>1, <3>2 DEF Sent
  <2>4. CASE r[1] \notin DOMAIN taken /\ r[1] # Again(pull.head)
    <3>1. PICK p \in DOMAIN inline : r[1] = Nested(p)
        BY <1>2, <2>1, <2>4 DEF Readings, Tops
    <3>2. provider = "forgejo" /\ ~(Len(inline[p]) > 0) /\ Content(r[1]) = inline[p]
          /\ r[1][1] = "inline"
        BY <1>3, <2>4, <3>1, TargetKinds DEF Nested
    <3>3. FALSE
        BY <2>1, <3>2 DEF Asked
    <3> QED BY <3>3
  <2> QED BY <2>2, <2>3, <2>4
<1>7. Sent = PageRequests
      BY <1>6 DEF Sent
<1>8. left \in Nat /\ left + 2 + Cardinality(PageRequests) = Budget
      BY <1>7 DEF StillInv, Pulls
<1>9. Cardinality(PageRequests) \in Nat /\ Budget \in Nat
      BY <1>1, FiniteRequests, CollectorAssumption
<1>10. Cost <= Budget
      BY <1>8, <1>9 DEF Cost
<1>11. CommentTotal <= InlineLimit
      BY DEF StillInv
<1> QED BY <1>5, <1>10, <1>11 DEF Collectable, CommentTotal

LEMMA PublishLimits ==
    ASSUME IInv, LimitsInv, Publish
    PROVE  LimitsInv'
<1>1. /\ pc = "recheck" /\ pc \in Active /\ pc \in Reading /\ ~scan.more
      /\ UNCHANGED <<provider, forge, faults, first>>
      /\ pc' = IF Complete(Head(todo)) /\ SameChecks THEN "done" ELSE "failed"
      BY DEF Publish, memory, Active, Reading
<1>2. ASSUME changes = 0 PROVE Collectable /\ pc' = "done"
  <2>1. StillInv /\ OneThread
      BY <1>1, <1>2 DEF LimitsInv
  <2>2. Complete(Head(todo)) /\ scan.got = Content(Head(todo))
      BY <1>1, <2>1, StillComplete
  <2>3. Head(todo) = Checks(first.head) /\ Checks(first.head) \in DOMAIN taken
    <3>1. ForgeInv /\ MemoryInv
        BY <1>1 DEF IInv
    <3> QED BY <1>1, <3>1, HeadKind DEF MemoryInv, PhaseInv
  <2>4. SameChecks
      BY <2>1, <2>2, <2>3 DEF SameChecks, StillInv, StillTaken
  <2>5. Collectable
      BY <1>1, <2>1, EndCollectable
  <2> QED BY <1>1, <2>2, <2>4, <2>5
<1>3. faults' \in Nat
      BY <1>1 DEF LimitsInv
<1>4. pc' = "done" \/ pc' = "failed"
      BY <1>1
<1> QED BY <1>1, <1>2, <1>3, <1>4, LimitsKept

LEMMA RefusedLimits ==
    ASSUME IInv, LimitsInv, Refused
    PROVE  LimitsInv'
<1>1. /\ pc' = "failed" /\ faults' = faults + 1 /\ faults \in Nat /\ UNCHANGED <<provider, forge>>
      BY DEF Refused, Fail, LimitsInv
<1>2. faults' \in Nat /\ faults' # 0
      BY <1>1
<1> QED BY <1>1, <1>2, LimitsKept

\* The budget is spent on requests that are needed, and there are more of them.
LEMMA ExhaustedLimits ==
    ASSUME IInv, LimitsInv, Exhausted
    PROVE  LimitsInv'
<1>1. /\ left = 0 /\ Asking /\ pc' = "failed" /\ UNCHANGED <<provider, forge, faults>>
      BY DEF Exhausted, Fail
<1>2. Budget \in Nat /\ Budget > 0
      BY CollectorAssumption
<1>3. ASSUME changes = 0 PROVE ~Collectable
  <2>1. CASE pc = "start"
      BY <1>1, <1>2, <1>3, <2>1 DEF LimitsInv
  <2>2. CASE pc # "start"
    <3>1. pc \in Active /\ (pc # "fresh" => pc \in Reading /\ scan.more)
        BY <1>1, <2>2 DEF Asking, Active, Reading
    <3>2. StillInv
        BY <1>3, <3>1 DEF LimitsInv
    <3>3. /\ ForgeInv /\ first.head \in DOMAIN checks /\ first = pull /\ Known(Head(todo))
        BY <3>1, <3>2, CurrentReading DEF StillInv
    <3>4. Pulls + Cardinality(Sent) = Budget /\ Pulls \in {1, 2} /\ (pc = "fresh" => Pulls = 1)
      <4>1. 0 + Pulls + Cardinality(Sent) = Budget
          BY <1>1, <3>2 DEF StillInv
      <4>2. Pulls \in {1, 2} /\ (pc = "fresh" => Pulls = 1)
          BY DEF Pulls
      <4> QED BY <4>1, <4>2
    <3>5. Sent \in SUBSET PageRequests
        BY DEF Sent
    <3>6. /\ Cardinality(Sent) \in Nat /\ Cardinality(Sent) <= Cardinality(PageRequests)
          /\ Cardinality(PageRequests) \in Nat
          /\ \A r \in PageRequests : r \notin Sent => Cardinality(Sent) + 1 <= Cardinality(PageRequests)
        BY <3>3, <3>5, RequestSets
    <3>7. CASE pc = "fresh"
      <4>1. ~(Cost <= Budget)
          BY <1>2, <3>4, <3>6, <3>7 DEF Cost
      <4> QED BY <4>1 DEF Collectable
    <3>8. CASE pc # "fresh" /\ Turn(scan) <= Pages
      <4>1. <<Current, Turn(scan)>> \in PageRequests \ Sent
          BY <3>1, <3>2, <3>8, NextRequest
      <4>2. Cardinality(Sent) + 1 <= Cardinality(PageRequests)
          BY <3>6, <4>1
      <4>3. ~(Cost <= Budget)
          BY <1>2, <3>4, <3>6, <4>2 DEF Cost
      <4> QED BY <4>3 DEF Collectable
    <3>9. CASE pc # "fresh" /\ ~(Turn(scan) <= Pages)
      <4>1. Turn(scan) > Pages
          BY <3>1, <3>2, <3>9, NextRequest, Limits
      <4>2. Len(Content(Head(todo))) > Most
          BY <3>1, <3>2, <3>9, <4>1, NextRequest
      <4> QED BY <3>3, <4>2, NotCollectable
    <3> QED BY <3>7, <3>8, <3>9
  <2> QED BY <2>1, <2>2
<1>4. faults' \in Nat
      BY <1>1 DEF LimitsInv
<1> QED BY <1>1, <1>3, <1>4, LimitsKept

LEMMA ReadAgainLimits ==
    ASSUME IInv, LimitsInv, ReadAgain
    PROVE  LimitsInv'
<1> DEFINE cs == Checks(first.head)
<1>1. /\ pc = "fresh" /\ pc \in Active /\ UNCHANGED <<provider, forge, faults, first>>
      /\ left > 0 /\ left' = left - 1
      /\ \/ /\ Unmoved /\ pc' = "recheck" /\ todo' = <<cs>> /\ Head(todo') = cs
            /\ scan' = Opened(cs, peek) /\ UNCHANGED <<first, peek, taken>>
         \/ ~Unmoved /\ pc' = "failed"
      BY DEF ReadAgain, Request, Read, Fail, Active
<1>2. ASSUME changes = 0 PROVE Unmoved /\ StillInv'
  <2>1. StillInv
      BY <1>1, <1>2 DEF LimitsInv
  <2>2. /\ ForgeInv /\ MemoryInv /\ first.head \in DOMAIN checks /\ first.head = pull.head
        /\ first = pull /\ PeekInv(peek) /\ PhaseInv(pc, todo, taken, peek)
      BY <1>1, <2>1, CurrentReading DEF StillInv, MemoryInv
  <2>3. provider = "github" => cs \in DOMAIN peek
      BY <2>2 DEF PeekInv
  <2>4. Unmoved
    <3>1. cs \in DOMAIN peek => peek[cs] = PageOf(checks[pull.head], <<>>, 0)
        BY <2>1, <2>2, TargetKinds DEF StillInv, StillPeek
    <3> QED BY <2>2, <2>3, <3>1 DEF Unmoved
  <2>5. /\ pc' = "recheck" /\ todo' = <<cs>> /\ Head(todo') = cs
        /\ scan' = Opened(cs, peek) /\ UNCHANGED <<first, peek, taken>>
      BY <1>1, <2>4
  <2>6. StillScan(Opened(cs, peek), cs) /\ Opened(cs, peek).pages = 0
    <3>1. Known(cs) /\ cs \notin Comments
        BY TargetKinds DEF Known, Comments
    <3> HIDE DEF cs
    <3> QED BY <2>1, <2>2, <2>3, <3>1, StillOpened DEF StillInv
  <2>7. cs \in DOMAIN taken
      BY <1>1, <2>2 DEF PhaseInv
  <2>8. Current = cs
      BY <1>1, <2>2, HeadKind DEF Current
  <2>9. Sent' = Sent
    <3>1. Sent' = {r \in PageRequests : \/ r[1] \in DOMAIN taken
                                        \/ r[1] = Current' /\ r[2] < Turn(Opened(cs, peek))}
        BY <1>1, <2>5, SentNext
    <3>2. \A r \in PageRequests : ~(r[2] < Turn(Opened(cs, peek)))
        BY <2>2, <2>6, NoneSent
    <3> HIDE DEF cs
    <3> QED BY <2>7, <2>8, <3>1, <3>2 DEF Sent
  <2>10. left' \in Nat /\ left' + Pulls' + Cardinality(Sent') = Budget
    <3>1. Cardinality(Sent) \in Nat
      <4>1. Sent \in SUBSET PageRequests
          BY DEF Sent
      <4> QED BY <2>2, <4>1, RequestSets
    <3>2. left \in Nat /\ left + 1 + Cardinality(Sent) = Budget /\ Pulls' = 2
        BY <1>1, <2>1, <2>5 DEF StillInv, Pulls
    <3> QED BY <1>1, <2>9, <3>1, <3>2
  <2>11. StillTodo("recheck", <<cs>>, taken)
    <3>1. DOMAIN <<cs>> = {1} /\ <<cs>>[1] = cs /\ Range(<<cs>>) = {cs} /\ cs \notin Comments
        BY TargetKinds DEF Range, Comments
    <3>2. StillTodo("fresh", todo, taken)
        BY <1>1, <2>1 DEF StillInv
    <3> HIDE DEF cs
    <3> QED BY <3>1, <3>2 DEF StillTodo, cs
  <2>12. CommentTotal <= InlineLimit /\ StillPeek(peek) /\ StillTaken(taken)
      BY <1>1, <2>1 DEF StillInv
  <2> HIDE DEF cs
  <2> QED BY <1>1, <2>2, <2>4, <2>5, <2>6, <2>10, <2>11, <2>12, StillKept
<1>3. faults' \in Nat
      BY <1>1 DEF LimitsInv
<1>4. pc' \in Active \/ pc' = "failed"
      BY <1>1 DEF Active
<1> QED BY <1>1, <1>2, <1>3, <1>4, LimitsKept

LEMMA StartLimits ==
    ASSUME IInv, LimitsInv, Start
    PROVE  LimitsInv'
<1> DEFINE f == [t \in {Top(l) : l \in Range(Lists)} \cup {Checks(pull.head)} |->
                     PageOf(Content(t), <<>>, 0)]
           rows == PageOf(lists[Parent], <<>>, 0).rows
           tops == [i \in DOMAIN Lists |-> Top(Lists[i])]
<1>1. /\ pc = "start" /\ pc' = "history" /\ first' = pull /\ left > 0 /\ left' = left - 1
      /\ peek' = IF provider = "forgejo" THEN <<>> ELSE Merge(f, Told(Top(Parent), rows))
      /\ todo' = tops /\ scan' = Opened(Head(tops), peek')
      /\ UNCHANGED <<provider, forge, faults, taken>>
      BY DEF Start, Read, Request
<1>2. /\ ForgeInv /\ first = pull /\ first' = first /\ taken = <<>> /\ DOMAIN taken = {}
      /\ provider \in {"github", "forgejo"} /\ IInv' /\ pc' \in Active
      BY <1>1, StartStep DEF IInv, ForgeInv, Active
<1>3. first.head \in DOMAIN checks
  <2>1. MaxChanges \in Nat /\ changes \in 0 .. MaxChanges /\ first.head \in 1 .. changes + 1
      BY <1>2, CollectorAssumption DEF ForgeInv
  <2>2. first.head \in 1 .. MaxChanges + 1
      BY <2>1
  <2> QED BY <1>2, <2>2 DEF ForgeInv
<1>4. ASSUME changes = 0 PROVE StillInv'
  <2>1. left = Budget /\ Budget \in Nat /\ Budget > 0
      BY <1>1, <1>4, CollectorAssumption DEF LimitsInv
  <2>2. /\ tops \in Seq(Tops) /\ tops # <<>> /\ Range(tops) = Tops
        /\ \A i, j \in DOMAIN tops : tops[i] = tops[j] => i = j
    <3>1. tops \in Seq(Tops) /\ tops # <<>> /\ Range(tops) = Tops
        BY <1>2, ListNames DEF Tops
    <3>2. \A i, j \in DOMAIN Lists : Lists[i] = Lists[j] => i = j
      <4>1. CASE provider = "github"
        <5>1. Lists = <<"comments", "reviews", "threads">>
            BY <4>1 DEF Lists
        <5> QED BY <5>1
      <4>2. CASE provider = "forgejo"
        <5>1. Lists = <<"reviews", "comments">>
            BY <4>2 DEF Lists
        <5> QED BY <5>1
      <4> QED BY <1>2, <4>1, <4>2
    <3>3. \A i, j \in DOMAIN tops : tops[i] = tops[j] => i = j
        BY <3>2, TargetKinds
    <3> QED BY <3>1, <3>3
  <2>3. StillPeek(f)
    <3>1. DOMAIN f = Tops \cup {Checks(pull.head)} /\ \A t \in DOMAIN f : f[t] = PageOf(Content(t), <<>>, 0)
        BY DEF Tops
    <3> HIDE DEF f
    <3> QED BY <3>1, TargetKinds DEF StillPeek, Tops
  <2>4. Ids(rows) \subseteq DOMAIN inline
    <3>1. <<>> \in Seq(Row) /\ 0 \in Nat
        OBVIOUS
    <3> QED BY <1>2, <3>1, PageIds
  <2>5. StillPeek(peek')
    <3>1. CASE provider = "forgejo"
      <4>1. DOMAIN peek' = {}
          BY <1>1, <3>1
      <4> QED BY <4>1 DEF StillPeek
    <3>2. CASE provider = "github"
      <4> HIDE DEF f, rows
      <4> QED BY <1>1, <2>3, <2>4, <3>2, StillTold
    <3> QED BY <1>2, <3>1, <3>2
  <2>6. provider = "github" => Tops \subseteq DOMAIN peek'
    <3>1. DOMAIN f = Tops \cup {Checks(pull.head)}
        BY DEF Tops
    <3> HIDE DEF f, rows
    <3> QED BY <1>1, <3>1, Merged
  <2> HIDE DEF tops
  <2>7. Head(tops) \in Tops
      BY <2>2, HeadTailProperties, Zenon
  <2>8. \A t \in Tops : t \notin Comments
      BY TargetKinds DEF Tops, Comments
  <2>9. StillScan(scan', Head(tops)) /\ scan'.pages = 0
    <3>1. Known(Head(tops)) /\ Head(tops) \notin Comments
        BY <2>7, <2>8 DEF Known
    <3> QED BY <1>1, <1>2, <1>3, <2>5, <2>6, <2>7, <3>1, StillOpened
  <2>10. StillTodo(pc', todo', taken')
    <3>1. \A i \in DOMAIN tops : tops[i] \in Tops
        BY <2>2 DEF Range
    <3> QED BY <1>1, <1>2, <2>2, <2>8, <3>1 DEF StillTodo
  <2>11. StillTaken(taken')
      BY <1>1, <1>2 DEF StillTaken
  <2>12. Cardinality(Sent') = 0 /\ Pulls' = 1
    <3>1. /\ Sent' = {r \in PageRequests : \/ r[1] \in DOMAIN taken'
                                           \/ r[1] = Current' /\ r[2] < Turn(scan')}
          /\ Pulls' = 1
        BY <1>1, <1>2, SentNext
    <3>2. Sent' = {}
        BY <1>1, <1>2, <2>9, <3>1, NoneSent
    <3> QED BY <3>1, <3>2, FS_EmptySet
  <2>13. left' \in Nat /\ left' + Pulls' + Cardinality(Sent') = Budget
      BY <1>1, <2>1, <2>12
  <2> QED BY <1>1, <1>2, <2>5, <2>9, <2>10, <2>11, <2>13, StillKept
<1>5. faults' \in Nat
      BY <1>1 DEF LimitsInv
<1> QED BY <1>1, <1>2, <1>4, <1>5, LimitsKept

\* The inline comments to read are each read once.
LEMMA InlineTargetsOnce ==
    ASSUME NEW rows \in Seq(Row), Sorted(rows)
    PROVE  /\ \A i, j \in DOMAIN InlineTargets(rows) :
                  InlineTargets(rows)[i] = InlineTargets(rows)[j] => i = j
           /\ \A i \in DOMAIN InlineTargets(rows) : \E k \in Counted(rows) :
                  InlineTargets(rows)[i] = Nested(rows[k].id)
<1> DEFINE S == Counted(rows)
           ts == InlineTargets(rows)
           c == Cardinality(S)
           f == [n \in 1 .. c |-> Nth(S, n)]
<1>1. /\ Len(rows) \in Nat /\ DOMAIN rows = 1 .. Len(rows) /\ S \in SUBSET (1 .. Len(rows))
      /\ \A i \in DOMAIN rows : rows[i].id \in Nat
      BY SeqRow DEF Counted
<1>2. /\ c \in Nat
      /\ \A n \in 1 .. c : Nth(S, n) \in S
      /\ \A i \in S : \E n \in 1 .. c : Nth(S, n) = i
      BY <1>1, NthOfSet, Zenon
<1>3. DOMAIN ts = 1 .. c /\ \A n \in 1 .. c : ts[n] = Nested(rows[Nth(S, n)].id)
      BY DEF InlineTargets
<1>4. f \in Injection(1 .. c, S)
  <2>1. f \in Surjection(1 .. c, S)
    <3> HIDE DEF S, c
    <3> QED BY <1>2 DEF Surjection
  <2>2. IsFiniteSet(1 .. c) /\ Cardinality(1 .. c) = Cardinality(S)
      BY <1>2, UpTo
  <2> HIDE DEF f, S, c
  <2> QED BY <2>1, <2>2, FS_SurjSameCardinalityImpliesInj, Zenon
<1>5. \A m, n \in 1 .. c : Nth(S, m) = Nth(S, n) => m = n
  <2>1. \A m, n \in 1 .. c : f[m] = f[n] => m = n
    <3> HIDE DEF f, S, c
    <3> QED BY <1>4 DEF Injection, IsInjective
  <2> QED BY <2>1
<1>6. \A i, j \in S : rows[i].id = rows[j].id => i = j
  <2> SUFFICES ASSUME NEW i \in S, NEW j \in S, rows[i].id = rows[j].id PROVE i = j
      OBVIOUS
  <2>1. i \in 1 .. Len(rows) /\ j \in 1 .. Len(rows) /\ i \in DOMAIN rows /\ j \in DOMAIN rows
      BY <1>1
  <2>2. ~(rows[i].id < rows[j].id) /\ ~(rows[j].id < rows[i].id)
      BY <1>1, <2>1
  <2>3. ~(i < j) /\ ~(j < i)
      BY <2>1, <2>2 DEF Sorted
  <2> QED BY <1>1, <2>1, <2>3
<1> HIDE DEF S, ts, c, f
<1>7. ASSUME NEW i \in DOMAIN ts, NEW j \in DOMAIN ts, ts[i] = ts[j] PROVE i = j
  <2>1. rows[Nth(S, i)].id = rows[Nth(S, j)].id
      BY <1>3, <1>7, TargetKinds
  <2> QED BY <1>2, <1>3, <1>5, <1>6, <2>1
<1>8. \A i \in DOMAIN ts : \E k \in S : ts[i] = Nested(rows[k].id)
      BY <1>2, <1>3
<1> QED BY <1>7, <1>8 DEF ts, S

\* The inline comments that an unchanged list counts.
LEMMA CommentsCounted ==
    ASSUME ForgeInv, StillPeek(peek), ToldOf(peek, lists[Parent])
    PROVE  /\ InlineTotal(lists[Parent]) = CommentTotal
           /\ \A p \in DOMAIN inline : Nested(p) \in DOMAIN peek /\ peek[Nested(p)].total = Len(inline[p])
           /\ DOMAIN inline = Ids(lists[Parent])
<1>1. DOMAIN inline = Ids(lists[Parent])
      BY DEF ForgeInv
<1>2. ASSUME NEW p \in DOMAIN inline
      PROVE  Nested(p) \in DOMAIN peek /\ peek[Nested(p)].total = Len(inline[p])
  <2>1. Nested(p) \in DOMAIN peek
      BY <1>1 DEF ToldOf
  <2>2. peek[Nested(p)] = PageOf(inline[p], <<>>, 0)
      BY <2>1, TargetKinds DEF StillPeek
  <2> QED BY <2>1, <2>2 DEF PageOf
<1>3. \A i \in DOMAIN lists[Parent] : lists[Parent][i].id \in DOMAIN inline
      BY <1>1 DEF Ids
<1>4. [i \in DOMAIN lists[Parent] |-> peek[Nested(lists[Parent][i].id)].total] =
      [i \in DOMAIN lists[Parent] |-> Len(inline[lists[Parent][i].id])]
      BY <1>2, <1>3
<1>5. InlineTotal(lists[Parent]) = CommentTotal
      BY <1>4, Zenon DEF InlineTotal, CommentTotal
<1> QED BY <1>1, <1>2, <1>5

\* Go on to read an unchanged target after one that was accepted.
LEMMA AcceptRead ==
    ASSUME IInv, StillInv, pc \in Reading \ {"recheck"}, ~scan.more,
           UNCHANGED <<provider, forge, first, peek, left>>,
           DOMAIN taken' = DOMAIN taken \cup {Head(todo)}, TakenInv(taken', peek), StillTaken(taken'),
           pc' \in {"history", "inline", "checks"}, StillTodo(pc', todo', taken'),
           1 \in DOMAIN todo', scan' = Opened(Head(todo'), peek),
           Head(todo') \in Comments => Top(Parent) \in DOMAIN taken',
           pc' # "history" => CommentTotal <= InlineLimit
    PROVE  StillInv'
<1> DEFINE t == Head(todo')
<1>1. pc \in Active /\ pc # "recheck" /\ pc' # "recheck"
      BY DEF Reading, Active
<1>2. /\ ForgeInv /\ MemoryInv /\ first.head \in DOMAIN checks /\ first = pull
      /\ PeekInv(peek) /\ StillPeek(peek)
      BY <1>1, CurrentReading DEF StillInv, MemoryInv
<1>3. t = todo'[1] /\ t \in Range(todo')
      BY DEF Range
<1>4. /\ Known(t)
      /\ provider = "forgejo" => (t \in Comments => Len(Content(t)) > 0)
      BY <1>3 DEF StillTodo, Known
<1>5. provider = "github" => t \in DOMAIN peek
  <2>1. CASE t \in Comments
    <3>1. ToldOf(peek, lists[Parent])
      <4>1. Top(Parent) \in DOMAIN taken' /\ taken'[Top(Parent)] = lists[Parent]
          BY <2>1, TargetKinds DEF StillTaken
      <4> QED BY <4>1 DEF TakenInv
    <3>2. \A p \in DOMAIN inline : Nested(p) \in DOMAIN peek
        BY <1>2, <3>1, CommentsCounted
    <3> QED BY <2>1, <3>2 DEF Comments
  <2>2. CASE t \notin Comments
      BY <1>2, <1>4, <2>2 DEF PeekInv, Known
  <2> QED BY <2>1, <2>2
<1> HIDE DEF t
<1>6. StillScan(Opened(t, peek), t) /\ Opened(t, peek).pages = 0
      BY <1>2, <1>4, <1>5, StillOpened
<1>7. scan' = Opened(t, peek) /\ StillScan(scan', Head(todo'))
      BY <1>6 DEF t
<1>8. Current = Head(todo)
      BY <1>1 DEF Current
<1>9. Sent' = Sent /\ Pulls' = Pulls
  <2>1. /\ Sent' = {r \in PageRequests : \/ r[1] \in DOMAIN taken'
                                         \/ r[1] = Current' /\ r[2] < Turn(scan')}
        /\ Pulls' = 1
      BY <1>1, SentNext
  <2>2. \A r \in PageRequests : ~(r[2] < Turn(scan'))
      BY <1>2, <1>6, <1>7, NoneSent
  <2>3. \A r \in PageRequests : r[1] = Current => r[2] < Turn(scan)
      BY <1>1, AllSent
  <2> QED BY <1>1, <1>8, <2>1, <2>2, <2>3 DEF Sent, Pulls
<1>10. left' \in Nat /\ left' + Pulls' + Cardinality(Sent') = Budget
      BY <1>9 DEF StillInv
<1> QED BY <1>2, <1>7, <1>10, StillKept

LEMMA AcceptLimits ==
    ASSUME IInv, LimitsInv, Accept
    PROVE  LimitsInv'
<1> DEFINE h == Head(todo)
           got == Merge(taken, [t \in {h} |-> scan.got])
           rows == got[Top(Parent)]
           cs == Checks(first.head)
           good == /\ Complete(h)
                   /\ pc = "history" /\ Len(todo) = 1 => InlineTotal(rows) <= InlineLimit
<1>1. /\ pc \in {"history", "inline", "checks"} /\ pc \in Reading \ {"recheck"} /\ pc \in Active
      /\ ~scan.more /\ UNCHANGED <<provider, forge, faults, left, first, peek>>
      /\ \/ /\ good /\ taken' = got
            /\ IF Len(todo) > 1 THEN Read(pc, Tail(todo), peek) ELSE NextPhase(got)
         \/ ~good /\ pc' = "failed"
      BY DEF Accept, Fail, Reading, Active
<1>2. ASSUME changes = 0
      PROVE  \/ pc' \in Active /\ StillInv'
             \/ pc' = "failed" /\ ~Collectable
  <2>1. StillInv /\ OneThread
      BY <1>1, <1>2 DEF LimitsInv
  <2>2. Complete(h) /\ scan.got = Content(h) /\ Len(Content(h)) <= Most
      BY <1>1, <2>1, StillComplete
  <2>3. /\ ForgeInv /\ MemoryInv /\ first.head \in DOMAIN checks /\ first = pull /\ Known(h)
        /\ todo # <<>> /\ 1 \in DOMAIN todo /\ h = todo[1] /\ DOMAIN todo = 1 .. Len(todo)
        /\ Len(todo) \in Nat /\ Current \notin DOMAIN taken /\ PeekInv(peek)
        /\ PhaseInv(pc, todo, taken, peek)
      BY <1>1, <2>1, CurrentReading DEF StillInv, MemoryInv
  <2>4. /\ TakenInv(got, peek)
        /\ DOMAIN got = DOMAIN taken \cup {h}
        /\ \A t \in DOMAIN taken : got[t] = taken[t]
      BY <1>1, <2>2, <2>3, AcceptedTaken
  <2>5. h \notin DOMAIN taken
      BY <1>1, <2>3 DEF Current
  <2>6. got[h] = scan.got
    <3> DEFINE g == [t \in {h} |-> scan.got]
    <3>1. DOMAIN g = {h} /\ g[h] = scan.got
        OBVIOUS
    <3> HIDE DEF g, h
    <3>2. \A t \in DOMAIN g : t \notin DOMAIN taken => Merge(taken, g)[t] = g[t]
        BY Merged, Zenon
    <3> QED BY <2>5, <3>1, <3>2 DEF g
  <2> HIDE DEF got
  <2>7. StillTaken(got)
    <3>1. StillTaken(taken)
        BY <2>1 DEF StillInv
    <3> HIDE DEF h
    <3> QED BY <2>2, <2>4, <2>6, <3>1 DEF StillTaken
  <2>8. /\ StillTodo(pc, todo, taken) /\ StillPeek(peek) /\ provider \in {"github", "forgejo"}
        /\ pc # "history" => CommentTotal <= InlineLimit
      BY <2>1, <2>3 DEF StillInv, ForgeInv
  <2>9. /\ todo \in Seq(PhaseTargets(pc, taken)) /\ Top(Parent) \in Tops
        /\ pc = "history" => h \in Tops
        /\ pc = "inline" => \E p : h = Nested(p)
        /\ pc = "checks" => h = cs
      BY <1>1, <2>3, HeadKind
  <2>10. \A t \in Tops : t \notin Comments /\ t # cs
      BY TargetKinds DEF Tops, Comments
  <2>11. cs \notin Comments
      BY TargetKinds DEF Comments
  <2>12. /\ pc = "inline" => h \in Comments
         /\ pc # "history" => Top(Parent) \in DOMAIN taken
    <3>1. pc = "inline" => h \notin Tops /\ h # cs
        BY <2>9, TargetKinds DEF Tops
    <3> HIDE DEF h
    <3> QED BY <2>3, <2>9, <3>1 DEF PhaseInv, Known, cs
  <2>13. DOMAIN got \subseteq Tops \cup (IF pc = "history" THEN {} ELSE Comments)
                                   \cup (IF pc = "checks" THEN {cs} ELSE {})
    <3>1. DOMAIN taken \subseteq Tops \cup (IF pc = "history" THEN {} ELSE Comments)
        BY <1>1, <2>8 DEF StillTodo
    <3> HIDE DEF h, cs
    <3> QED BY <1>1, <2>4, <2>9, <2>12, <3>1
  <2>14. ASSUME Top(Parent) \in DOMAIN got
         PROVE  /\ rows = lists[Parent] /\ InlineTotal(rows) = CommentTotal
                /\ \A p \in DOMAIN inline : peek[Nested(p)].total = Len(inline[p])
                /\ DOMAIN inline = Ids(rows)
                /\ rows \in Seq(Row) /\ Sorted(rows)
    <3>1. rows = lists[Parent]
        BY <2>7, <2>14, TargetKinds DEF StillTaken
    <3>2. ToldOf(peek, lists[Parent])
        BY <2>4, <2>14, <3>1 DEF TakenInv
    <3>3. Parent \in Range(Lists)
        BY <2>3, ListNames DEF ForgeInv
    <3>4. lists[Parent] \in Seq(Row) /\ Sorted(lists[Parent])
        BY <2>3, <3>3 DEF ForgeInv, Shown
    <3> HIDE DEF rows
    <3> QED BY <2>3, <2>8, <3>1, <3>2, <3>4, CommentsCounted
  <2> HIDE DEF rows
  <2>15. CASE good /\ taken' = got /\ Len(todo) > 1 /\ Read(pc, Tail(todo), peek)
    <3> DEFINE ts == Tail(todo)
    <3>1. pc' = pc /\ todo' = ts /\ scan' = Opened(Head(todo'), peek)
        BY <2>15 DEF Read
    <3>2. /\ DOMAIN ts = 1 .. Len(todo) - 1 /\ 1 \in DOMAIN ts
          /\ \A i \in DOMAIN ts : i + 1 \in DOMAIN todo /\ ts[i] = todo[i + 1]
      <4>1. /\ ts \in Seq(PhaseTargets(pc, taken)) /\ Len(ts) = Len(todo) - 1
            /\ \A i \in 1 .. Len(ts) : ts[i] = todo[i + 1]
          BY <2>3, <2>9, HeadTailProperties, Zenon
      <4>2. DOMAIN ts = 1 .. Len(ts)
          BY <4>1, LenProperties
      <4> HIDE DEF ts
      <4> QED BY <2>3, <2>15, <4>1, <4>2
    <3> HIDE DEF ts
    <3>3. pc # "checks"
      <4> SUFFICES ASSUME pc = "checks" PROVE FALSE
          OBVIOUS
      <4>1. 2 \in DOMAIN todo
          BY <2>3, <2>15
      <4>2. \A i \in DOMAIN todo : todo[i] = cs
        <5>1. todo \in Seq({cs})
            BY <2>9 DEF PhaseTargets
        <5> HIDE DEF cs
        <5> QED BY <5>1, <2>3, ElementOfSeq
      <4>3. todo[1] = todo[2]
          BY <2>3, <4>1, <4>2
      <4> QED BY <2>3, <2>8, <4>1, <4>3 DEF StillTodo
    <3>4. StillTodo(pc, ts, got)
      <4>1. \A i, j \in DOMAIN ts : ts[i] = ts[j] => i = j
        <5> SUFFICES ASSUME NEW i \in DOMAIN ts, NEW j \in DOMAIN ts, ts[i] = ts[j] PROVE i = j
            OBVIOUS
        <5>1. i + 1 = j + 1
            BY <2>8, <3>2 DEF StillTodo
        <5> QED BY <2>3, <3>2, <5>1
      <4>2. \A i \in DOMAIN ts : ts[i] \notin DOMAIN got
        <5> SUFFICES ASSUME NEW i \in DOMAIN ts PROVE ts[i] \notin DOMAIN got
            OBVIOUS
        <5>1. i + 1 \in DOMAIN todo /\ ts[i] = todo[i + 1] /\ i + 1 # 1
            BY <2>3, <3>2
        <5>2. ts[i] # h /\ ts[i] \notin DOMAIN taken
            BY <1>1, <2>3, <2>8, <5>1 DEF StillTodo
        <5> QED BY <2>4, <5>2
      <4>3. /\ Range(ts) \subseteq Tops \cup Comments \cup {Checks(first.head)}
            /\ provider = "forgejo" => \A i \in DOMAIN ts : ts[i] \in Comments => Len(Content(ts[i])) > 0
          BY <2>8, <3>2 DEF StillTodo, Range
      <4> QED BY <1>1, <2>13, <3>3, <4>1, <4>2, <4>3 DEF StillTodo
    <3>5. pc = "history" => ts[1] \in Tops
      <4>1. pc = "history" => PhaseTargets(pc, taken) = Tops
          BY DEF PhaseTargets
      <4>2. 2 \in DOMAIN todo /\ ts[1] = todo[2]
          BY <2>3, <2>15, <3>2
      <4> QED BY <2>3, <2>9, <4>1, <4>2, ElementOfSeq
    <3>6. Head(todo') \in Comments => Top(Parent) \in DOMAIN taken'
      <4>1. Head(todo') = ts[1]
          BY <3>1
      <4> QED BY <2>4, <2>10, <2>12, <2>15, <3>5, <4>1
    <3>7. StillInv'
        BY <1>1, <2>1, <2>4, <2>7, <2>8, <2>15, <3>1, <3>2, <3>3, <3>4, <3>6, AcceptRead
    <3> QED BY <1>1, <3>1, <3>7
  <2>16. CASE good /\ taken' = got /\ ~(Len(todo) > 1) /\ NextPhase(got)
    <3>1. Len(todo) = 1 /\ Range(todo) = {h}
      <4>1. Len(todo) = 1
          BY <2>3, <2>16
      <4> HIDE DEF h
      <4> QED BY <2>3, <4>1 DEF Range
    <3>2. Tops \subseteq DOMAIN got /\ Top(Parent) \in DOMAIN got
        BY <1>1, <2>3, <2>4, <2>9, <3>1 DEF PhaseInv
    <3>3. CommentTotal <= InlineLimit
        BY <1>1, <2>8, <2>14, <2>16, <3>1, <3>2
    <3> DEFINE ts == InlineTargets(rows)
    <3>4. CASE pc = "history" /\ ts # <<>> /\ Read("inline", ts, peek)
      <4>1. pc' = "inline" /\ todo' = ts /\ scan' = Opened(Head(todo'), peek)
          BY <3>4 DEF Read
      <4>2. ts \in Seq({Nested(p) : p \in Ids(rows)})
          BY <2>8, <2>14, <3>2, InlineTargetsShape
      <4>3. 1 \in DOMAIN ts
        <5> HIDE DEF ts
        <5>1. Len(ts) \in Nat /\ Len(ts) # 0 /\ DOMAIN ts = 1 .. Len(ts)
            BY <3>4, <4>2, LenProperties, EmptySeq
        <5> QED BY <5>1
      <4>4. /\ \A i, j \in DOMAIN ts : ts[i] = ts[j] => i = j
            /\ \A i \in DOMAIN ts : \E k \in Counted(rows) : ts[i] = Nested(rows[k].id)
          BY <2>14, <3>2, InlineTargetsOnce
      <4> HIDE DEF ts
      <4>5. ASSUME NEW i \in DOMAIN ts
            PROVE  ts[i] \in Comments /\ (provider = "forgejo" => Len(Content(ts[i])) > 0)
        <5>1. PICK k \in Counted(rows) : ts[i] = Nested(rows[k].id)
            BY <4>4
        <5>2. k \in DOMAIN rows /\ rows[k].id \in DOMAIN inline
              /\ (provider = "github" \/ peek[Nested(rows[k].id)].total > 0)
            BY <2>14, <3>2 DEF Counted, Ids
        <5> QED BY <2>14, <3>2, <5>1, <5>2, TargetKinds DEF Comments
      <4>6. StillTodo("inline", ts, got)
        <5>1. \A i \in DOMAIN ts : ts[i] \notin DOMAIN got
            BY <2>10, <2>13, <3>4, <4>5
        <5>2. Range(ts) \subseteq Comments
            BY <4>5 DEF Range
        <5>3. DOMAIN got \subseteq Tops
            BY <2>13, <3>4
        <5> QED BY <4>4, <4>5, <5>1, <5>2, <5>3 DEF StillTodo
      <4>7. StillInv'
          BY <1>1, <2>1, <2>4, <2>7, <2>16, <3>2, <3>3, <4>1, <4>3, <4>6, AcceptRead
      <4> QED BY <4>1, <4>7 DEF Active
    <3>5. CASE Read("checks", <<cs>>, peek) /\ pc \in {"history", "inline"}
      <4>1. pc' = "checks" /\ todo' = <<cs>> /\ scan' = Opened(Head(todo'), peek)
          BY <3>5 DEF Read
      <4>2. DOMAIN <<cs>> = {1} /\ <<cs>>[1] = cs /\ Range(<<cs>>) = {cs} /\ Head(<<cs>>) = cs
          BY DEF Range
      <4>3. DOMAIN got \subseteq Tops \cup Comments
          BY <2>13, <3>5
      <4>4. cs \notin DOMAIN got
          BY <2>10, <2>11, <4>3
      <4>5. StillTodo("checks", <<cs>>, got)
        <5>1. cs = Checks(first.head)
            OBVIOUS
        <5> HIDE DEF cs
        <5> QED BY <2>11, <4>2, <4>3, <4>4, <5>1 DEF StillTodo
      <4> HIDE DEF cs
      <4>6. 1 \in DOMAIN todo' /\ Head(todo') \notin Comments
          BY <2>11, <4>1, <4>2
      <4>7. StillInv'
          BY <1>1, <2>1, <2>4, <2>7, <2>16, <3>3, <4>1, <4>5, <4>6, AcceptRead
      <4> QED BY <4>1, <4>7 DEF Active
    <3>6. CASE pc = "checks" /\ pc' = "fresh" /\ UNCHANGED <<todo, scan>>
      <4>1. StillTodo("fresh", todo, got)
        <5>1. DOMAIN got \subseteq Tops \cup Comments \cup {Checks(first.head)}
            BY <2>13, <3>6
        <5> QED BY <2>8, <5>1 DEF StillTodo
      <4>2. Sent' = Sent /\ Pulls' = Pulls
        <5>1. /\ Sent' = {r \in PageRequests : \/ r[1] \in DOMAIN got
                                               \/ r[1] = Current' /\ r[2] < Turn(scan)}
              /\ Pulls' = 1 /\ Pulls = 1 /\ Current' = Current /\ Current = h
            BY <1>1, <2>16, <3>6, SentNext DEF Current, Pulls
        <5>2. \A r \in PageRequests : r[1] = Current => r[2] < Turn(scan)
            BY <1>1, <2>1, AllSent
        <5> HIDE DEF h
        <5> QED BY <2>4, <5>1, <5>2 DEF Sent
      <4>3. left' \in Nat /\ left' + Pulls' + Cardinality(Sent') = Budget
          BY <1>1, <2>1, <4>2 DEF StillInv
      <4>4. StillScan(scan', Head(todo'))
          BY <2>1, <3>6 DEF StillInv
      <4>5. StillInv'
          BY <1>1, <2>3, <2>7, <2>8, <2>16, <3>3, <3>6, <4>1, <4>3, <4>4, StillKept
      <4> QED BY <3>6, <4>5 DEF Active
    <3>7. \/ pc = "history" /\ ts # <<>> /\ Read("inline", ts, peek)
          \/ Read("checks", <<cs>>, peek) /\ pc \in {"history", "inline"}
          \/ pc = "checks" /\ pc' = "fresh" /\ UNCHANGED <<todo, scan>>
        BY <2>16 DEF NextPhase, rows
    <3> QED BY <3>4, <3>5, <3>6, <3>7
  <2>17. CASE ~good /\ pc' = "failed"
    <3>1. pc = "history" /\ Len(todo) = 1 /\ ~(InlineTotal(rows) <= InlineLimit)
        BY <2>2, <2>17
    <3>2. Top(Parent) \in DOMAIN got
      <4>1. Range(todo) = {h}
        <5> HIDE DEF h
        <5> QED BY <2>3, <3>1 DEF Range
      <4> QED BY <2>3, <2>4, <2>9, <3>1, <4>1 DEF PhaseInv
    <3>3. ~(CommentTotal <= InlineLimit)
        BY <2>14, <3>1, <3>2
    <3> QED BY <2>17, <3>3 DEF Collectable, CommentTotal
  <2> QED BY <1>1, <2>15, <2>16, <2>17
<1>3. faults' \in Nat
      BY <1>1 DEF LimitsInv
<1>4. pc' \in Active \/ pc' = "failed"
  <2>1. pc \in Active /\ {"inline", "checks", "fresh"} \subseteq Active
      BY <1>1 DEF Active
  <2> QED BY <1>1, <2>1 DEF Read, NextPhase
<1> QED BY <1>1, <1>2, <1>3, <1>4, LimitsKept DEF Active

-----------------------------------------------------------------------------
(* What is outside, the start, and every step.                             *)

\* The second of an update is no matter here.
LEMMA LimitsUntouched ==
    ASSUME LimitsInv,
           UNCHANGED <<provider, pull, lists, inline, checks, changes, faults, pc, memory>>
    PROVE  LimitsInv'
<1> USE DEF memory
<1>1. /\ Parent' = Parent /\ Lists' = Lists
      /\ \A t : Content(t)' = Content(t) /\ (Exists(t)' <=> Exists(t))
      /\ \A s, got, number : PageOf(s, got, number)' = PageOf(s, got, number)
      BY DEF Parent, Lists, Content, Exists, PageOf
<1>2. /\ \A t, k : Asked(t, k)' <=> Asked(t, k)
      /\ Tops' = Tops /\ Readings' = Readings /\ Most' = Most /\ Comments' = Comments
      /\ OneThread' <=> OneThread
      BY <1>1 DEF Asked, Tops, Readings, Most, Comments, OneThread
<1>3. PageRequests' = PageRequests
      BY <1>2 DEF PageRequests
<1>4. CommentTotal' = CommentTotal
      BY <1>1 DEF CommentTotal
<1>5. Collectable' <=> Collectable
  <2>1. CommentTotal = Total([i \in DOMAIN lists[Parent] |-> Len(inline[lists[Parent][i].id])])
      BY DEF CommentTotal
  <2>2. CommentTotal' = Total([i \in DOMAIN lists[Parent] |-> Len(inline[lists[Parent][i].id])])'
      BY DEF CommentTotal
  <2>3. Cost' = Cost
      BY <1>3 DEF Cost
  <2> QED BY <1>1, <1>2, <1>4, <2>1, <2>2, <2>3 DEF Collectable
<1>6. ASSUME StillInv PROVE StillInv'
  <2>1. StillPeek(peek)' <=> StillPeek(peek)
      BY <1>1 DEF StillPeek
  <2>2. StillTaken(taken)' <=> StillTaken(taken)
      BY <1>1, <1>2 DEF StillTaken
  <2>3. Turn(scan)' = Turn(scan)
      BY DEF Turn
  <2>4. StillScan(scan, Head(todo))' <=> StillScan(scan, Head(todo))
    <3>1. Begins(scan, Content(Head(todo)))' <=> Begins(scan, Content(Head(todo)))
        BY <1>1 DEF Begins
    <3> QED BY <1>1, <1>2, <2>3, <3>1 DEF StillScan
  <2>5. StillTodo(pc, todo, taken)' <=> StillTodo(pc, todo, taken)
      BY <1>1, <1>2 DEF StillTodo
  <2>6. Current' = Current /\ Pulls' = Pulls
      BY DEF Current, Pulls
  <2>7. Sent' = Sent
      BY <1>3, <2>3, <2>6 DEF Sent
  <2> QED BY <1>4, <1>6, <2>1, <2>2, <2>4, <2>5, <2>6, <2>7 DEF StillInv
<1> QED BY <1>2, <1>5, <1>6 DEF LimitsInv

LEMMA ChangeLimits ==
    ASSUME IInv, LimitsInv, Change
    PROVE  LimitsInv'
<1>1. changes \in Nat /\ changes' = changes + 1 /\ faults' = faults
      BY ChangeFrame DEF Change
<1>2. changes' # 0
      BY <1>1
<1> QED BY <1>1, <1>2 DEF LimitsInv

\* The threads or reviews of the start have comments of their own.
LEMMA OwnComments ==
    ASSUME NEW b \in Nat, NEW p \in Nat, NEW q \in Nat, p < q,
           NEW m \in 0 .. b - 1, NEW n \in 0 .. b - 1
    PROVE  Ids(Rows(m, b * p)) \cap Ids(Rows(n, b * q)) = {}
<1>1. PICK d \in Nat : q = p + 1 + d
  <2>1. q - p - 1 \in Nat /\ q = p + 1 + (q - p - 1)
      OBVIOUS
  <2> QED BY <2>1
<1>2. \A x, y, z \in Nat : x * (y + 1 + z) = x * y + x + x * z /\ x * y \in Nat /\ x * z \in Nat
      OBVIOUS
<1>3. b * q = b * p + b + b * d /\ b * p \in Nat /\ b * d \in Nat
  <2>1. b * (p + 1 + d) = b * p + b + b * d /\ b * p \in Nat /\ b * d \in Nat
      BY <1>2
  <2> QED BY <1>1, <2>1, Zenon
<1>4. /\ Ids(Rows(m, b * p)) = {b * p + i : i \in 1 .. m}
      /\ Ids(Rows(n, b * q)) = {b * q + i : i \in 1 .. n}
      BY DEF Ids, Rows
<1> DEFINE x == b * p
           y == b * q
           z == b * d
<1>5. y = x + b + z /\ x \in Nat /\ z \in Nat
      BY <1>3
<1> HIDE DEF x, y, z
<1>6. \A i \in 1 .. m, j \in 1 .. n : x + i # y + j
      BY <1>5
<1>7. {x + i : i \in 1 .. m} \cap {y + i : i \in 1 .. n} = {}
      BY <1>6
<1> QED BY <1>4, <1>7 DEF x, y

LEMMA InitLimits ==
    ASSUME Init
    PROVE  LimitsInv
<1>1. faults = 0 /\ pc = "start" /\ left = Budget
      BY DEF Init
<1>2. PICK o \in Openings : inline = [p \in 1 .. Len(o.inline) |-> Rows(o.inline[p], Base * p)]
      BY DEF Init
<1>3. /\ Base \in Nat /\ Len(o.inline) \in Nat
      /\ \A p \in 1 .. Len(o.inline) : o.inline[p] \in 0 .. Base - 1
  <2>1. Base \in Nat /\ o.inline \in Seq(0 .. Base - 1)
      BY OpeningAssumption
  <2> QED BY <2>1, ElementOfSeq, LenProperties
<1>4. OneThread
  <2>1. ASSUME NEW p \in DOMAIN inline, NEW q \in DOMAIN inline, p < q
        PROVE  Ids(inline[p]) \cap Ids(inline[q]) = {}
    <3>1. /\ p \in 1 .. Len(o.inline) /\ q \in 1 .. Len(o.inline) /\ p \in Nat /\ q \in Nat
          /\ inline[p] = Rows(o.inline[p], Base * p) /\ inline[q] = Rows(o.inline[q], Base * q)
        BY <1>2, <1>3
    <3>2. Ids(Rows(o.inline[p], Base * p)) \cap Ids(Rows(o.inline[q], Base * q)) = {}
      <4>1. o.inline[p] \in 0 .. Base - 1 /\ o.inline[q] \in 0 .. Base - 1
          BY <1>3, <3>1
      <4> QED BY ONLY <1>3, <2>1, <3>1, <4>1, OwnComments
    <3> QED BY <3>1, <3>2
  <2>2. \A p, q \in DOMAIN inline : p # q => p < q \/ q < p
      BY <1>2, <1>3
  <2>3. \A S, T : S \cap T = T \cap S
      OBVIOUS
  <2> QED BY <2>1, <2>2, <2>3 DEF OneThread
<1> QED BY <1>1, <1>4 DEF LimitsInv, Active

LEMMA LimitsStep ==
    ASSUME IInv, LimitsInv, [Next]_vars
    PROVE  LimitsInv'
<1>1. CASE Start
      BY <1>1, StartLimits
<1>2. CASE NextPage
      BY <1>2, NextPageLimits
<1>3. CASE Accept
      BY <1>3, AcceptLimits
<1>4. CASE ReadAgain
      BY <1>4, ReadAgainLimits
<1>5. CASE Publish
      BY <1>5, PublishLimits
<1>6. CASE Exhausted
      BY <1>6, ExhaustedLimits
<1>7. CASE Refused
      BY <1>7, RefusedLimits
<1>8. CASE ListChanges \/ InlineChanges \/ Push \/ StatusChanges \/ CheckChanges
  <2>1. Change
      BY <1>8 DEF ListChanges, InlineChanges, Push, StatusChanges, CheckChanges
  <2> QED BY <2>1, ChangeLimits
<1>9. CASE Tick
  <2>1. UNCHANGED <<provider, pull, lists, inline, checks, changes, faults, pc, memory>>
      BY <1>9 DEF Tick
  <2> QED BY <2>1, LimitsUntouched
<1>10. CASE UNCHANGED vars
  <2>1. UNCHANGED <<provider, pull, lists, inline, checks, changes, faults, pc, memory>>
      BY <1>10 DEF vars, forge
  <2> QED BY <2>1, LimitsUntouched
<1> QED BY <1>1, <1>2, <1>3, <1>4, <1>5, <1>6, <1>7, <1>8, <1>9, <1>10 DEF Next, Collect, Outside

\* github() and forgejo() publish a pull request that stays as it is if and only if its lists
\* have at most the pages, its threads or reviews at most INLINE_LIMIT comments and the
\* requests it takes are at most REQUEST_LIMIT, whatever these limits are: none is off by one,
\* no request is sent twice or for nothing, and no check of a page, of a count or of the
\* second reading turns an unchanged pull request away.
THEOREM CollectedWithinLimits == Spec => []CollectedIffWithinLimits
<1>1. Init => IInv /\ LimitsInv
      BY InitIInv, InitLimits
<1>2. IInv /\ LimitsInv /\ [Next]_vars => IInv' /\ LimitsInv'
      BY NextStep, LimitsStep
<1>3. LimitsInv => CollectedIffWithinLimits
      BY DEF LimitsInv, CollectedIffWithinLimits
<1> QED BY <1>1, <1>2, <1>3, PTL DEF Spec

=============================================================================
