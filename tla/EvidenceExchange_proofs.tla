----------------------- MODULE EvidenceExchange_proofs -----------------------
(***************************************************************************)
(* Proofs about EvidenceExchange, for any tree of paths, contents, bounds  *)
(* and number of faults.                                                   *)
(*                                                                         *)
(* The argument has four parts.  Trees stay trees, and a write or a        *)
(* retirement that the receiver allows leaves every other file alone.  The *)
(* pending batch fits the checkpoint it was made from, in memory and on    *)
(* disk, and a batch the sender has not saved yet is nowhere else.  The    *)
(* exchange being applied has decided whatever it has no longer to do, so  *)
(* its answer is complete.  And an entry that is kept (no crash can make   *)
(* it anything but what the sender believes) stays kept under every step   *)
(* that does not change it.                                                *)
(***************************************************************************)
EXTENDS EvidenceExchange, FiniteSetTheorems, TLAPS

SourceValues == Contents \cup {Missing, Dir, Special}

Types ==
  /\ source \in [Paths -> SourceValues] /\ WellFormed(source)
  /\ mirror \in [Paths -> Values] /\ WellFormed(mirror)
  /\ may \in [Paths -> SUBSET Values] /\ \A p \in Paths : mirror[p] \in may[p]
  /\ loose \subseteq Paths /\ touched \subseteq Paths
  /\ edits \in Nat /\ touches \in Nat /\ faults \in Nat

\* A checkpoint knows paths of which none lies in another.
Retains(c) ==
  /\ DOMAIN c = {"known", "cursor", "pending"}
  /\ DOMAIN c.known \subseteq Paths /\ c.known \in [DOMAIN c.known -> Contents]
  /\ Cardinality(DOMAIN c.known) <= Capacity
  /\ c.cursor \subseteq Paths
  /\ \A p \in DOMAIN c.known : Above[p] \cap DOMAIN c.known = {}

Sound(b) == b \in Batches /\ Valid(b)
Apart(S, c) == \A p \in S : (Above[p] \cup Below(p)) \cap DOMAIN c.known = {}
Expected(c, p) == IF p \in DOMAIN c.known THEN c.known[p] ELSE Missing

\* Batch b says of the receiver's copy what checkpoint c says, and the
\* identities it adds have places there.
Matches(b, c) ==
  /\ Sound(b)
  /\ \A p \in DOMAIN b.files : b.files[p].expected = Expected(c, p)
  /\ \A p \in DOMAIN b.verify : p \in DOMAIN c.known /\ b.verify[p] = c.known[p]
  /\ \A p \in DOMAIN b.delete : p \in DOMAIN c.known /\ b.delete[p] = c.known[p]
  /\ Apart(Written(b), c)
  /\ Cardinality(DOMAIN c.known \cup DOMAIN b.files) <= Capacity
Fits(c) == c.pending # None => Matches(c.pending, c)

\* What a collection has seen would fit as a batch.
Walked(w, c) ==
  /\ DOMAIN w.files \subseteq Paths
  /\ w.files \in [DOMAIN w.files -> [sha : Contents, expected : Contents \cup {Missing}]]
  /\ \A p \in DOMAIN w.files : w.files[p].expected = Expected(c, p)
  /\ w.verify \subseteq DOMAIN c.known
  /\ Apart(DOMAIN w.files \cup w.verify, c)
  /\ Cardinality(DOMAIN c.known \cup DOMAIN w.files) <= Capacity
Collecting == walk # None => mem = disk /\ mem.pending = None /\ Walked(walk, mem)

\* Every copy of a batch that is on its way, answered or being applied.
Flying ==
  requests \cup {r.batch : r \in replies} \cup (IF job = None THEN {} ELSE {job.batch})

\* A checkpoint differs from the one on disk after a collection, when its
\* batch is not in flight yet, and after a receipt was adopted.
Unsaved ==
  /\ disk.pending = None /\ mem.pending # None
  /\ mem.known = disk.known /\ mem.pending \notin Flying
Adopted == disk.pending # None /\ mem.pending = None
Saved == mem = disk \/ Unsaved \/ Adopted

SenderInv ==
  /\ Retains(mem) /\ Retains(disk) /\ Fits(mem) /\ Fits(disk) /\ Collecting /\ Saved
\* What x (the exchange being applied, or a receipt) has decided of batch b
\* when todo is left.
Decided(b, todo, x) ==
  LET failed == b.prune \cap x.conflicts
  IN  /\ todo \subseteq Agenda(b)
      /\ x.accepted \subseteq Written(b) \ todo
      /\ x.removed \subseteq DOMAIN b.delete \ todo
      /\ x.pruned \subseteq b.prune \ todo
      /\ x.conflicts \subseteq Agenda(b) \ todo
      /\ x.conflicts \cap (x.accepted \cup x.removed \cup x.pruned) = {}
      /\ Written(b) \ todo \subseteq x.accepted \cup x.conflicts
      /\ b.prune \ todo \subseteq x.pruned \cup x.conflicts
      /\ DOMAIN b.verify \cap todo = {} \/ todo = Agenda(b)
      /\ b.prune \subseteq todo \/ DOMAIN b.delete \cap todo = {}
      /\ \A p \in DOMAIN b.delete \ (todo \cup x.removed \cup x.conflicts) :
           Above[p] \cap failed # {}
      /\ \A p \in DOMAIN b.delete : /\ Above[p] \cap x.pruned # {} => p \in x.removed
                                    /\ Above[p] \cap failed # {} => p \notin x.removed

JobFields ==
  {"batch", "todo", "blocked", "accepted", "removed", "pruned", "conflicts"}
JobInv ==
  job # None => DOMAIN job = JobFields /\ Sound(job.batch) /\ Decided(job.batch, job.todo, job)
MessageInv ==
  /\ \A b \in requests : Sound(b)
  /\ \A r \in replies : Sound(r.batch) /\ Complete(r.batch, r)

\* By m, no crash can make p anything but one of V.
Kept(m, p, V) == m[p] \subseteq V /\ \A q \in Above[p] : m[q] = {Dir}
Claim(c) == \A p \in DOMAIN c.known \ loose : Kept(may, p, {c.known[p]} \cup Superseded(p))
Holds(x) ==
  disk.pending # None /\ x.batch = disk.pending =>
    \A p \in x.accepted \ loose : Kept(may, p, {Identity(x.batch, p)})
Settled ==
  Adopted =>
    \A p \in (DOMAIN mem.known \ loose) \cap DOMAIN disk.pending.files :
      mem.known[p] = disk.pending.files[p].sha
DurableInv ==
  /\ Claim(mem) /\ Claim(disk) /\ Settled
  /\ \A r \in replies : Holds(r)
  /\ job # None => Holds(job)

IInv == Types /\ SenderInv /\ JobInv /\ MessageInv /\ DurableInv

-----------------------------------------------------------------------------
(* Paths.                                                                   *)
\* Every path has one position in the listing.
LEMMA Positions ==
  \A p \in Paths : /\ Position(p) \in DOMAIN Listing /\ Position(p) \in Nat
                   /\ Listing[Position(p)] = p
<1>1. SUFFICES ASSUME NEW p \in Paths PROVE Position(p) \in DOMAIN Listing /\ Position(p) \in Nat
                                           /\ Listing[Position(p)] = p
  OBVIOUS
<1>2. PICK i \in DOMAIN Listing : Listing[i] = p
  BY DEF Paths, Range
<1>3. Position(p) \in DOMAIN Listing /\ Listing[Position(p)] = p
  BY <1>2 DEF Position
<1>4. DOMAIN Listing \subseteq Nat
  BY PathAssumption
<1> QED BY <1>3, <1>4

\* A path lies in directories that come before it and lie in one another.
LEMMA PathFacts ==
  \A p \in Paths :
    /\ Above[p] \subseteq Paths /\ p \notin Above[p]
    /\ \A q \in Above[p] : /\ Above[q] \subseteq Above[p] /\ q # p /\ p \notin Above[q]
                           /\ Position(q) < Position(p)
                           /\ \A r \in Above[p] : q = r \/ q \in Above[r] \/ r \in Above[q]
<1>1. SUFFICES ASSUME NEW p \in Paths
               PROVE  /\ Above[p] \subseteq Paths /\ p \notin Above[p]
                      /\ \A q \in Above[p] :
                           /\ Above[q] \subseteq Above[p] /\ q # p /\ p \notin Above[q]
                           /\ Position(q) < Position(p)
                           /\ \A r \in Above[p] : q = r \/ q \in Above[r] \/ r \in Above[q]
  OBVIOUS
<1>2. Above[p] \subseteq Paths
  BY PathAssumption
<1>3. \A q \in Above[p] : Above[q] \subseteq Above[p] /\ Position(q) < Position(p)
                         /\ \A r \in Above[p] : q = r \/ q \in Above[r] \/ r \in Above[q]
  BY PathAssumption
<1>4. p \notin Above[p]
  <2>1. Position(p) \in Nat
    BY Positions
  <2> QED BY <1>3, <2>1
<1> QED BY <1>2, <1>3, <1>4

LEMMA FinitePaths == IsFiniteSet(Paths)
<1>1. PICK n \in Nat : DOMAIN Listing = 1 .. n
  BY PathAssumption
<1>2. Listing \in Surjection(1 .. n, Paths)
  <2>1. Listing \in [1 .. n -> Paths]
    BY <1>1, PathAssumption
  <2>2. \A p \in Paths : \E i \in 1 .. n : Listing[i] = p
    BY <1>1 DEF Paths, Range
  <2> QED BY <2>1, <2>2 DEF Surjection
<1>3. IsFiniteSet(1 .. n)
  BY FS_Interval
<1> QED BY <1>2, <1>3, FS_Surjection, Zenon

\* The first n of a set of paths are at most n: each has fewer than n before
\* it, and no two have equally many.
LEMMA FirstBounded ==
  ASSUME NEW S \in SUBSET Paths, NEW n \in Nat
  PROVE  First(n, S) \subseteq S /\ Cardinality(First(n, S)) <= n
<1> DEFINE rank(p) == Cardinality(Before(p, S))
           f == [p \in First(n, S) |-> rank(p)]
<1>1. \A p \in S : IsFiniteSet(Before(p, S)) /\ rank(p) \in Nat
  <2>1. SUFFICES ASSUME NEW p \in S PROVE IsFiniteSet(Before(p, S)) /\ rank(p) \in Nat
    OBVIOUS
  <2>2. Before(p, S) \in SUBSET Paths
    BY DEF Before
  <2>3. IsFiniteSet(Before(p, S))
    BY <2>2, FinitePaths, FS_Subset, Zenon
  <2> QED BY <2>3, FS_CardinalityType, Zenon
<1>2. \A p, q \in S : Position(q) < Position(p) => rank(q) < rank(p)
  <2>1. SUFFICES ASSUME NEW p \in S, NEW q \in S, Position(q) < Position(p)
                 PROVE  rank(q) < rank(p)
    OBVIOUS
  <2>2. \A r \in S : Position(r) \in Nat
    BY Positions
  <2>3. Before(q, S) \in SUBSET Before(p, S) /\ q \in Before(p, S) /\ q \notin Before(q, S)
    BY <2>1, <2>2 DEF Before
  <2>4. /\ rank(q) <= rank(p)
        /\ rank(p) = rank(q) => Before(p, S) = Before(q, S)
    BY <1>1, <2>3, FS_Subset, Zenon
  <2>5. rank(q) # rank(p)
    BY <2>3, <2>4, Zenon
  <2> HIDE DEF rank
  <2> QED BY <1>1, <2>4, <2>5
<1>3. First(n, S) \subseteq S /\ \A p \in First(n, S) : rank(p) < n
  BY DEF First
<1>4. f \in Injection(First(n, S), 0 .. n - 1)
  <2>1. f \in [First(n, S) -> 0 .. n - 1]
    <3> HIDE DEF rank
    <3> QED BY <1>1, <1>3
  <2>2. ASSUME NEW p \in First(n, S), NEW q \in First(n, S), f[p] = f[q] PROVE p = q
    <3>1. rank(p) = rank(q) /\ rank(p) \in Nat /\ rank(q) \in Nat
      BY <2>2, <1>1, <1>3
    <3>2. p \in S /\ q \in S /\ p \in Paths /\ q \in Paths
      BY <1>3
    <3>3. ~(Position(p) < Position(q)) /\ ~(Position(q) < Position(p))
      <4> HIDE DEF rank
      <4> QED BY <1>2, <3>1, <3>2
    <3>4. Position(p) = Position(q)
      BY <3>2, <3>3, Positions
    <3> QED BY <3>2, <3>4, Positions
  <2>3. DOMAIN f = First(n, S)
    OBVIOUS
  <2> HIDE DEF f
  <2> QED BY <2>1, <2>2, <2>3 DEF Injection, IsInjective
<1>5. IsFiniteSet(0 .. n - 1) /\ Cardinality(0 .. n - 1) = n
  <2>1. 0 \in Int /\ n - 1 \in Int
    OBVIOUS
  <2>2. /\ IsFiniteSet(0 .. n - 1)
        /\ Cardinality(0 .. n - 1) = IF 0 > n - 1 THEN 0 ELSE n - 1 - 0 + 1
    BY <2>1, FS_Interval, Zenon
  <2> QED BY <2>2
<1>6. Cardinality(First(n, S)) <= Cardinality(0 .. n - 1)
  <2> HIDE DEF f
  <2> QED BY <1>4, <1>5, FS_Injection, Zenon
<1> QED BY <1>3, <1>5, <1>6, Zenon

-----------------------------------------------------------------------------
(* Trees.                                                                   *)
\* What is reachable is a tree.
LEMMA ReachableTree ==
  ASSUME NEW V, Missing \in V, NEW t \in [Paths -> V]
  PROVE  Reachable(t) \in [Paths -> V] /\ WellFormed(Reachable(t))
<1>1. Reachable(t) \in [Paths -> V]
  BY DEF Reachable
<1>2. SUFFICES ASSUME NEW p \in Paths, Reachable(t)[p] # Missing, NEW q \in Above[p]
               PROVE  Reachable(t)[q] = Dir
  BY <1>1 DEF WellFormed
<1>3. \A g \in Above[p] : t[g] = Dir
  BY <1>2 DEF Reachable
<1>4. q \in Paths /\ Above[q] \subseteq Above[p]
  BY PathFacts
<1> QED BY <1>3, <1>4 DEF Reachable

LEMMA PutTree ==
  ASSUME NEW V, Missing \in V, Dir \in V, NEW t \in [Paths -> V], NEW p \in Paths, NEW v \in V
  PROVE  Put(t, p, v) \in [Paths -> V] /\ WellFormed(Put(t, p, v))
<1> DEFINE u == [q \in Paths |-> IF q = p THEN v
                                 ELSE IF q \in Above[p] /\ v # Missing THEN Dir ELSE t[q]]
<1>1. u \in [Paths -> V]
  OBVIOUS
<1>2. Put(t, p, v) = Reachable(u)
  BY DEF Put
<1> HIDE DEF u
<1> QED BY <1>1, <1>2, ReachableTree, Zenon

\* Where p is no directory and lies in none that is a file, writing it changes
\* p, and besides only what was missing.
LEMMA PutKeeps ==
  ASSUME NEW t, WellFormed(t), NEW p \in Paths, NEW v, t[p] # Dir, ~Blocked(t, p)
  PROVE  /\ Put(t, p, v)[p] = v
         /\ \A q \in Paths : q # p /\ t[q] # Missing => Put(t, p, v)[q] = t[q]
<1> DEFINE u == [q \in Paths |-> IF q = p THEN v
                                 ELSE IF q \in Above[p] /\ v # Missing THEN Dir ELSE t[q]]
<1>1. Put(t, p, v) = Reachable(u)
  BY DEF Put
<1>2. Put(t, p, v)[p] = v
  <2>1. CASE v = Missing
    BY <1>1, <2>1 DEF Reachable
  <2>2. CASE v # Missing
    <3>1. \A q \in Above[p] : q \in Paths /\ q # p
      BY PathFacts
    <3>2. \A q \in Above[p] : u[q] = Dir
      BY <2>2, <3>1
    <3> QED BY <1>1, <3>2 DEF Reachable
  <2> QED BY <2>1, <2>2
<1>3. ASSUME NEW q \in Paths, q # p, t[q] # Missing PROVE Put(t, p, v)[q] = t[q]
  <2>1. \A g \in Above[q] : t[g] = Dir /\ g \in Paths /\ g # p
    BY <1>3, PathFacts DEF WellFormed
  <2>2. \A g \in Above[q] : u[g] = Dir
    BY <2>1
  <2>3. u[q] = t[q]
    <3>1. CASE q \in Above[p] /\ v # Missing
      BY <1>3, <3>1 DEF Blocked
    <3>2. CASE ~(q \in Above[p] /\ v # Missing)
      BY <1>3, <3>2
    <3> QED BY <3>1, <3>2
  <2> QED BY <1>1, <2>2, <2>3 DEF Reachable
<1> QED BY <1>2, <1>3

\* The receiver sees a regular file or nothing only where its directories are
\* there or missing.
LEMMA LookMeans ==
  ASSUME Types, NEW p \in Paths, Look(p) # Special
  PROVE  /\ ~Blocked(mirror, p) /\ Look(p) = mirror[p] /\ mirror[p] # Dir
         /\ IsFile(mirror, p) \/ mirror[p] = Missing
<1>1. ~Blocked(mirror, p) /\ (IsFile(mirror, p) \/ mirror[p] = Missing)
  BY DEF Look
<1> QED BY <1>1, ContentAssumption DEF Look, IsFile

\* Retiring what Cleared names, the innermost first, leaves a tree: a directory
\* goes only with all that was below it, and nothing but directories goes.
Innermost(S, r) ==
  S \subseteq Cleared(r) /\ \A g \in S, h \in Cleared(r) : Position(h) >= Position(g) => h \in S

LEMMA ClearedDirs ==
  ASSUME NEW r
  PROVE  \A g \in Cleared(r) : g \in Paths /\ mirror[g] \in {Dir, Missing}
<1>1. SUFFICES ASSUME NEW g \in Emptied(r) PROVE g \in Paths /\ mirror[g] \in {Dir, Missing}
  BY DEF Cleared
<1>2. g \in Containers(r) /\ g \in Paths
  BY DEF Emptied, Containers
<1>3. Position(g) >= Position(g)
  BY <1>2, Positions
<1>4. Removable(g, r)
  BY <1>2, <1>3 DEF Emptied
<1> QED BY <1>2, <1>4 DEF Removable

LEMMA WithoutTree ==
  ASSUME Types, NEW r, NEW S, Innermost(S, r)
  PROVE  /\ Without(S) \in [Paths -> Values] /\ WellFormed(Without(S))
         /\ \A p \in Paths : mirror[p] \notin {Dir, Missing} => Without(S)[p] = mirror[p]
<1> DEFINE t == Without(S)
<1>1. t \in [Paths -> Values] /\ \A p \in Paths : t[p] = IF p \in S THEN Missing ELSE mirror[p]
  BY DEF Types, Values, Without
<1>2. ASSUME NEW p \in Paths, t[p] # Missing, NEW q \in Above[p] PROVE t[q] = Dir
  <2>1. p \notin S /\ mirror[p] # Missing
    BY <1>1, <1>2
  <2>2. q \in Paths /\ mirror[q] = Dir /\ p \in Below(q) /\ Position(q) < Position(p)
    BY <2>1, PathFacts DEF Types, WellFormed, Below
  <2>3. ASSUME q \in S PROVE FALSE
    <3>1. q \in Emptied(r) /\ Cleared(r) = Emptied(r)
      BY <2>3 DEF Cleared, Innermost
    <3>2. q \in Containers(r) /\ \A h \in Containers(r) : Position(h) >= Position(q) => Removable(h, r)
      BY <3>1 DEF Emptied
    <3>3. Removable(q, r)
      BY <2>2, <3>2, Positions
    <3>4. p \in Containers(r)
      BY <2>1, <2>2, <3>3 DEF Removable
    <3>5. \A h \in Containers(r) : h \in Paths
      BY DEF Containers
    <3>6. \A h \in Containers(r) : Position(h) >= Position(p) => Position(h) >= Position(q)
      BY <2>2, <3>5, Positions
    <3>7. p \in Cleared(r)
      BY <3>1, <3>2, <3>4, <3>6 DEF Emptied
    <3>8. Position(p) >= Position(q)
      BY <2>2, Positions
    <3> QED BY <2>1, <2>3, <3>7, <3>8 DEF Innermost
  <2> QED BY <1>1, <2>2, <2>3
<1>3. \A p \in Paths : mirror[p] \notin {Dir, Missing} => t[p] = mirror[p]
  BY <1>1, ClearedDirs DEF Innermost
<1> QED BY <1>1, <1>2, <1>3 DEF WellFormed

-----------------------------------------------------------------------------
(* Batches, and what the receiver does with them.                           *)
LEMMA BatchParts ==
  ASSUME NEW b \in Batches
  PROVE  /\ DOMAIN b = {"id", "files", "verify", "delete", "prune"} /\ b.id \in Nonces
         /\ DOMAIN b.files \subseteq Paths /\ DOMAIN b.verify \subseteq Paths
         /\ DOMAIN b.delete \subseteq Paths /\ b.prune \subseteq Paths
         /\ \A p \in DOMAIN b.files : /\ b.files[p].sha \in Contents
                                      /\ b.files[p].expected \in Contents \cup {Missing}
         /\ \A p \in DOMAIN b.verify : b.verify[p] \in Contents
         /\ \A p \in DOMAIN b.delete : b.delete[p] \in Contents
<1>1. /\ DOMAIN b = {"id", "files", "verify", "delete", "prune"} /\ b.id \in Nonces
      /\ b.prune \subseteq Paths
  BY DEF Batches
<1>2. PICK S \in SUBSET Paths : b.files \in [S -> [sha : Contents, expected : Contents \cup {Missing}]]
  BY DEF Batches
<1>3. PICK V \in SUBSET Paths : b.verify \in [V -> Contents]
  BY DEF Batches
<1>4. PICK D \in SUBSET Paths : b.delete \in [D -> Contents]
  BY DEF Batches
<1>5. /\ DOMAIN b.files \subseteq Paths
      /\ \A p \in DOMAIN b.files : /\ b.files[p].sha \in Contents
                                   /\ b.files[p].expected \in Contents \cup {Missing}
  BY <1>2
<1> QED BY <1>1, <1>3, <1>4, <1>5

\* The turn of a path comes when it is named in its role and left to do.
LEMMA Turns ==
  ASSUME NEW p
  PROVE  /\ FileTurn(p) => /\ job # None /\ p \in DOMAIN job.batch.files \cap job.todo
                           /\ DOMAIN job.batch.verify \cap job.todo = {}
         /\ DeleteTurn(p) => /\ job # None /\ p \in DOMAIN job.batch.delete \cap job.todo
                             /\ Written(job.batch) \cap job.todo = {}
         /\ PruneTurn(p) => /\ job # None /\ p \in job.batch.prune \cap job.todo
                            /\ Named(job.batch) \cap job.todo = {}
BY DEF FileTurn, DeleteTurn, PruneTurn, Turn

\* A tree the receiver may leave: nothing changes to or from a regular file
\* or a special one but at p.
Leaves(t, p) ==
  /\ t \in [Paths -> Values] /\ WellFormed(t)
  /\ \A q \in Paths : q # p /\ mirror[q] \notin {Dir, Missing} => t[q] = mirror[q]

\* Writing an item whose copy fits.
LEMMA Replacing ==
  ASSUME Types, Sound(job.batch), NEW p \in DOMAIN job.batch.files, FileFits(p)
  PROVE  /\ Leaves(Replaced(p), p) /\ p \in Paths /\ ~Blocked(mirror, p)
         /\ Replaced(p)[p] = job.batch.files[p].sha
         /\ mirror[p] \in {job.batch.files[p].sha, job.batch.files[p].expected}
<1> DEFINE v == job.batch.files[p].sha
<1>1. p \in Paths /\ v \in Contents /\ job.batch.files[p].expected \in Contents \cup {Missing}
  BY BatchParts DEF Sound
<1>2. Look(p) \in {v, job.batch.files[p].expected} /\ Look(p) # Special
  BY <1>1, ContentAssumption DEF FileFits
<1>3. ~Blocked(mirror, p) /\ Look(p) = mirror[p] /\ mirror[p] # Dir
  BY <1>1, <1>2, LookMeans
<1>4. Replaced(p) \in [Paths -> Values] /\ WellFormed(Replaced(p))
  <2>1. Missing \in Values /\ Dir \in Values /\ v \in Values /\ mirror \in [Paths -> Values]
    BY <1>1 DEF Values, Types
  <2> HIDE DEF v
  <2>2. Put(mirror, p, v) \in [Paths -> Values] /\ WellFormed(Put(mirror, p, v))
    BY <1>1, <2>1, PutTree, Zenon
  <2> QED BY <2>2 DEF Replaced, v
<1>5. /\ Put(mirror, p, v)[p] = v
      /\ \A q \in Paths : q # p /\ mirror[q] # Missing => Put(mirror, p, v)[q] = mirror[q]
  <2> HIDE DEF v
  <2>1. WellFormed(mirror)
    BY DEF Types
  <2> QED BY <1>1, <1>3, <2>1, PutKeeps
<1> QED BY <1>1, <1>2, <1>3, <1>4, <1>5 DEF Replaced, Leaves

\* Removing an item whose copy fits.
LEMMA Removing ==
  ASSUME Types, Sound(job.batch), NEW p \in DOMAIN job.batch.delete, DeleteFits(p)
  PROVE  /\ Leaves(Put(mirror, p, Missing), p) /\ p \in Paths
         /\ Put(mirror, p, Missing)[p] = Missing
         /\ mirror[p] \in {Missing, job.batch.delete[p]}
<1>1. p \in Paths /\ job.batch.delete[p] \in Contents
  BY BatchParts DEF Sound
<1>2. Look(p) \in {Missing, job.batch.delete[p]} /\ Look(p) # Special
  BY <1>1, ContentAssumption DEF DeleteFits
<1>3. ~Blocked(mirror, p) /\ Look(p) = mirror[p] /\ mirror[p] # Dir
  BY <1>1, <1>2, LookMeans
<1>4. Put(mirror, p, Missing) \in [Paths -> Values] /\ WellFormed(Put(mirror, p, Missing))
  <2>1. Missing \in Values /\ Dir \in Values /\ mirror \in [Paths -> Values]
    BY DEF Values, Types
  <2> QED BY <1>1, <2>1, PutTree, Zenon
<1>5. /\ Put(mirror, p, Missing)[p] = Missing
      /\ \A q \in Paths : q # p /\ mirror[q] # Missing => Put(mirror, p, Missing)[q] = mirror[q]
  <2>1. WellFormed(mirror)
    BY DEF Types
  <2> QED BY <1>1, <1>3, <2>1, PutKeeps
<1> QED BY <1>1, <1>2, <1>3, <1>4, <1>5 DEF Leaves

LEMMA Clearing ==
  ASSUME Types, NEW r
  PROVE  /\ Leaves(Without(Cleared(r)), r)
         /\ \A q \in Paths : mirror[q] \notin {Dir, Missing} => Without(Cleared(r))[q] = mirror[q]
<1>1. Innermost(Cleared(r), r)
  BY DEF Innermost
<1> QED BY <1>1, WithoutTree DEF Leaves

-----------------------------------------------------------------------------
(* What an exchange may change.                                             *)
\* Application: no exchange, late ones included, changes what only another
\* writer can have left at the mirror.
LEMMA ForeignStep ==
  ASSUME Types, JobInv, [Next]_vars, touches' = touches, faults' = faults,
         NEW p \in Paths, mirror[p] \in Local \cup {Special}
  PROVE  mirror'[p] = mirror[p]
<1>1. mirror[p] \notin Contents \cup {Missing, Dir}
  BY ContentAssumption
<1>2. ASSUME NEW q \in Paths, ApplyFile(q) PROVE mirror'[p] = mirror[p]
  <2>1. q \in DOMAIN job.batch.files /\ Sound(job.batch)
    BY <1>2, Turns DEF ApplyFile, JobInv
  <2>2. CASE ~FileFits(q)
    BY <1>2, <2>2 DEF ApplyFile, Conflict
  <2>3. CASE FileFits(q)
    <3>1. mirror' = Replaced(q)
      BY <1>2, <2>3 DEF ApplyFile, Done
    <3>2. Leaves(Replaced(q), q) /\ mirror[q] \in Contents \cup {Missing}
      BY <2>1, <2>3, Replacing, BatchParts DEF Sound
    <3> QED BY <1>1, <3>1, <3>2 DEF Leaves
  <2> QED BY <2>2, <2>3
<1>3. ASSUME NEW q \in Paths, ApplyDelete(q) PROVE mirror'[p] = mirror[p]
  <2>1. q \in DOMAIN job.batch.delete /\ Sound(job.batch)
    BY <1>3, Turns DEF ApplyDelete, JobInv
  <2>2. CASE ~DeleteFits(q)
    BY <1>3, <2>2 DEF ApplyDelete, Conflict
  <2>3. CASE DeleteFits(q)
    <3>1. mirror' = Put(mirror, q, Missing)
      BY <1>3, <2>3 DEF ApplyDelete, Done
    <3>2. Leaves(Put(mirror, q, Missing), q) /\ mirror[q] \in Contents \cup {Missing}
      BY <2>1, <2>3, Removing, BatchParts DEF Sound
    <3> QED BY <1>1, <3>1, <3>2 DEF Leaves
  <2> QED BY <2>2, <2>3
<1>4. ASSUME NEW q \in Paths, ApplyPrune(q) PROVE mirror'[p] = mirror[p]
  <2>1. mirror' = mirror \/ mirror' = Without(Cleared(q))
    BY <1>4 DEF ApplyPrune, Done
  <2> QED BY <1>1, <2>1, Clearing
<1>5. touches' # touches + 1 /\ faults' # faults + 1
  BY DEF Types
<1>6. ASSUME mirror' = mirror PROVE mirror'[p] = mirror[p]
  BY <1>6
<1> QED
  BY <1>2, <1>3, <1>4, <1>5, <1>6
  DEF Next, vars, receiver, Collect, StartCollect, FinishCollect, Save, Send, Retry, Transmit,
      Adopt, Acknowledge, Receive, Begin, Apply, ApplyVerify, Answer, EditSource, Touch,
      SenderCrash, ReceiverCrash, Interrupted, Lose, Fault, sender, network

\* Application: the pending exchange replaces and removes only what the saved
\* checkpoint holds as acknowledged.
LEMMA AckedStep ==
  ASSUME Types, JobInv, Fits(disk), [Next]_vars, job # None, Current, faults' = faults,
         NEW p \in Changed(mirror'), IsFile(mirror, p)
  PROVE  p \in DOMAIN disk.known /\ disk.known[p] = mirror[p]
<1>1. p \in Paths /\ mirror'[p] # mirror[p] /\ mirror[p] \notin {Dir, Missing}
  BY ContentAssumption DEF Changed, IsFile
<1>2. Sound(job.batch) /\ Matches(job.batch, disk)
  BY NoneAssumption DEF JobInv, Current, Fits, Sound
<1>3. ASSUME NEW q \in Paths, ApplyFile(q) PROVE p \in DOMAIN disk.known /\ disk.known[p] = mirror[p]
  <2>1. q \in DOMAIN job.batch.files
    BY <1>3, Turns DEF ApplyFile
  <2>2. CASE ~FileFits(q)
    BY <1>1, <1>3, <2>2 DEF ApplyFile, Conflict
  <2>3. CASE FileFits(q)
    <3>1. mirror' = Replaced(q)
      BY <1>3, <2>3 DEF ApplyFile, Done
    <3>2. /\ Leaves(Replaced(q), q) /\ Replaced(q)[q] = job.batch.files[q].sha
          /\ mirror[q] \in {job.batch.files[q].sha, job.batch.files[q].expected}
      BY <1>2, <2>1, <2>3, Replacing
    <3>3. p = q /\ mirror[p] = job.batch.files[p].expected
      BY <1>1, <3>1, <3>2 DEF Leaves
    <3>4. mirror[p] = Expected(disk, p)
      BY <1>2, <2>1, <3>3 DEF Matches
    <3> QED BY <1>1, <3>4 DEF Expected
  <2> QED BY <2>2, <2>3
<1>4. ASSUME NEW q \in Paths, ApplyDelete(q) PROVE p \in DOMAIN disk.known /\ disk.known[p] = mirror[p]
  <2>1. q \in DOMAIN job.batch.delete
    BY <1>4, Turns DEF ApplyDelete
  <2>2. CASE ~DeleteFits(q)
    BY <1>1, <1>4, <2>2 DEF ApplyDelete, Conflict
  <2>3. CASE DeleteFits(q)
    <3>1. mirror' = Put(mirror, q, Missing)
      BY <1>4, <2>3 DEF ApplyDelete, Done
    <3>2. Leaves(Put(mirror, q, Missing), q) /\ mirror[q] \in {Missing, job.batch.delete[q]}
      BY <1>2, <2>1, <2>3, Removing
    <3>3. p = q /\ mirror[p] = job.batch.delete[p]
      BY <1>1, <3>1, <3>2 DEF Leaves
    <3> QED BY <1>2, <2>1, <3>3 DEF Matches
  <2> QED BY <2>2, <2>3
<1>5. ASSUME NEW q \in Paths, ApplyPrune(q) PROVE FALSE
  <2>1. mirror' = mirror \/ mirror' = Without(Cleared(q))
    BY <1>5 DEF ApplyPrune, Done
  <2> QED BY <1>1, <2>1, Clearing
<1>6. faults' # faults + 1
  BY DEF Types
<1>7. mirror' # mirror
  BY <1>1
<1> QED
  BY <1>3, <1>4, <1>5, <1>6, <1>7
  DEF Next, vars, receiver, Collect, StartCollect, FinishCollect, Save, Send, Retry, Transmit,
      Adopt, Acknowledge, Receive, Begin, Apply, ApplyVerify, Answer, EditSource, Touch,
      SenderCrash, ReceiverCrash, Interrupted, Lose, Fault, sender, network

-----------------------------------------------------------------------------
(* What a crash may leave.                                                  *)
\* When the mirror becomes t, what a crash may leave of a path is what is
\* there now, nothing below what is no directory, or what it might be before.
Spread(m, n, t) ==
  /\ n \in [Paths -> SUBSET Values]
  /\ \A q \in Paths : \/ n[q] = {t[q]}
                      \/ n[q] = {Missing} /\ \E g \in Above[q] : t[g] # Dir
                      \/ n[q] = m[q] \cup {t[q]}

LEMMA UnsyncedSpread ==
  ASSUME NEW m \in [Paths -> SUBSET Values], NEW t \in [Paths -> Values]
  PROVE  Spread(m, Unsynced(m, t), t)
BY DEF Spread, Unsynced

LEMMA SyncedSpread ==
  ASSUME NEW m \in [Paths -> SUBSET Values], NEW t \in [Paths -> Values], NEW S
  PROVE  Spread(m, Synced(Unsynced(m, t), t, S), t)
<1> DEFINE entries == UNION {Entries(p) : p \in S}
           n == Synced(Unsynced(m, t), t, S)
<1>1. n = [q \in Paths |-> IF q \in entries THEN {t[q]}
                           ELSE IF \E g \in Above[q] \cap entries : t[g] # Dir
                           THEN {Missing} ELSE Unsynced(m, t)[q]]
  BY DEF Synced
<1> HIDE DEF entries, n
<1>2. \A q \in Paths : \/ n[q] = {t[q]}
                       \/ n[q] = {Missing} /\ \E g \in Above[q] : t[g] # Dir
                       \/ n[q] = m[q] \cup {t[q]}
  BY <1>1 DEF Unsynced
<1>3. \A q \in Paths : n[q] \in SUBSET Values
  <2>1. Missing \in Values
    BY DEF Values
  <2> QED BY <1>2, <2>1
<1>4. n \in [Paths -> SUBSET Values]
  BY <1>1, <1>3
<1> QED BY <1>2, <1>4 DEF Spread, n

\* Syncing an item makes it and its directories what they are.
LEMMA SyncedItem ==
  ASSUME NEW m, NEW t, NEW S \in SUBSET Paths, NEW p \in S
  PROVE  /\ Synced(m, t, S)[p] = {t[p]}
         /\ \A q \in Above[p] : Synced(m, t, S)[q] = {t[q]}
<1>1. p \in Paths /\ p \in Entries(p)
  BY DEF Entries
<1>2. \A q \in Above[p] : q \in Paths /\ q \in Entries(p)
  BY <1>1, PathFacts DEF Entries
<1> QED BY <1>1, <1>2 DEF Synced

\* Verification syncs a tree that stays as it is.
LEMMA VerifiedSpread ==
  ASSUME Types, NEW S
  PROVE  Spread(may, Synced(may, mirror, S), mirror)
<1> DEFINE entries == UNION {Entries(p) : p \in S}
           n == Synced(may, mirror, S)
<1>1. n = [q \in Paths |-> IF q \in entries THEN {mirror[q]}
                           ELSE IF \E g \in Above[q] \cap entries : mirror[g] # Dir
                           THEN {Missing} ELSE may[q]]
  BY DEF Synced
<1>2. \A q \in Paths : may[q] = may[q] \cup {mirror[q]} /\ may[q] \in SUBSET Values
                       /\ mirror[q] \in Values
  BY DEF Types
<1> HIDE DEF entries, n
<1>3. \A q \in Paths : \/ n[q] = {mirror[q]}
                       \/ n[q] = {Missing} /\ \E g \in Above[q] : mirror[g] # Dir
                       \/ n[q] = may[q] \cup {mirror[q]}
  BY <1>1, <1>2
<1>4. \A q \in Paths : n[q] \in SUBSET Values
  <2>1. Missing \in Values
    BY DEF Values
  <2> QED BY <1>2, <1>3, <2>1
<1>5. n \in [Paths -> SUBSET Values]
  BY <1>1, <1>4
<1> QED BY <1>3, <1>5 DEF Spread, n

\* What is there now may be left by a crash.
LEMMA SpreadHolds ==
  ASSUME NEW m, NEW n, NEW t, WellFormed(t), Spread(m, n, t), NEW p \in Paths
  PROVE  t[p] \in n[p]
<1>1. CASE n[p] = {Missing} /\ \E g \in Above[p] : t[g] # Dir
  BY <1>1 DEF WellFormed
<1>2. CASE n[p] = {t[p]} \/ n[p] = m[p] \cup {t[p]}
  BY <1>2
<1> QED BY <1>1, <1>2 DEF Spread

\* The step of the mirror and of what a crash may leave that every action
\* but a crash takes: to a tree, spreading no further than its changes.
Moves(t) ==
  /\ t \in [Paths -> Values] /\ WellFormed(t)
  /\ mirror' = t /\ Spread(may, may', t)

LEMMA StillMoves == ASSUME Types, UNCHANGED <<mirror, may>> PROVE Moves(mirror)
<1>1. \A q \in Paths : may[q] = may[q] \cup {mirror[q]}
  BY DEF Types
<1> QED BY <1>1 DEF Moves, Types, Spread

LEMMA DoneMoves ==
  ASSUME Types, NEW t, NEW p, NEW ok, Leaves(t, p), Done(p, t, ok)
  PROVE  Moves(t)
BY SyncedSpread DEF Moves, Leaves, Done, Types

LEMMA FileMoves ==
  ASSUME Types, JobInv, NEW p \in Paths, ApplyFile(p)
  PROVE  IF FileFits(p) THEN Moves(Replaced(p)) ELSE Moves(mirror)
<1>1. p \in DOMAIN job.batch.files /\ Sound(job.batch)
  BY Turns DEF ApplyFile, JobInv
<1>2. CASE ~FileFits(p)
  BY <1>2, StillMoves DEF ApplyFile, Conflict
<1>3. CASE FileFits(p)
  <2>1. Leaves(Replaced(p), p)
    BY <1>1, <1>3, Replacing
  <2>2. Done(p, Replaced(p), {p})
    BY <1>3 DEF ApplyFile
  <2> QED BY <1>3, <2>1, <2>2, DoneMoves
<1> QED BY <1>2, <1>3

LEMMA DeleteMoves ==
  ASSUME Types, JobInv, NEW p \in Paths, ApplyDelete(p)
  PROVE  IF DeleteFits(p) THEN Moves(Put(mirror, p, Missing)) ELSE Moves(mirror)
<1>1. p \in DOMAIN job.batch.delete /\ Sound(job.batch)
  BY Turns DEF ApplyDelete, JobInv
<1>2. CASE ~DeleteFits(p)
  BY <1>2, StillMoves DEF ApplyDelete, Conflict
<1>3. CASE DeleteFits(p)
  <2>1. Leaves(Put(mirror, p, Missing), p)
    BY <1>1, <1>3, Removing
  <2>2. Done(p, Put(mirror, p, Missing), {})
    BY <1>3 DEF ApplyDelete
  <2> QED BY <1>3, <2>1, <2>2, DoneMoves
<1> QED BY <1>2, <1>3

LEMMA PruneMoves ==
  ASSUME Types, NEW r \in Paths, ApplyPrune(r)
  PROVE  IF Cleared(r) = {} THEN Moves(mirror) ELSE Moves(Without(Cleared(r)))
<1>1. CASE Cleared(r) = {}
  BY <1>1, StillMoves DEF ApplyPrune
<1>2. CASE Cleared(r) # {}
  <2>1. Leaves(Without(Cleared(r)), r)
    BY Clearing
  <2>2. Done(r, Without(Cleared(r)), {})
    BY <1>2 DEF ApplyPrune
  <2> QED BY <1>2, <2>1, <2>2, DoneMoves
<1> QED BY <1>1, <1>2

\* Whatever an item leaves half-way is a tree.
LEMMA HalfwayTrees ==
  ASSUME Types, JobInv, job # None, NEW t \in Halfway
  PROVE  t \in [Paths -> Values] /\ WellFormed(t)
<1> DEFINE Tree(u) == u \in [Paths -> Values] /\ WellFormed(u)
<1>1. Sound(job.batch) /\ Tree(mirror)
  BY DEF JobInv, Types
<1>2. ASSUME NEW p \in Paths, FileTurn(p), FileFits(p) PROVE Tree(Replaced(p))
  <2>1. p \in DOMAIN job.batch.files
    BY <1>2, Turns
  <2> QED BY <1>1, <1>2, <2>1, Replacing DEF Leaves
<1>3. ASSUME NEW g \in Paths PROVE Tree(Put(mirror, g, Dir))
  <2>1. Missing \in Values /\ Dir \in Values
    BY DEF Values
  <2> QED BY <1>1, <2>1, PutTree
<1>4. ASSUME NEW p \in Paths, DeleteTurn(p), DeleteFits(p) PROVE Tree(Put(mirror, p, Missing))
  <2>1. p \in DOMAIN job.batch.delete
    BY <1>4, Turns
  <2> QED BY <1>1, <1>4, <2>1, Removing DEF Leaves
<1>5. ASSUME NEW r \in Paths, NEW u \in Innerwards(r) PROVE Tree(u)
  <2>1. PICK g \in Cleared(r) : u = Without({h \in Cleared(r) : Position(h) >= Position(g)})
    BY <1>5 DEF Innerwards
  <2> DEFINE S == {h \in Cleared(r) : Position(h) >= Position(g)}
  <2>2. \A h \in Cleared(r) : h \in Paths
    BY ClearedDirs
  <2>3. Innermost(S, r)
    BY <2>2, Positions DEF Innermost
  <2> QED BY <2>1, <2>3, WithoutTree
<1> HIDE DEF Tree
<1>6. Tree(t)
  BY <1>1, <1>2, <1>3, <1>4, <1>5 DEF Halfway
<1> QED BY <1>6 DEF Tree

LEMMA TouchMoves ==
  ASSUME Types, NEW p \in Paths, NEW v \in Local \cup {Missing}, Touch(p, v)
  PROVE  Moves(Put(mirror, p, v))
<1>1. Missing \in Values /\ Dir \in Values /\ v \in Values /\ mirror \in [Paths -> Values]
  BY DEF Values, Types
<1>2. Put(mirror, p, v) \in [Paths -> Values] /\ WellFormed(Put(mirror, p, v))
  BY <1>1, PutTree
<1>3. mirror' = Put(mirror, p, v) /\ may' = Unsynced(may, Put(mirror, p, v))
  BY DEF Touch
<1>4. may \in [Paths -> SUBSET Values]
  BY DEF Types
<1> QED BY <1>2, <1>3, <1>4, UnsyncedSpread DEF Moves

\* An exchange that ends early goes from tree to tree: the one it leaves and the
\* one it passed through.
LEMMA InterruptedTrees ==
  ASSUME Types, JobInv, Interrupted
  PROVE  \E u, t \in [Paths -> Values] : WellFormed(u) /\ WellFormed(t) /\ Abandon(t, u)
<1>1. CASE \E t \in Halfway : Abandon(t, t)
  <2>1. PICK t \in Halfway : Abandon(t, t)
    BY <1>1
  <2>2. t \in [Paths -> Values] /\ WellFormed(t)
    BY HalfwayTrees DEF Interrupted
  <2> QED BY <2>1, <2>2
<1>2. CASE \E p \in Paths, s \in Staging :
             /\ StagedAt(s, p)
             /\ LET u == Put(mirror, s, Special)
                IN  \E t \in {u, [u EXCEPT ![s] = mirror[s]], Replaced(p)} : Abandon(t, u)
  <2>1. PICK p \in Paths, s \in Staging :
               /\ StagedAt(s, p)
               /\ LET u == Put(mirror, s, Special)
                  IN  \E t \in {u, [u EXCEPT ![s] = mirror[s]], Replaced(p)} : Abandon(t, u)
    BY <1>2
  <2> DEFINE u == Put(mirror, s, Special)
             v == [u EXCEPT ![s] = mirror[s]]
  <2>2. s \in Paths /\ \A q \in Paths : s \notin Above[q]
    BY StagingAssumption
  <2>3. u \in [Paths -> Values] /\ WellFormed(u)
    <3>1. Missing \in Values /\ Dir \in Values /\ Special \in Values /\ mirror \in [Paths -> Values]
      BY DEF Values, Types
    <3> QED BY <2>2, <3>1, PutTree, Zenon
  <2>4. \A q \in Above[s] : u[q] = Dir
    <3> DEFINE w == [q \in Paths |-> IF q = s THEN Special
                                     ELSE IF q \in Above[s] /\ Special # Missing THEN Dir ELSE mirror[q]]
    <3>1. u = Reachable(w)
      BY DEF Put
    <3>2. \A q \in Above[s] : q \in Paths /\ q # s /\ Above[q] \subseteq Above[s]
      BY <2>2, PathFacts
    <3>3. \A q \in Above[s] : w[q] = Dir
      BY <3>2, ContentAssumption
    <3> HIDE DEF w, u
    <3> QED BY <3>1, <3>2, <3>3 DEF Reachable
  <2>5. v \in [Paths -> Values] /\ WellFormed(v)
    <3>1. mirror[s] \in Values /\ \A q \in Paths : v[q] = IF q = s THEN mirror[s] ELSE u[q]
      BY <2>2, <2>3 DEF Types
    <3>2. v \in [Paths -> Values]
      BY <2>3, <3>1
    <3> HIDE DEF u, v
    <3>3. ASSUME NEW q \in Paths, v[q] # Missing, NEW g \in Above[q] PROVE v[g] = Dir
      <4>1. g \in Paths /\ g # s
        BY <2>2, PathFacts
      <4>2. u[g] = Dir
        BY <2>3, <2>4, <3>1, <3>3 DEF WellFormed
      <4> QED BY <3>1, <4>1, <4>2
    <3> QED BY <3>2, <3>3 DEF WellFormed
  <2>6. Replaced(p) \in [Paths -> Values] /\ WellFormed(Replaced(p))
    <3>1. p \in DOMAIN job.batch.files /\ Sound(job.batch) /\ FileFits(p)
      BY <2>1, Turns DEF StagedAt, JobInv
    <3> QED BY <3>1, Replacing DEF Leaves
  <2>7. PICK t \in {u, v, Replaced(p)} : Abandon(t, u)
    BY <2>1
  <2> HIDE DEF u, v
  <2> QED BY <2>3, <2>5, <2>6, <2>7
<1> QED BY <1>1, <1>2 DEF Interrupted

-----------------------------------------------------------------------------
(* Types.                                                                   *)
SourceTypes == source \in [Paths -> SourceValues] /\ WellFormed(source)
MirrorTypes ==
  /\ mirror \in [Paths -> Values] /\ WellFormed(mirror)
  /\ may \in [Paths -> SUBSET Values] /\ \A p \in Paths : mirror[p] \in may[p]
MarkTypes == loose \subseteq Paths /\ touched \subseteq Paths
BudgetTypes == edits \in Nat /\ touches \in Nat /\ faults \in Nat

LEMMA TypesParts == Types <=> SourceTypes /\ MirrorTypes /\ MarkTypes /\ BudgetTypes
BY DEF Types, SourceTypes, MirrorTypes, MarkTypes, BudgetTypes

LEMMA MovesTypes == ASSUME NEW t, Moves(t) PROVE MirrorTypes'
<1>1. \A p \in Paths : t[p] \in may'[p]
  BY SpreadHolds DEF Moves
<1>2. mirror' = t /\ t \in [Paths -> Values] /\ may' \in [Paths -> SUBSET Values] /\ WellFormed(t)
  BY DEF Moves, Spread
<1>3. WellFormed(mirror)'
  BY <1>2 DEF WellFormed
<1> QED BY <1>1, <1>2, <1>3 DEF MirrorTypes

LEMMA CrashTypes == ASSUME Types, ReceiverCrash PROVE MirrorTypes'
<1>1. PICK left \in [Paths -> UNION {may[q] : q \in Paths}] :
        (\A p \in Paths : left[p] \in may[p]) /\ mirror' = Reachable(left)
  BY DEF ReceiverCrash
<1>2. left \in [Paths -> Values] /\ Missing \in Values
  BY <1>1 DEF Types, Values
<1>3. Reachable(left) \in [Paths -> Values] /\ WellFormed(Reachable(left))
  BY <1>2, ReachableTree
<1>4. may' = [p \in Paths |-> {mirror'[p]}]
  BY DEF ReceiverCrash
<1>5. WellFormed(mirror)' /\ mirror' \in [Paths -> Values]
  BY <1>1, <1>3 DEF WellFormed
<1> QED BY <1>4, <1>5 DEF MirrorTypes

LEMMA InterruptedTypes == ASSUME Types, JobInv, Interrupted PROVE MirrorTypes'
<1>1. PICK u \in [Paths -> Values], t \in [Paths -> Values] : WellFormed(t) /\ Abandon(t, u)
  BY InterruptedTrees
<1>2. mirror' = t /\ may' = Unsynced(Unsynced(may, u), t) /\ may \in [Paths -> SUBSET Values]
  BY <1>1 DEF Abandon, Types
<1>3. may' \in [Paths -> SUBSET Values] /\ \A p \in Paths : t[p] \in may'[p]
  BY <1>2 DEF Unsynced
<1>4. WellFormed(mirror)'
  BY <1>1, <1>2 DEF WellFormed
<1> QED BY <1>2, <1>3, <1>4 DEF MirrorTypes

\* A step of the receiver with a batch changes what it marks by paths alone.
LEMMA DoneMarks ==
  ASSUME MarkTypes, NEW p, NEW t, NEW ok, Done(p, t, ok)
  PROVE  MarkTypes'
BY DEF MarkTypes, Done, Changed

LEMMA MirrorStep ==
  ASSUME Types, JobInv, [Next]_vars
  PROVE  MirrorTypes'
<1> USE TypesParts
<1>1. ASSUME UNCHANGED <<mirror, may>> PROVE MirrorTypes'
  BY <1>1, StillMoves, MovesTypes
<1>2. ASSUME ApplyVerify PROVE MirrorTypes'
  <2>1. PICK S : may' = Synced(may, mirror, S)
    BY <1>2 DEF ApplyVerify
  <2>2. mirror' = mirror
    BY <1>2 DEF ApplyVerify
  <2>3. Moves(mirror)
    BY <2>1, <2>2, VerifiedSpread DEF Moves, Types
  <2> QED BY <2>3, MovesTypes
<1>3. ASSUME NEW p \in Paths, ApplyFile(p) PROVE MirrorTypes'
  BY <1>3, FileMoves, MovesTypes
<1>4. ASSUME NEW p \in Paths, ApplyDelete(p) PROVE MirrorTypes'
  BY <1>4, DeleteMoves, MovesTypes
<1>5. ASSUME NEW p \in Paths, ApplyPrune(p) PROVE MirrorTypes'
  BY <1>5, PruneMoves, MovesTypes
<1>6. ASSUME NEW p \in Paths, NEW v \in Local \cup {Missing}, Touch(p, v) PROVE MirrorTypes'
  BY <1>6, TouchMoves, MovesTypes
<1>7. ASSUME Interrupted PROVE MirrorTypes'
  BY <1>7, InterruptedTypes
<1>8. ASSUME ReceiverCrash PROVE MirrorTypes'
  BY <1>8, CrashTypes
<1> QED
  BY <1>1, <1>2, <1>3, <1>4, <1>5, <1>6, <1>7, <1>8
  DEF Next, vars, receiver, Collect, StartCollect, FinishCollect, Save, Send, Retry, Transmit,
      Adopt, Acknowledge, Receive, Begin, Apply, Answer, EditSource, SenderCrash, Lose

LEMMA MarkStep ==
  ASSUME Types, JobInv, MessageInv, [Next]_vars
  PROVE  MarkTypes'
<1>0. MarkTypes
  BY TypesParts
<1>1. ASSUME UNCHANGED <<loose, touched>> PROVE MarkTypes'
  BY <1>0, <1>1 DEF MarkTypes
<1>2. ASSUME NEW r \in replies, Acknowledge(r) PROVE MarkTypes'
  <2>1. r.conflicts \subseteq Paths
    BY BatchParts DEF MessageInv, Complete, Sound, Named, Written
  <2> QED BY <1>0, <1>2, <2>1 DEF Acknowledge, MarkTypes
<1>3. ASSUME ApplyVerify PROVE MarkTypes'
  BY <1>0, <1>3 DEF ApplyVerify, MarkTypes
<1>4. ASSUME NEW p \in Paths, ApplyFile(p) PROVE MarkTypes'
  <2>1. UNCHANGED <<loose, touched>> \/ Done(p, Replaced(p), {p})
    BY <1>4 DEF ApplyFile, Conflict
  <2> QED BY <1>0, <1>1, <2>1, DoneMarks
<1>5. ASSUME NEW p \in Paths, ApplyDelete(p) PROVE MarkTypes'
  <2>1. UNCHANGED <<loose, touched>> \/ Done(p, Put(mirror, p, Missing), {})
    BY <1>5 DEF ApplyDelete, Conflict
  <2> QED BY <1>0, <1>1, <2>1, DoneMarks
<1>6. ASSUME NEW p \in Paths, ApplyPrune(p) PROVE MarkTypes'
  <2>1. UNCHANGED <<loose, touched>> \/ Done(p, Without(Cleared(p)), {})
    BY <1>6 DEF ApplyPrune
  <2> QED BY <1>0, <1>1, <2>1, DoneMarks
<1>7. ASSUME NEW p \in Paths, NEW v \in Local \cup {Missing}, Touch(p, v) PROVE MarkTypes'
  BY <1>0, <1>7 DEF Touch, Changed, MarkTypes
<1>8. ASSUME Interrupted PROVE MarkTypes'
  BY <1>0, <1>8 DEF Interrupted, Abandon, Changed, MarkTypes
<1> QED
  BY <1>1, <1>2, <1>3, <1>4, <1>5, <1>6, <1>7, <1>8
  DEF Next, vars, receiver, Collect, StartCollect, FinishCollect, Save, Send, Retry, Transmit,
      Adopt, Receive, Begin, Apply, Answer, EditSource, SenderCrash, ReceiverCrash, Lose

LEMMA SourceStep ==
  ASSUME Types, [Next]_vars
  PROVE  SourceTypes'
<1>0. SourceTypes
  BY TypesParts
<1>1. ASSUME UNCHANGED source PROVE SourceTypes'
  BY <1>0, <1>1 DEF SourceTypes, WellFormed
<1>2. ASSUME NEW p \in Paths, NEW v \in Contents \cup {Missing, Special}, EditSource(p, v)
      PROVE  SourceTypes'
  <2>1. Missing \in SourceValues /\ Dir \in SourceValues /\ v \in SourceValues
    BY DEF SourceValues
  <2>2. Put(source, p, v) \in [Paths -> SourceValues] /\ WellFormed(Put(source, p, v))
    BY <1>0, <2>1, PutTree DEF SourceTypes
  <2>3. source' = Put(source, p, v)
    BY <1>2 DEF EditSource
  <2> QED BY <2>2, <2>3 DEF SourceTypes, WellFormed
<1> QED
  BY <1>1, <1>2
  DEF Next, vars, receiver, Collect, StartCollect, FinishCollect, Save, Send, Retry, Transmit,
      Adopt, Acknowledge, Receive, Begin, Apply, ApplyVerify, ApplyFile, ApplyDelete, ApplyPrune,
      Answer, Touch, SenderCrash, ReceiverCrash, Interrupted, Lose

LEMMA BudgetStep ==
  ASSUME Types, [Next]_vars
  PROVE  BudgetTypes'
<1>0. edits \in Nat /\ touches \in Nat /\ faults \in Nat
  BY DEF Types
<1>1. ASSUME UNCHANGED budgets PROVE BudgetTypes'
  BY <1>0, <1>1 DEF BudgetTypes, budgets
<1>2. ASSUME Fault PROVE BudgetTypes'
  BY <1>0, <1>2 DEF BudgetTypes, Fault
<1>3. ASSUME NEW p \in Paths, NEW v, EditSource(p, v) \/ Touch(p, v) PROVE BudgetTypes'
  BY <1>0, <1>3 DEF BudgetTypes, EditSource, Touch
<1> QED
  BY <1>1, <1>2, <1>3
  DEF Next, vars, Collect, StartCollect, FinishCollect, Save, Send, Retry, Transmit, Adopt,
      Acknowledge, Receive, Begin, Apply, ApplyVerify, ApplyFile, ApplyDelete, ApplyPrune, Answer,
      SenderCrash, ReceiverCrash, Interrupted, Lose

LEMMA TypesStep ==
  ASSUME Types, JobInv, MessageInv, [Next]_vars
  PROVE  Types'
<1>1. SourceTypes' /\ MirrorTypes' /\ MarkTypes' /\ BudgetTypes'
  BY SourceStep, MirrorStep, MarkStep, BudgetStep
<1> QED BY <1>1 DEF Types, SourceTypes, MirrorTypes, MarkTypes, BudgetTypes

-----------------------------------------------------------------------------
(* The sender.                                                              *)
\* What a collection puts in a batch fits the checkpoint.
LEMMA WalkFits ==
  ASSUME NEW s \in [Paths -> SourceValues], NEW c, Retains(c)
  PROVE  Walked(Walk(s, c), c)
<1> DEFINE w == Walk(s, c)
           eligible == Found(s, c) \ Transitions(s, c)
           changed == {p \in eligible : ~Acknowledged(s, c, p)}
           fresh == changed \ DOMAIN c.known
           places == Capacity - Cardinality(DOMAIN c.known)
<1>1. \A p \in eligible : p \in Paths /\ s[p] \in Contents
                          /\ (Above[p] \cup Below(p)) \cap DOMAIN c.known = {}
  <2>1. SUFFICES ASSUME NEW p \in eligible
                 PROVE  p \in Paths /\ s[p] \in Contents
                        /\ (Above[p] \cup Below(p)) \cap DOMAIN c.known = {}
    OBVIOUS
  <2>2. p \in Visited(s, c) /\ IsFile(s, p)
    BY DEF Found
  <2>3. p \in Paths /\ Above[p] \cap DOMAIN c.known = {}
    BY <2>2 DEF Visited
  <2>4. Below(p) \cap DOMAIN c.known = {}
    BY DEF Transitions
  <2>5. s[p] \in Contents
    BY <2>2, <2>3, ContentAssumption DEF IsFile, SourceValues
  <2> QED BY <2>3, <2>4, <2>5
<1>2. Selected(s, c) \subseteq changed
      /\ Selected(s, c) \subseteq DOMAIN c.known \cup First(places, fresh)
  BY DEF Selected, First
<1>3. w.files = [p \in Selected(s, c) |->
                   [sha |-> s[p], expected |-> IF p \in DOMAIN c.known THEN c.known[p] ELSE Missing]]
      /\ w.verify = {p \in eligible : Acknowledged(s, c, p)}
  BY DEF Walk
<1>4. DOMAIN w.files = Selected(s, c)
      /\ \A p \in Selected(s, c) : /\ w.files[p].expected = Expected(c, p)
                                   /\ w.files[p] = [sha |-> s[p], expected |-> Expected(c, p)]
  BY <1>3 DEF Expected
<1>5. \A p \in Paths : Expected(c, p) \in Contents \cup {Missing}
  BY DEF Retains, Expected
<1>6. w.files \in [DOMAIN w.files -> [sha : Contents, expected : Contents \cup {Missing}]]
  <2>1. \A p \in Selected(s, c) : w.files[p] \in [sha : Contents, expected : Contents \cup {Missing}]
    <3>1. SUFFICES ASSUME NEW p \in Selected(s, c)
                   PROVE  w.files[p] \in [sha : Contents, expected : Contents \cup {Missing}]
      OBVIOUS
    <3>2. p \in eligible
      BY <1>2
    <3>3. s[p] \in Contents /\ Expected(c, p) \in Contents \cup {Missing}
      <4> HIDE DEF eligible
      <4> QED BY <1>1, <1>5, <3>2
    <3>4. w.files[p] = [sha |-> s[p], expected |-> Expected(c, p)]
      BY <1>4
    <3> HIDE DEF w
    <3> QED BY <3>3, <3>4
  <2>2. w.files = [p \in DOMAIN w.files |-> w.files[p]]
    BY <1>3
  <2> HIDE DEF w
  <2> QED BY <1>4, <2>1, <2>2
<1>7. w.verify \subseteq DOMAIN c.known
  BY <1>3 DEF Acknowledged
<1>8. Cardinality(DOMAIN c.known \cup DOMAIN w.files) <= Capacity
  <2>1. DOMAIN c.known \in SUBSET Paths /\ Cardinality(DOMAIN c.known) <= Capacity
    BY DEF Retains
  <2>2. IsFiniteSet(DOMAIN c.known)
    BY <2>1, FinitePaths, FS_Subset, Zenon
  <2>3. Cardinality(DOMAIN c.known) \in Nat
    BY <2>2, FS_CardinalityType, Zenon
  <2>4. places \in Nat /\ fresh \in SUBSET Paths
    BY <2>1, <2>3, <1>1, BoundAssumption
  <2>5. First(places, fresh) \subseteq fresh /\ Cardinality(First(places, fresh)) <= places
    <3> HIDE DEF places, fresh
    <3> QED BY <2>4, FirstBounded, Zenon
  <2> DEFINE A == DOMAIN c.known
             B == First(places, fresh)
  <2>6. B \in SUBSET Paths
    BY <2>4, <2>5
  <2> HIDE DEF fresh, B, w
  <2>7. IsFiniteSet(B)
    BY <2>6, FinitePaths, FS_Subset, Zenon
  <2>8. /\ IsFiniteSet(A \cup B)
        /\ Cardinality(A \cup B) = Cardinality(A) + Cardinality(B) - Cardinality(A \cap B)
    BY <2>2, <2>7, FS_Union, Zenon
  <2>9. Cardinality(B) \in Nat
    BY <2>7, FS_CardinalityType, Zenon
  <2>10. Cardinality(A \cap B) \in Nat
    <3>1. IsFiniteSet(A \cap B)
      BY <2>2, FS_Intersection, Zenon
    <3> QED BY <3>1, FS_CardinalityType, Zenon
  <2>11. Cardinality(A \cup B) <= Capacity
    <3>1. Cardinality(B) <= Capacity - Cardinality(A)
      BY <2>5 DEF B
    <3>2. Capacity \in Nat
      BY BoundAssumption
    <3> HIDE DEF A
    <3>3. Cardinality(A) \in Nat
      BY <2>3 DEF A
    <3> QED BY <2>8, <2>9, <2>10, <3>1, <3>2, <3>3
  <2>12. DOMAIN c.known \cup DOMAIN w.files \in SUBSET (A \cup B)
    BY <1>2, <1>4 DEF B
  <2>13. Cardinality(DOMAIN c.known \cup DOMAIN w.files) <= Cardinality(A \cup B)
    BY <2>8, <2>12, FS_Subset, Zenon
  <2>14. Cardinality(DOMAIN c.known \cup DOMAIN w.files) \in Nat /\ Cardinality(A \cup B) \in Nat
    <3>1. IsFiniteSet(DOMAIN c.known \cup DOMAIN w.files)
      BY <2>8, <2>12, FS_Subset, Zenon
    <3> QED BY <2>8, <3>1, FS_CardinalityType, Zenon
  <2> QED BY <2>11, <2>13, <2>14, BoundAssumption
<1>9. DOMAIN w.files \subseteq Paths
  BY <1>1, <1>2, <1>4
<1>10. Apart(DOMAIN w.files \cup w.verify, c)
  BY <1>1, <1>2, <1>3, <1>4 DEF Apart
<1> HIDE DEF w
<1>11. Walked(w, c)
  BY <1>4, <1>6, <1>7, <1>8, <1>9, <1>10 DEF Walked
<1> QED BY <1>11 DEF w

LEMMA BatchFits ==
  ASSUME NEW s, NEW c, Retains(c), NEW w, Walked(w, c), NEW nonce \in Nonces,
         Valid(Batch(s, c, w, nonce))
  PROVE  Matches(Batch(s, c, w, nonce), c) /\ Batch(s, c, w, nonce).id = nonce
<1> DEFINE deleted == First(Room - Cardinality(DOMAIN w.files), Deleted(s, c, w))
           b == Batch(s, c, w, nonce)
<1>1. deleted \subseteq DOMAIN c.known
  BY DEF First, Deleted, Unaccounted
<1>2. PruneRoots(c, w, deleted) \subseteq Paths
  BY DEF PruneRoots
<1>3. b = [id |-> nonce, files |-> w.files, verify |-> [p \in w.verify |-> c.known[p]],
           delete |-> [p \in deleted |-> c.known[p]], prune |-> PruneRoots(c, w, deleted)]
  BY DEF Batch
<1> HIDE DEF deleted, b
<1>4. /\ b.id = nonce /\ b.files = w.files
      /\ b.verify = [p \in w.verify |-> c.known[p]]
      /\ b.delete = [p \in deleted |-> c.known[p]]
      /\ b.prune = PruneRoots(c, w, deleted)
  BY <1>3
<1>5. /\ DOMAIN w.files \in SUBSET Paths /\ w.verify \in SUBSET Paths /\ deleted \in SUBSET Paths
      /\ \A p \in DOMAIN c.known : c.known[p] \in Contents
  BY <1>1 DEF Retains, Walked
<1>6. b \in Batches
  <2>1. b.files \in UNION {[S -> [sha : Contents, expected : Contents \cup {Missing}]] : S \in SUBSET Paths}
    BY <1>4, <1>5 DEF Walked
  <2>2. [p \in w.verify |-> c.known[p]] \in [w.verify -> Contents]
    BY <1>5 DEF Walked
  <2>3. b.verify \in UNION {[S -> Contents] : S \in SUBSET Paths}
    BY <1>4, <1>5, <2>2
  <2>4. [p \in deleted |-> c.known[p]] \in [deleted -> Contents]
    BY <1>1, <1>5
  <2>5. b.delete \in UNION {[S -> Contents] : S \in SUBSET Paths}
    BY <1>4, <1>5, <2>4
  <2>6. b.prune \in SUBSET Paths
    BY <1>2, <1>4
  <2> QED BY <1>3, <1>4, <2>1, <2>3, <2>5, <2>6 DEF Batches
<1>7. Valid(b)
  BY DEF b
<1>8. Written(b) = DOMAIN w.files \cup w.verify
  BY <1>4 DEF Written
<1>9. Matches(b, c)
  BY <1>1, <1>4, <1>6, <1>7, <1>8 DEF Matches, Walked, Sound
<1> QED BY <1>4, <1>9 DEF b

\* What the sender adopts of a complete receipt is a checkpoint again.
LEMMA LearnedRetains ==
  ASSUME NEW c, Retains(c), c.pending # None, Fits(c), NEW r, Adoptable(c, r),
         NEW n, n = [known |-> Learned(c, r), cursor |-> Frontier(r.conflicts), pending |-> None]
  PROVE  Retains(n) /\ Fits(n)
<1> DEFINE b == c.pending
           k == Learned(c, r)
<1>1. Sound(b) /\ Matches(b, c) /\ b \in Batches /\ Valid(b)
  BY DEF Fits, Matches, Sound
<1>2. /\ r.accepted \subseteq Written(b) /\ r.removed \subseteq DOMAIN b.delete
      /\ r.conflicts \subseteq Named(b) \cup b.prune
  BY DEF Adoptable, Complete
<1>3. Written(b) \subseteq Paths /\ r.conflicts \subseteq Paths
  BY <1>1, <1>2, BatchParts DEF Named, Written
<1>4. DOMAIN k = (DOMAIN c.known \ r.removed) \cup r.accepted
      /\ \A p \in DOMAIN k : k[p] = IF p \in r.accepted THEN Identity(b, p) ELSE c.known[p]
  BY DEF Learned
<1>5. \A p \in Written(b) : Identity(b, p) \in Contents
  BY <1>1, BatchParts DEF Identity, Written
<1>6. DOMAIN k \subseteq Paths
  BY <1>2, <1>3, <1>4 DEF Retains
<1>7. k \in [DOMAIN k -> Contents]
  <2>1. \A p \in DOMAIN k : k[p] \in Contents
    BY <1>2, <1>4, <1>5 DEF Retains
  <2>2. k = [p \in DOMAIN k |-> k[p]]
    BY DEF Learned
  <2> HIDE DEF k
  <2> QED BY <2>1, <2>2
<1>8. \A p \in DOMAIN k : Above[p] \cap DOMAIN k = {}
  <2>1. SUFFICES ASSUME NEW p \in DOMAIN k, NEW q \in DOMAIN k, q \in Above[p] PROVE FALSE
    OBVIOUS
  <2>2. p \in Below(q) /\ p \in Paths /\ q \in Paths
    BY <1>6, <2>1 DEF Below
  <2>3. CASE p \in r.accepted /\ q \in r.accepted
    BY <1>1, <1>2, <2>1, <2>3 DEF Valid, Named
  <2>4. CASE p \in r.accepted /\ q \in DOMAIN c.known
    BY <1>1, <1>2, <2>1, <2>4 DEF Matches, Apart
  <2>5. CASE p \in DOMAIN c.known /\ q \in r.accepted
    BY <1>1, <1>2, <2>1, <2>2, <2>5 DEF Matches, Apart
  <2>6. CASE p \in DOMAIN c.known /\ q \in DOMAIN c.known
    BY <2>1, <2>6 DEF Retains
  <2> QED BY <1>4, <2>1, <2>3, <2>4, <2>5, <2>6
<1>9. Cardinality(DOMAIN k) <= Capacity
  BY DEF Adoptable
<1>10. Frontier(r.conflicts) \subseteq Paths
  BY <1>3 DEF Frontier
<1> HIDE DEF k
<1>11. n = [known |-> k, cursor |-> Frontier(r.conflicts), pending |-> None]
  BY DEF k
<1>12. DOMAIN n = {"known", "cursor", "pending"} /\ n.known = k /\ n.pending = None
       /\ n.cursor = Frontier(r.conflicts)
  BY <1>11
<1> QED BY <1>6, <1>7, <1>8, <1>9, <1>10, <1>12 DEF Retains, Fits

\* Only a transmission brings a batch on its way.
LEMMA FlownByReceiver ==
  ASSUME JobInv, Apply
  PROVE  Flying' \subseteq Flying
<1>1. ASSUME job # None, requests' = requests, replies' = replies,
             job'.batch = job.batch PROVE Flying' \subseteq Flying
  BY <1>1 DEF Flying
<1>2. ASSUME ApplyVerify PROVE Flying' \subseteq Flying
  <2>1. job # None /\ requests' = requests /\ replies' = replies
    BY <1>2 DEF ApplyVerify, network
  <2>2. job'.batch = job.batch
    BY <1>2, <2>1 DEF ApplyVerify, JobInv, JobFields
  <2> QED BY <1>1, <2>1, <2>2
<1>3. ASSUME NEW p \in Paths, ApplyFile(p) PROVE Flying' \subseteq Flying
  <2>1. job # None /\ requests' = requests /\ replies' = replies
    BY <1>3, Turns DEF ApplyFile, network
  <2>2. job'.batch = job.batch
    BY <1>3, <2>1 DEF ApplyFile, Conflict, Rest, JobInv, JobFields
  <2> QED BY <1>1, <2>1, <2>2
<1>4. ASSUME NEW p \in Paths, ApplyDelete(p) PROVE Flying' \subseteq Flying
  <2>1. job # None /\ requests' = requests /\ replies' = replies
    BY <1>4, Turns DEF ApplyDelete, network
  <2>2. job'.batch = job.batch
    BY <1>4, <2>1 DEF ApplyDelete, Conflict, Rest, JobInv, JobFields
  <2> QED BY <1>1, <2>1, <2>2
<1>5. ASSUME NEW p \in Paths, ApplyPrune(p) PROVE Flying' \subseteq Flying
  <2>1. job # None /\ requests' = requests /\ replies' = replies
    BY <1>5, Turns DEF ApplyPrune, network
  <2>2. job'.batch = job.batch
    BY <1>5, <2>1 DEF ApplyPrune, Retracted, Rest, JobInv, JobFields
  <2> QED BY <1>1, <2>1, <2>2
<1>6. ASSUME Answer PROVE Flying' \subseteq Flying
  BY <1>6 DEF Answer, Flying
<1> QED BY <1>2, <1>3, <1>4, <1>5, <1>6 DEF Apply

LEMMA FlownBesides ==
  ASSUME UNCHANGED network /\ job' = job
  PROVE  Flying' = Flying
BY DEF Flying, network

LEMMA FlownFewer ==
  ASSUME requests' \subseteq requests, replies' \subseteq replies, job' = job \/ job' = None
  PROVE  Flying' \subseteq Flying
BY DEF Flying

LEMMA FlownBegin ==
  ASSUME NEW b \in requests, Begin(b)
  PROVE  Flying' \subseteq Flying
BY DEF Begin, Flying

\* A step that leaves the sender alone and transmits nothing keeps its invariant.
LEMMA SenderKept ==
  ASSUME SenderInv, UNCHANGED sender, Flying' \subseteq Flying
  PROVE  SenderInv'
<1>1. mem' = mem /\ disk' = disk /\ walk' = walk
  BY DEF sender
<1>2. Retains(mem)' /\ Retains(disk)' /\ Fits(mem)' /\ Fits(disk)' /\ Collecting'
  BY <1>1 DEF SenderInv, Retains, Fits, Matches, Collecting, Walked
<1>3. Saved'
  BY <1>1 DEF SenderInv, Saved, Unsaved, Adopted
<1> QED BY <1>2, <1>3 DEF SenderInv

\* The batch of a collection is in no other hands before it is saved.
LEMMA Prepared ==
  ASSUME SenderInv, FinishCollect
  PROVE  mem' = mem \/ (/\ Matches(mem'.pending, mem) /\ mem'.pending \notin Flying
                        /\ mem' = [mem EXCEPT !.pending = mem'.pending])
<1>1. CASE mem' = mem
  BY <1>1
<1>2. CASE mem' # mem
  <2>1. ~Raced(source, mem, walk) /\ Nonces \ InUse # {} /\ walk # None
    BY <1>2 DEF FinishCollect
  <2> DEFINE nonce == CHOOSE n \in Nonces \ InUse : TRUE
             b == Batch(source, mem, walk, nonce)
  <2>2. nonce \in Nonces \ InUse
    BY <2>1
  <2>3. Valid(b) /\ mem' = [mem EXCEPT !.pending = b]
    BY <1>2, <2>1 DEF FinishCollect
  <2>4. Retains(mem) /\ Walked(walk, mem)
    BY <2>1 DEF SenderInv, Collecting
  <2> HIDE DEF nonce
  <2>5. Matches(b, mem) /\ b.id = nonce
    BY <2>2, <2>3, <2>4, BatchFits
  <2>6. \A x \in Flying : x.id \in InUse
    BY DEF Flying, InUse
  <2>7. b \notin Flying
    <3> HIDE DEF b
    <3> QED BY <2>2, <2>5, <2>6
  <2> HIDE DEF b
  <2>8. mem'.pending = b
    BY <2>3, <2>4 DEF Retains
  <2> QED BY <2>3, <2>5, <2>7, <2>8
<1> QED BY <1>1, <1>2

LEMMA SenderPrepares ==
  ASSUME SenderInv, FinishCollect
  PROVE  SenderInv'
<1>0. disk' = disk /\ walk' = None /\ UNCHANGED network /\ job' = job /\ walk # None
  BY DEF FinishCollect, receiver
<1>1. Flying' = Flying
  BY <1>0, FlownBesides
<1>2. mem = disk /\ mem.pending = None /\ Retains(mem)
  BY <1>0 DEF SenderInv, Collecting
<1>3. CASE mem' = mem
  <2>1. Retains(mem)' /\ Retains(disk)' /\ Fits(mem)' /\ Fits(disk)'
    BY <1>0, <1>2, <1>3 DEF SenderInv, Retains, Fits, Matches
  <2>2. Collecting' /\ Saved'
    BY <1>0, <1>2, <1>3 DEF Collecting, Saved
  <2> QED BY <2>1, <2>2 DEF SenderInv
<1>4. CASE /\ Matches(mem'.pending, mem) /\ mem'.pending \notin Flying
           /\ mem' = [mem EXCEPT !.pending = mem'.pending]
  <2>1. mem'.known = mem.known /\ mem'.cursor = mem.cursor /\ DOMAIN mem' = DOMAIN mem
    BY <1>2, <1>4 DEF Retains
  <2>2. Retains(mem)' /\ Retains(disk)'
    BY <1>0, <1>2, <2>1 DEF Retains
  <2>3. Matches(mem'.pending, mem')
    BY <1>4, <2>1 DEF Matches, Expected, Apart
  <2>4. mem'.pending # None
    BY <1>4, NoneAssumption DEF Matches, Sound
  <2>5. Fits(mem)'
    BY <2>3 DEF Fits
  <2>6. Fits(disk)' /\ Collecting'
    BY <1>0, <1>2 DEF Fits, Collecting
  <2>7. Saved'
    BY <1>0, <1>1, <1>2, <1>4, <2>1, <2>4 DEF Saved, Unsaved
  <2> QED BY <2>2, <2>5, <2>6, <2>7 DEF SenderInv
<1> QED BY <1>3, <1>4, Prepared

LEMMA SenderStarts ==
  ASSUME Types, SenderInv, StartCollect
  PROVE  SenderInv'
<1>0. mem' = mem /\ disk' = disk /\ UNCHANGED network /\ job' = job
      /\ mem = disk /\ mem.pending = None /\ walk' = Walk(source, mem)
  BY DEF StartCollect, receiver
<1>1. Walked(Walk(source, mem), mem)
  BY WalkFits DEF Types, SenderInv
<1>2. Collecting'
  BY <1>0, <1>1 DEF Collecting
<1>3. Retains(mem)' /\ Retains(disk)' /\ Fits(mem)' /\ Fits(disk)' /\ Saved'
  BY <1>0 DEF SenderInv, Retains, Fits, Matches, Saved
<1> QED BY <1>2, <1>3 DEF SenderInv

LEMMA SenderSaves ==
  ASSUME SenderInv, Save
  PROVE  SenderInv'
<1>0. mem' = mem /\ disk' = mem /\ walk' = walk /\ disk # mem
  BY DEF Save
<1>1. walk = None
  BY <1>0 DEF SenderInv, Collecting
<1>2. Retains(mem)' /\ Retains(disk)' /\ Fits(mem)' /\ Fits(disk)'
  BY <1>0 DEF SenderInv, Retains, Fits, Matches
<1>3. Collecting' /\ Saved'
  BY <1>0, <1>1 DEF Collecting, Saved
<1> QED BY <1>2, <1>3 DEF SenderInv

\* A receipt is adopted only when the checkpoint it answers is on disk.
LEMMA AdoptsSaved ==
  ASSUME SenderInv, NEW r \in replies, mem.pending # None, r.batch = mem.pending
  PROVE  mem = disk /\ walk = None
<1>1. mem.pending \in Flying
  BY DEF Flying
<1> QED BY <1>1 DEF SenderInv, Saved, Unsaved, Adopted, Collecting

LEMMA SenderAdopts ==
  ASSUME SenderInv, NEW r \in replies, Acknowledge(r)
  PROVE  SenderInv'
<1>0. disk' = disk /\ walk' = walk /\ job' = job /\ requests' = requests /\ replies' \subseteq replies
  BY DEF Acknowledge
<1>1. CASE mem' = mem
  <2>1. Flying' \subseteq Flying
    BY <1>0, FlownFewer
  <2> QED BY <1>0, <1>1, <2>1, SenderKept DEF sender
<1>2. CASE mem' # mem
  <2>1. /\ mem.pending # None /\ r.batch = mem.pending /\ Adoptable(mem, r)
        /\ mem' = [known |-> Learned(mem, r), cursor |-> Frontier(r.conflicts), pending |-> None]
    BY <1>2 DEF Acknowledge
  <2>2. mem = disk /\ walk = None
    BY <2>1, AdoptsSaved
  <2>3. Retains(mem') /\ Fits(mem')
    BY <2>1, LearnedRetains DEF SenderInv
  <2>4. Retains(mem)' /\ Fits(mem)'
    BY <2>3 DEF Retains, Fits, Matches
  <2>5. Retains(disk)' /\ Fits(disk)'
    BY <1>0 DEF SenderInv, Retains, Fits, Matches
  <2>6. Collecting'
    BY <1>0, <2>2 DEF Collecting
  <2>7. mem'.pending = None
    BY <2>1
  <2>8. Saved'
    BY <1>0, <2>1, <2>2, <2>7 DEF Saved, Adopted
  <2> QED BY <2>4, <2>5, <2>6, <2>8 DEF SenderInv
<1> QED BY <1>1, <1>2

LEMMA SenderRestarts ==
  ASSUME SenderInv, SenderCrash
  PROVE  SenderInv'
<1>0. mem' = disk /\ disk' = disk /\ walk' = None
  BY DEF SenderCrash
<1>1. Retains(mem)' /\ Retains(disk)' /\ Fits(mem)' /\ Fits(disk)'
  BY <1>0 DEF SenderInv, Retains, Fits, Matches
<1>2. Collecting' /\ Saved'
  BY <1>0 DEF Collecting, Saved
<1> QED BY <1>1, <1>2 DEF SenderInv

LEMMA SenderTransmits ==
  ASSUME SenderInv, Transmit
  PROVE  SenderInv'
<1>0. mem' = mem /\ disk' = disk /\ walk' = walk /\ mem = disk
  BY DEF Transmit, sender
<1>1. Retains(mem)' /\ Retains(disk)' /\ Fits(mem)' /\ Fits(disk)' /\ Collecting'
  BY <1>0 DEF SenderInv, Retains, Fits, Matches, Collecting, Walked
<1>2. Saved'
  BY <1>0 DEF Saved
<1> QED BY <1>1, <1>2 DEF SenderInv

LEMMA SenderStep ==
  ASSUME Types, SenderInv, JobInv, [Next]_vars
  PROVE  SenderInv'
<1>1. ASSUME UNCHANGED sender, UNCHANGED network, job' = job PROVE SenderInv'
  BY <1>1, FlownBesides, SenderKept
<1>2. ASSUME UNCHANGED sender, requests' \subseteq requests, replies' \subseteq replies,
             job' = job \/ job' = None
      PROVE  SenderInv'
  BY <1>2, FlownFewer, SenderKept
<1>3. ASSUME Apply PROVE SenderInv'
  <2>1. UNCHANGED sender
    BY <1>3 DEF Apply, ApplyVerify, ApplyFile, ApplyDelete, ApplyPrune, Answer
  <2> QED BY <1>3, <2>1, FlownByReceiver, SenderKept
<1>4. ASSUME NEW b \in requests, Begin(b) PROVE SenderInv'
  <2>1. UNCHANGED sender
    BY <1>4 DEF Begin
  <2> QED BY <1>4, <2>1, FlownBegin, SenderKept
<1>5. ASSUME Lose PROVE SenderInv'
  BY <1>2, <1>5 DEF Lose, receiver
<1>6. ASSUME Interrupted \/ ReceiverCrash PROVE SenderInv'
  <2>1. UNCHANGED sender /\ requests' = requests /\ replies' = replies /\ job' = None
    BY <1>6 DEF Interrupted, Abandon, ReceiverCrash, network
  <2> QED BY <1>2, <2>1
<1>7. ASSUME NEW p, NEW v, EditSource(p, v) \/ Touch(p, v) PROVE SenderInv'
  BY <1>1, <1>7 DEF EditSource, Touch, receiver
<1>8. ASSUME UNCHANGED vars PROVE SenderInv'
  BY <1>1, <1>8 DEF vars, receiver
<1> QED
  BY <1>3, <1>4, <1>5, <1>6, <1>7, <1>8, SenderStarts, SenderPrepares, SenderSaves,
     SenderAdopts, SenderRestarts, SenderTransmits
  DEF Next, Collect, Send, Retry, Adopt, Receive

-----------------------------------------------------------------------------
(* The exchange being applied.                                              *)
LEMMA RootsUnnamed == ASSUME NEW b, Sound(b) PROVE b.prune \cap Named(b) = {}
<1>1. SUFFICES ASSUME NEW r \in b.prune, r \in Named(b) PROVE FALSE
  OBVIOUS
<1>2. PICK p \in DOMAIN b.delete : r \in Above[p]
  BY DEF Sound, Valid, Below
<1>3. p \in Named(b) /\ Above[p] \cap Named(b) = {}
  BY <1>2 DEF Sound, Valid, Named
<1> QED BY <1>1, <1>2, <1>3

\* Nothing is decided while everything is left to do.
LEMMA DecidedNone ==
  ASSUME NEW b, NEW x, x.accepted = {}, x.removed = {}, x.pruned = {}, x.conflicts = {}
  PROVE  Decided(b, Agenda(b), x)
BY DEF Decided, Agenda, Named, Written

LEMMA DecidedVerify ==
  ASSUME NEW b, Sound(b), NEW todo, NEW x, Decided(b, todo, x), todo = Agenda(b),
         NEW same \in SUBSET DOMAIN b.verify,
         NEW y, y.accepted = same, y.conflicts = DOMAIN b.verify \ same,
         y.removed = x.removed, y.pruned = x.pruned
  PROVE  Decided(b, todo \ DOMAIN b.verify, y)
<1> DEFINE A == DOMAIN b.verify
<1>1. x.removed = {} /\ x.pruned = {}
  BY DEF Decided, Agenda, Named, Written
<1>2. b.prune \cap Named(b) = {} /\ A \cap DOMAIN b.files = {} /\ A \cap DOMAIN b.delete = {}
      /\ A \subseteq Named(b)
  BY RootsUnnamed DEF Sound, Valid, Written, Named
<1>3. b.prune \subseteq todo \ A /\ b.prune \cap y.conflicts = {}
      /\ DOMAIN b.delete \subseteq todo \ A
  BY <1>2 DEF Agenda, Named
<1>4. /\ y.accepted \subseteq Written(b) \ (todo \ A)
      /\ y.conflicts \subseteq Agenda(b) \ (todo \ A)
      /\ Written(b) \ (todo \ A) \subseteq y.accepted \cup y.conflicts
  BY <1>2 DEF Written, Agenda, Named
<1>5. todo \ A \subseteq Agenda(b) /\ A \cap (todo \ A) = {}
  OBVIOUS
<1> HIDE DEF A
<1>6. y.conflicts \cap (y.accepted \cup y.removed \cup y.pruned) = {}
  BY <1>1
<1>7. A = DOMAIN b.verify
  BY DEF A
<1> QED BY <1>1, <1>3, <1>4, <1>5, <1>6, <1>7 DEF Decided

LEMMA DecidedFile ==
  ASSUME NEW b, Sound(b), NEW todo, NEW x, Decided(b, todo, x),
         NEW p \in DOMAIN b.files \cap todo, DOMAIN b.verify \cap todo = {},
         NEW y, y.removed = x.removed, y.pruned = x.pruned,
         \/ y.accepted = x.accepted \cup {p} /\ y.conflicts = x.conflicts
         \/ y.accepted = x.accepted /\ y.conflicts = x.conflicts \cup {p}
  PROVE  Decided(b, todo \ {p}, y)
<1>1. p \in Written(b) /\ p \notin b.prune /\ p \notin DOMAIN b.delete /\ p \in Agenda(b)
  BY RootsUnnamed DEF Sound, Valid, Written, Named, Agenda
<1>2. b.prune \cap y.conflicts = b.prune \cap x.conflicts
  BY <1>1
<1>3. \A q \in DOMAIN b.delete \ ((todo \ {p}) \cup y.removed \cup y.conflicts) :
         q \in DOMAIN b.delete \ (todo \cup x.removed \cup x.conflicts)
  BY <1>1
<1>4. /\ todo \subseteq Agenda(b)
      /\ x.accepted \subseteq Written(b) \ todo
      /\ x.removed \subseteq DOMAIN b.delete \ todo
      /\ x.pruned \subseteq b.prune \ todo
      /\ x.conflicts \subseteq Agenda(b) \ todo
      /\ x.conflicts \cap (x.accepted \cup x.removed \cup x.pruned) = {}
      /\ Written(b) \ todo \subseteq x.accepted \cup x.conflicts
      /\ b.prune \ todo \subseteq x.pruned \cup x.conflicts
      /\ b.prune \subseteq todo \/ DOMAIN b.delete \cap todo = {}
  BY DEF Decided
<1>5. /\ y.accepted \subseteq Written(b) \ (todo \ {p})
      /\ y.removed \subseteq DOMAIN b.delete \ (todo \ {p})
      /\ y.pruned \subseteq b.prune \ (todo \ {p})
      /\ y.conflicts \subseteq Agenda(b) \ (todo \ {p})
      /\ y.conflicts \cap (y.accepted \cup y.removed \cup y.pruned) = {}
      /\ Written(b) \ (todo \ {p}) \subseteq y.accepted \cup y.conflicts
      /\ b.prune \ (todo \ {p}) \subseteq y.pruned \cup y.conflicts
      /\ b.prune \subseteq todo \ {p} \/ DOMAIN b.delete \cap (todo \ {p}) = {}
      /\ DOMAIN b.verify \cap (todo \ {p}) = {} /\ todo \ {p} \subseteq Agenda(b)
  BY <1>1, <1>4
<1>6. /\ \A q \in DOMAIN b.delete \ (todo \cup x.removed \cup x.conflicts) :
           Above[q] \cap (b.prune \cap x.conflicts) # {}
      /\ \A q \in DOMAIN b.delete :
           /\ Above[q] \cap x.pruned # {} => q \in x.removed
           /\ Above[q] \cap (b.prune \cap x.conflicts) # {} => q \notin x.removed
  BY DEF Decided
<1> QED BY <1>2, <1>3, <1>5, <1>6 DEF Decided

LEMMA DecidedDelete ==
  ASSUME NEW b, Sound(b), NEW todo, NEW x, Decided(b, todo, x),
         NEW p \in DOMAIN b.delete \cap todo, Written(b) \cap todo = {},
         NEW y, y.accepted = x.accepted, y.pruned = x.pruned,
         \/ y.removed = x.removed \cup {p} /\ y.conflicts = x.conflicts
         \/ y.removed = x.removed /\ y.conflicts = x.conflicts \cup {p}
  PROVE  Decided(b, todo \ {p}, y)
<1>1. p \notin Written(b) /\ p \notin b.prune /\ p \in Agenda(b)
  BY RootsUnnamed DEF Sound, Valid, Written, Named, Agenda
<1>4. /\ todo \subseteq Agenda(b)
      /\ x.accepted \subseteq Written(b) \ todo
      /\ x.removed \subseteq DOMAIN b.delete \ todo
      /\ x.pruned \subseteq b.prune \ todo
      /\ x.conflicts \subseteq Agenda(b) \ todo
      /\ x.conflicts \cap (x.accepted \cup x.removed \cup x.pruned) = {}
      /\ Written(b) \ todo \subseteq x.accepted \cup x.conflicts
      /\ b.prune \subseteq todo
      /\ DOMAIN b.verify \cap todo = {}
  BY DEF Decided, Written
<1>2. x.pruned = {} /\ b.prune \cap x.conflicts = {} /\ b.prune \cap y.conflicts = {}
  BY <1>1, <1>4
<1>5. /\ y.accepted \subseteq Written(b) \ (todo \ {p})
      /\ y.removed \subseteq DOMAIN b.delete \ (todo \ {p})
      /\ y.pruned \subseteq b.prune \ (todo \ {p})
      /\ y.conflicts \subseteq Agenda(b) \ (todo \ {p})
      /\ y.conflicts \cap (y.accepted \cup y.removed \cup y.pruned) = {}
      /\ Written(b) \ (todo \ {p}) \subseteq y.accepted \cup y.conflicts
      /\ b.prune \ (todo \ {p}) \subseteq y.pruned \cup y.conflicts
      /\ b.prune \subseteq todo \ {p}
      /\ DOMAIN b.verify \cap (todo \ {p}) = {} /\ todo \ {p} \subseteq Agenda(b)
  BY <1>1, <1>2, <1>4
<1>6. \A q \in DOMAIN b.delete \ (todo \cup x.removed \cup x.conflicts) : FALSE
  BY <1>2 DEF Decided
<1>7. \A q \in DOMAIN b.delete \ ((todo \ {p}) \cup y.removed \cup y.conflicts) : FALSE
  BY <1>6
<1> QED BY <1>2, <1>5, <1>7 DEF Decided

LEMMA DecidedPrune ==
  ASSUME NEW b, Sound(b), NEW todo, NEW x, Decided(b, todo, x),
         NEW r \in b.prune \cap todo, Named(b) \cap todo = {}, NEW below,
         below = Below(r) \cap DOMAIN b.delete, NEW y, y.accepted = x.accepted,
         \/ /\ below \subseteq x.removed /\ y.pruned = x.pruned \cup {r}
            /\ y.removed = x.removed /\ y.conflicts = x.conflicts
         \/ /\ y.pruned = x.pruned /\ y.removed = x.removed \ below
            /\ y.conflicts = x.conflicts \cup {r}
  PROVE  Decided(b, todo \ {r}, y)
<1>1. r \notin Named(b) /\ r \in Agenda(b) /\ DOMAIN b.delete \subseteq Paths
  BY RootsUnnamed, BatchParts DEF Agenda, Sound
<1>2. r \notin Written(b) /\ r \notin DOMAIN b.delete /\ DOMAIN b.delete \cap todo = {}
      /\ Written(b) \cap todo = {} /\ DOMAIN b.verify \cap todo = {}
  BY <1>1 DEF Named, Written
<1>3. \A q \in DOMAIN b.delete : q \in below <=> r \in Above[q]
  BY <1>1 DEF Below
<1>4. /\ todo \subseteq Agenda(b)
      /\ x.accepted \subseteq Written(b) \ todo
      /\ x.removed \subseteq DOMAIN b.delete \ todo
      /\ x.pruned \subseteq b.prune \ todo
      /\ x.conflicts \subseteq Agenda(b) \ todo
      /\ x.conflicts \cap (x.accepted \cup x.removed \cup x.pruned) = {}
      /\ Written(b) \ todo \subseteq x.accepted \cup x.conflicts
      /\ b.prune \ todo \subseteq x.pruned \cup x.conflicts
      /\ \A q \in DOMAIN b.delete \ (todo \cup x.removed \cup x.conflicts) :
           Above[q] \cap (b.prune \cap x.conflicts) # {}
      /\ \A q \in DOMAIN b.delete :
           /\ Above[q] \cap x.pruned # {} => q \in x.removed
           /\ Above[q] \cap (b.prune \cap x.conflicts) # {} => q \notin x.removed
  BY DEF Decided
<1>5. /\ y.accepted \subseteq Written(b) \ (todo \ {r})
      /\ y.removed \subseteq DOMAIN b.delete \ (todo \ {r})
      /\ y.pruned \subseteq b.prune \ (todo \ {r})
      /\ y.conflicts \subseteq Agenda(b) \ (todo \ {r})
      /\ y.conflicts \cap (y.accepted \cup y.removed \cup y.pruned) = {}
      /\ Written(b) \ (todo \ {r}) \subseteq y.accepted \cup y.conflicts
      /\ b.prune \ (todo \ {r}) \subseteq y.pruned \cup y.conflicts
      /\ DOMAIN b.delete \cap (todo \ {r}) = {}
      /\ DOMAIN b.verify \cap (todo \ {r}) = {} /\ todo \ {r} \subseteq Agenda(b)
  BY <1>1, <1>2, <1>4
<1>6. ASSUME NEW q \in DOMAIN b.delete, r \in Above[q]
      PROVE  Above[q] \cap x.pruned = {}
  <2>1. SUFFICES ASSUME NEW g \in Above[q], g \in x.pruned PROVE FALSE
    OBVIOUS
  <2>2. g \in b.prune /\ g # r /\ r \in b.prune
    BY <1>4, <2>1
  <2>3. Above[g] \cap b.prune = {} /\ Above[r] \cap b.prune = {}
    BY <2>2 DEF Sound, Valid
  <2>4. g = r \/ g \in Above[r] \/ r \in Above[g]
    BY <1>1, <1>6, <2>1, PathFacts
  <2> QED BY <2>2, <2>3, <2>4
<1>7. \A q \in DOMAIN b.delete \ ((todo \ {r}) \cup y.removed \cup y.conflicts) :
         Above[q] \cap (b.prune \cap y.conflicts) # {}
  <2>1. SUFFICES ASSUME NEW q \in DOMAIN b.delete,
                        q \notin (todo \ {r}) \cup y.removed \cup y.conflicts
                 PROVE  Above[q] \cap (b.prune \cap y.conflicts) # {}
    OBVIOUS
  <2>2. CASE y.removed = x.removed
    BY <1>2, <1>4, <2>1, <2>2
  <2>3. CASE y.removed = x.removed \ below /\ y.conflicts = x.conflicts \cup {r}
    <3>1. CASE q \in below
      BY <1>3, <2>3, <3>1
    <3>2. CASE q \notin below
      BY <1>2, <1>4, <2>1, <2>3, <3>2
    <3> QED BY <3>1, <3>2
  <2> QED BY <2>2, <2>3
<1>8. ASSUME NEW q \in DOMAIN b.delete
      PROVE  /\ Above[q] \cap y.pruned # {} => q \in y.removed
             /\ Above[q] \cap (b.prune \cap y.conflicts) # {} => q \notin y.removed
  <2>1. CASE /\ below \subseteq x.removed /\ y.pruned = x.pruned \cup {r}
             /\ y.removed = x.removed /\ y.conflicts = x.conflicts
    BY <1>3, <1>4, <2>1
  <2>2. CASE /\ y.pruned = x.pruned /\ y.removed = x.removed \ below
             /\ y.conflicts = x.conflicts \cup {r}
    BY <1>3, <1>4, <1>6, <2>2
  <2> QED BY <2>1, <2>2
<1> QED BY <1>5, <1>7, <1>8 DEF Decided

\* Begin takes a batch up with everything to do.
LEMMA JobBegins == ASSUME MessageInv, NEW b \in requests, Begin(b) PROVE JobInv'
<1>1. job' = [batch |-> b, todo |-> Agenda(b), blocked |-> BlockedRoots(b),
              accepted |-> {}, removed |-> {}, pruned |-> {}, conflicts |-> {}]
  BY DEF Begin
<1>2. /\ DOMAIN job' = JobFields /\ job'.batch = b /\ job'.todo = Agenda(b)
      /\ job'.accepted = {} /\ job'.removed = {} /\ job'.pruned = {} /\ job'.conflicts = {}
  BY <1>1 DEF JobFields
<1>3. Sound(b)
  BY DEF MessageInv
<1>4. Decided(b, Agenda(b), job')
  BY <1>2, DecidedNone
<1> QED BY <1>2, <1>3, <1>4 DEF JobInv

LEMMA JobVerifies == ASSUME JobInv, ApplyVerify PROVE JobInv'
<1> DEFINE b == job.batch
           asked == DOMAIN b.verify
           same == {p \in asked : Look(p) = b.verify[p]}
<1>1. /\ job # None /\ asked \cap job.todo # {}
      /\ job' = [job EXCEPT !.todo = @ \ asked, !.accepted = same, !.conflicts = asked \ same]
  BY DEF ApplyVerify
<1>2. DOMAIN job = JobFields /\ Sound(b) /\ Decided(b, job.todo, job)
  BY <1>1 DEF JobInv
<1>3. job.todo = Agenda(b)
  BY <1>1, <1>2 DEF Decided
<1> HIDE DEF same
<1>4. /\ DOMAIN job' = JobFields /\ job'.batch = b /\ job'.todo = job.todo \ DOMAIN b.verify
      /\ job'.accepted = same /\ job'.conflicts = DOMAIN b.verify \ same
      /\ job'.removed = job.removed /\ job'.pruned = job.pruned
  BY <1>1, <1>2 DEF JobFields
<1>5. same \in SUBSET DOMAIN b.verify
  BY DEF same
<1>6. Decided(b, job.todo \ DOMAIN b.verify, job')
  <2> HIDE DEF b
  <2> QED BY <1>2, <1>3, <1>4, <1>5, DecidedVerify
<1> QED BY <1>2, <1>4, <1>6 DEF JobInv

LEMMA JobFiles == ASSUME JobInv, NEW p \in Paths, ApplyFile(p) PROVE JobInv'
<1> DEFINE b == job.batch
<1>1. job # None /\ p \in DOMAIN b.files \cap job.todo /\ DOMAIN b.verify \cap job.todo = {}
  BY Turns DEF ApplyFile
<1>2. DOMAIN job = JobFields /\ Sound(b) /\ Decided(b, job.todo, job)
  BY <1>1 DEF JobInv
<1>3. \/ job' = [Rest(p) EXCEPT !.accepted = @ \cup {p}]
      \/ job' = [Rest(p) EXCEPT !.conflicts = @ \cup {p}]
  BY DEF ApplyFile, Conflict
<1>4. /\ DOMAIN job' = JobFields /\ job'.batch = b /\ job'.todo = job.todo \ {p}
      /\ job'.removed = job.removed /\ job'.pruned = job.pruned
      /\ \/ job'.accepted = job.accepted \cup {p} /\ job'.conflicts = job.conflicts
         \/ job'.accepted = job.accepted /\ job'.conflicts = job.conflicts \cup {p}
  BY <1>2, <1>3 DEF JobFields, Rest
<1>5. Decided(b, job.todo \ {p}, job')
  <2> HIDE DEF b
  <2> QED BY <1>1, <1>2, <1>4, DecidedFile
<1> QED BY <1>2, <1>4, <1>5 DEF JobInv

LEMMA JobDeletes == ASSUME JobInv, NEW p \in Paths, ApplyDelete(p) PROVE JobInv'
<1> DEFINE b == job.batch
<1>1. job # None /\ p \in DOMAIN b.delete \cap job.todo /\ Written(b) \cap job.todo = {}
  BY Turns DEF ApplyDelete
<1>2. DOMAIN job = JobFields /\ Sound(b) /\ Decided(b, job.todo, job)
  BY <1>1 DEF JobInv
<1>3. \/ job' = [Rest(p) EXCEPT !.removed = @ \cup {p}]
      \/ job' = [Rest(p) EXCEPT !.conflicts = @ \cup {p}]
  BY DEF ApplyDelete, Conflict
<1>4. /\ DOMAIN job' = JobFields /\ job'.batch = b /\ job'.todo = job.todo \ {p}
      /\ job'.accepted = job.accepted /\ job'.pruned = job.pruned
      /\ \/ job'.removed = job.removed \cup {p} /\ job'.conflicts = job.conflicts
         \/ job'.removed = job.removed /\ job'.conflicts = job.conflicts \cup {p}
  BY <1>2, <1>3 DEF JobFields, Rest
<1>5. Decided(b, job.todo \ {p}, job')
  <2> HIDE DEF b
  <2> QED BY <1>1, <1>2, <1>4, DecidedDelete
<1> QED BY <1>2, <1>4, <1>5 DEF JobInv

LEMMA JobPrunes == ASSUME JobInv, NEW r \in Paths, ApplyPrune(r) PROVE JobInv'
<1> DEFINE b == job.batch
           below == Below(r) \cap DOMAIN b.delete
<1>1. job # None /\ r \in b.prune \cap job.todo /\ Named(b) \cap job.todo = {}
  BY Turns DEF ApplyPrune
<1>2. DOMAIN job = JobFields /\ Sound(b) /\ Decided(b, job.todo, job)
  BY <1>1 DEF JobInv
<1>3. \/ below \subseteq job.removed /\ job' = [Rest(r) EXCEPT !.pruned = @ \cup {r}]
      \/ job' = [Rest(r) EXCEPT !.conflicts = @ \cup {r}, !.removed = @ \ below]
  BY DEF ApplyPrune, Cleared, Retracted, Descendants
<1> HIDE DEF below
<1>4. /\ DOMAIN job' = JobFields /\ job'.batch = b /\ job'.todo = job.todo \ {r}
      /\ job'.accepted = job.accepted
      /\ \/ /\ below \subseteq job.removed /\ job'.pruned = job.pruned \cup {r}
            /\ job'.removed = job.removed /\ job'.conflicts = job.conflicts
         \/ /\ job'.pruned = job.pruned /\ job'.removed = job.removed \ below
            /\ job'.conflicts = job.conflicts \cup {r}
  BY <1>2, <1>3 DEF JobFields, Rest
<1>5. below = Below(r) \cap DOMAIN b.delete
  BY DEF below
<1>6. Decided(b, job.todo \ {r}, job')
  <2> HIDE DEF b
  <2> QED BY <1>1, <1>2, <1>4, <1>5, DecidedPrune
<1> QED BY <1>2, <1>4, <1>6 DEF JobInv

LEMMA JobKept == ASSUME JobInv, job' = job \/ job' = None PROVE JobInv'
BY DEF JobInv, Sound, Decided

LEMMA JobStep ==
  ASSUME JobInv, MessageInv, [Next]_vars
  PROVE  JobInv'
<1>1. ASSUME job' = job PROVE JobInv'
  BY <1>1, JobKept
<1>2. ASSUME job' = None PROVE JobInv'
  BY <1>2, JobKept
<1> QED
  BY <1>1, <1>2, JobBegins, JobVerifies, JobFiles, JobDeletes, JobPrunes
  DEF Next, vars, receiver, Collect, StartCollect, FinishCollect, Save, Send, Retry, Transmit,
      Adopt, Acknowledge, Receive, Apply, Answer, EditSource, Touch, SenderCrash, ReceiverCrash,
      Interrupted, Abandon, Lose

\* When nothing is left to do, the answer is complete.
LEMMA AnswerComplete ==
  ASSUME JobInv, Answer
  PROVE  \E r : /\ replies' = replies \cup {r} /\ Sound(r.batch) /\ Complete(r.batch, r)
                /\ r.batch = job.batch /\ r.accepted = job.accepted
<1> DEFINE r == [batch |-> job.batch, accepted |-> job.accepted, removed |-> job.removed,
                 pruned |-> job.pruned, conflicts |-> job.conflicts]
<1>1. job # None /\ job.todo = {} /\ replies' = replies \cup {r}
  BY DEF Answer
<1>2. Sound(job.batch) /\ Decided(job.batch, {}, job)
  BY <1>1 DEF JobInv
<1>3. /\ r.batch = job.batch /\ r.accepted = job.accepted /\ r.removed = job.removed
      /\ r.pruned = job.pruned /\ r.conflicts = job.conflicts
  OBVIOUS
<1> HIDE DEF r
<1>4. Complete(job.batch, r)
  <2>1. Agenda(job.batch) = Named(job.batch) \cup job.batch.prune
    BY DEF Agenda
  <2> QED BY <1>2, <1>3, <2>1 DEF Decided, Complete
<1> QED BY <1>1, <1>2, <1>3, <1>4

LEMMA MessageStep ==
  ASSUME SenderInv, JobInv, MessageInv, [Next]_vars
  PROVE  MessageInv'
<1>1. ASSUME requests' \subseteq requests, replies' \subseteq replies PROVE MessageInv'
  BY <1>1 DEF MessageInv, Sound, Complete
<1>2. ASSUME Transmit PROVE MessageInv'
  <2>1. Sound(mem.pending)
    BY <1>2 DEF Transmit, SenderInv, Fits, Matches
  <2> QED BY <1>2, <2>1 DEF Transmit, MessageInv
<1>3. ASSUME Answer PROVE MessageInv'
  <2>1. requests' = requests
    BY <1>3 DEF Answer
  <2>2. PICK r : replies' = replies \cup {r} /\ Sound(r.batch) /\ Complete(r.batch, r)
    BY <1>3, AnswerComplete
  <2> QED BY <2>1, <2>2 DEF MessageInv
<1> QED
  BY <1>1, <1>2, <1>3
  DEF Next, vars, network, Collect, StartCollect, FinishCollect, Save, Send, Retry, Adopt,
      Acknowledge, Receive, Begin, Apply, ApplyVerify, ApplyFile, ApplyDelete, ApplyPrune,
      EditSource, Touch, SenderCrash, ReceiverCrash, Interrupted, Lose

-----------------------------------------------------------------------------
(* Durability.                                                              *)
\* Outside S, what is kept as regular bytes stays kept.
Stays(S) ==
  \A p \in Paths \ S : \A V \in SUBSET Contents : Kept(may, p, V) => Kept(may', p, V)

LEMMA MovesStays == ASSUME Types, NEW t, Moves(t) PROVE Stays(Changed(t))
<1>1. SUFFICES ASSUME NEW p \in Paths, p \notin Changed(t), NEW V \in SUBSET Contents,
                      Kept(may, p, V)
               PROVE  Kept(may', p, V)
  BY DEF Stays
<1>2. may[p] \subseteq V /\ \A q \in Above[p] : may[q] = {Dir}
  BY <1>1 DEF Kept
<1>3. \A q \in Above[p] : q \in Paths /\ Above[q] \subseteq Above[p]
  BY PathFacts
<1>4. t[p] = mirror[p] /\ t[p] \in V /\ t[p] # Missing
  BY <1>1, <1>2, ContentAssumption DEF Changed, Types
<1>5. \A q \in Above[p] : t[q] = Dir
  BY <1>4 DEF Moves, WellFormed
<1>6. \A q \in Paths : \/ may'[q] = {t[q]}
                       \/ may'[q] = {Missing} /\ \E g \in Above[q] : t[g] # Dir
                       \/ may'[q] = may[q] \cup {t[q]}
  BY DEF Moves, Spread
<1>7. may'[p] \subseteq V
  BY <1>2, <1>4, <1>5, <1>6
<1>8. ASSUME NEW q \in Above[p] PROVE may'[q] = {Dir}
  <2>1. \A g \in Above[q] : t[g] = Dir
    BY <1>3, <1>5
  <2>2. may'[q] = {t[q]} \/ may'[q] = may[q] \cup {t[q]}
    BY <1>3, <1>6, <2>1
  <2> QED BY <1>2, <1>5, <2>2
<1> QED BY <1>7, <1>8 DEF Kept

LEMMA AbandonStays ==
  ASSUME Types, NEW t \in [Paths -> Values], NEW u \in [Paths -> Values],
         WellFormed(t), WellFormed(u), Abandon(t, u)
  PROVE  Stays(Changed(u) \cup Changed(t))
<1>1. SUFFICES ASSUME NEW p \in Paths, p \notin Changed(u), p \notin Changed(t),
                      NEW V \in SUBSET Contents, Kept(may, p, V)
               PROVE  Kept(may', p, V)
  BY DEF Stays
<1>2. may[p] \subseteq V /\ \A q \in Above[p] : may[q] = {Dir}
  BY <1>1 DEF Kept
<1>3. mirror[p] \in V /\ t[p] = mirror[p] /\ u[p] = mirror[p] /\ mirror[p] # Missing
  BY <1>1, <1>2, ContentAssumption DEF Changed, Types
<1>4. \A q \in Above[p] : q \in Paths /\ t[q] = Dir /\ u[q] = Dir
  BY <1>3, PathFacts DEF WellFormed
<1>5. \A q \in Paths : may'[q] = may[q] \cup {u[q]} \cup {t[q]}
  BY DEF Abandon, Unsynced
<1> QED BY <1>2, <1>3, <1>4, <1>5 DEF Kept

LEMMA CrashStays == ASSUME Types, ReceiverCrash PROVE Stays({})
<1>1. PICK left \in [Paths -> UNION {may[q] : q \in Paths}] :
        (\A p \in Paths : left[p] \in may[p]) /\ mirror' = Reachable(left)
  BY DEF ReceiverCrash
<1>2. may' = [p \in Paths |-> {mirror'[p]}]
  BY DEF ReceiverCrash
<1>3. SUFFICES ASSUME NEW p \in Paths, NEW V \in SUBSET Contents, Kept(may, p, V)
               PROVE  Kept(may', p, V)
  BY DEF Stays
<1>4. may[p] \subseteq V /\ \A q \in Above[p] : may[q] = {Dir}
  BY <1>3 DEF Kept
<1>5. \A q \in Above[p] : q \in Paths /\ Above[q] \subseteq Above[p] /\ left[q] = Dir
  BY <1>1, <1>4, PathFacts
<1>6. mirror'[p] = left[p] /\ \A q \in Above[p] : mirror'[q] = Dir
  BY <1>1, <1>5 DEF Reachable
<1> QED BY <1>1, <1>2, <1>4, <1>5, <1>6 DEF Kept

LEMMA StillStays == ASSUME may' = may PROVE \A S : Stays(S)
BY DEF Stays

LEMMA SupersededType ==
  ASSUME SenderInv PROVE \A p \in Paths : Superseded(p) \subseteq Contents
BY BatchParts DEF SenderInv, Fits, Matches, Sound, Superseded

\* A step that leaves both checkpoints alone keeps what is durable, if it
\* marks as loose all it disturbs, and what it accepts is kept already.
LEMMA DurableFrame ==
  ASSUME Types, SenderInv, JobInv, MessageInv, DurableInv, mem' = mem, disk' = disk,
         NEW ok, NEW gone, NEW S, Stays(S),
         gone = {} \/ (Awaited /\ gone = ok), job = None => ok = {},
         (loose \cup S) \ gone \subseteq loose',
         \A p \in ok : p \in Written(job.batch) /\ Kept(may', p, {Identity(job.batch, p)}),
         \A r \in replies' : \/ r \in replies
                             \/ job # None /\ r.batch = job.batch /\ r.accepted = job.accepted,
         job' # None => \/ /\ job # None /\ job'.batch = job.batch
                           /\ job'.accepted \subseteq job.accepted \cup ok
                        \/ job'.accepted = {}
  PROVE  DurableInv'
<1>1. ASSUME NEW c, c = mem \/ c = disk, NEW p \in DOMAIN c.known, p \notin loose'
      PROVE  Kept(may', p, {c.known[p]} \cup Superseded(p))
  <2>1. Retains(c) /\ p \in Paths /\ c.known[p] \in Contents
    BY <1>1 DEF SenderInv, Retains
  <2>2. CASE p \notin loose \cup S
    <3>1. Kept(may, p, {c.known[p]} \cup Superseded(p))
      BY <1>1, <2>2 DEF DurableInv, Claim
    <3>2. {c.known[p]} \cup Superseded(p) \in SUBSET Contents
      BY <2>1, SupersededType
    <3> QED BY <2>1, <2>2, <3>1, <3>2 DEF Stays
  <2>3. CASE p \in loose \cup S
    <3>1. Awaited /\ p \in ok
      BY <1>1, <2>3
    <3>2. c = disk /\ job.batch = disk.pending
      BY <1>1, <3>1 DEF Awaited, Current
    <3>3. p \in Written(job.batch) /\ Kept(may', p, {Identity(job.batch, p)})
      BY <3>1
    <3>4. Identity(job.batch, p) \in {c.known[p]} \cup Superseded(p)
      <4>1. Sound(job.batch) /\ disk.pending # None
        BY <3>1, <3>2, NoneAssumption DEF JobInv, Sound
      <4>2. Matches(disk.pending, disk)
        BY <4>1 DEF SenderInv, Fits
      <4>3. CASE p \in DOMAIN disk.pending.files
        BY <3>2, <4>1, <4>3 DEF Identity, Superseded
      <4>4. CASE p \notin DOMAIN disk.pending.files
        BY <3>2, <3>3, <4>2, <4>4 DEF Identity, Written, Matches
      <4> QED BY <4>3, <4>4
    <3> QED BY <3>3, <3>4 DEF Kept
  <2> QED BY <2>2, <2>3
<1>2. \A p : Superseded(p)' = Superseded(p)
  BY DEF Superseded
<1>3. Claim(mem)' /\ Claim(disk)'
  <2>1. Claim(mem)'
    BY <1>1, <1>2 DEF Claim
  <2>2. Claim(disk)'
    BY <1>1, <1>2 DEF Claim
  <2> QED BY <2>1, <2>2
<1>4. Settled'
  <2>1. SUFFICES ASSUME Adopted,
                        NEW p \in DOMAIN mem.known, p \notin loose', p \in DOMAIN disk.pending.files
                 PROVE  mem.known[p] = disk.pending.files[p].sha
    BY DEF Settled, Adopted
  <2>2. ~Awaited
    BY <2>1 DEF Awaited, Adopted
  <2>3. p \notin loose
    BY <2>1, <2>2
  <2> QED BY <2>1, <2>3 DEF DurableInv, Settled
\* What x has accepted is kept, if it was or has just been accepted.
<1>5. ASSUME NEW x, disk.pending # None, x.batch = disk.pending, x.accepted \subseteq Paths,
             \A p \in x.accepted \ loose : Kept(may, p, {Identity(x.batch, p)}),
             \A p \in x.accepted : Identity(x.batch, p) \in Contents,
             NEW p \in x.accepted, p \notin loose'
      PROVE  Kept(may', p, {Identity(x.batch, p)})
  <2>1. CASE p \notin loose \cup S
    <3>1. {Identity(x.batch, p)} \in SUBSET Contents /\ Kept(may, p, {Identity(x.batch, p)})
      BY <1>5, <2>1
    <3> QED BY <1>5, <2>1, <3>1 DEF Stays
  <2>2. CASE p \in loose \cup S
    BY <1>5, <2>2 DEF Awaited, Current
  <2> QED BY <2>1, <2>2
<1>6. ASSUME NEW b, Sound(b) PROVE Written(b) \subseteq Paths /\ \A p \in Written(b) : Identity(b, p) \in Contents
  BY <1>6, BatchParts DEF Sound, Written, Identity
<1>7. ASSUME NEW r \in replies PROVE Holds(r)'
  <2>1. Sound(r.batch) /\ r.accepted \subseteq Written(r.batch) /\ Holds(r)
    BY DEF MessageInv, Complete, DurableInv
  <2>2. r.accepted \subseteq Paths /\ \A p \in r.accepted : Identity(r.batch, p) \in Contents
    BY <1>6, <2>1
  <2>3. ASSUME disk.pending # None, r.batch = disk.pending, NEW p \in r.accepted, p \notin loose'
        PROVE  Kept(may', p, {Identity(r.batch, p)})
    BY <1>5, <2>1, <2>2, <2>3 DEF Holds
  <2> QED BY <2>3 DEF Holds, Identity
<1>8. ASSUME job # None, disk.pending # None, job.batch = disk.pending,
             NEW p \in job.accepted, p \notin loose'
      PROVE  Kept(may', p, {Identity(job.batch, p)})
  <2>1. Sound(job.batch) /\ job.accepted \subseteq Written(job.batch) /\ Holds(job)
    BY <1>8 DEF JobInv, Decided, DurableInv
  <2>2. job.accepted \subseteq Paths /\ \A q \in job.accepted : Identity(job.batch, q) \in Contents
    BY <1>6, <2>1
  <2> QED BY <1>5, <1>8, <2>1, <2>2 DEF Holds
<1>9. \A r \in replies' : Holds(r)'
  <2>1. SUFFICES ASSUME NEW r \in replies', r \notin replies PROVE Holds(r)'
    BY <1>7
  <2>2. job # None /\ r.batch = job.batch /\ r.accepted = job.accepted
    BY <2>1
  <2> QED BY <1>8, <2>2 DEF Holds, Identity
<1>10. job' # None => Holds(job)'
  <2>1. CASE job'.accepted = {}
    BY <2>1 DEF Holds
  <2>2. CASE /\ job # None /\ job'.batch = job.batch
             /\ job'.accepted \subseteq job.accepted \cup ok
    <3>1. ASSUME disk.pending # None, job.batch = disk.pending, NEW p \in job'.accepted, p \notin loose'
          PROVE  Kept(may', p, {Identity(job.batch, p)})
      BY <1>8, <2>2, <3>1
    <3> QED BY <2>2, <3>1 DEF Holds, Identity
  <2> QED BY <2>1, <2>2
<1> QED BY <1>3, <1>4, <1>9, <1>10 DEF DurableInv

\* Steps that leave both checkpoints and the receiver's marks alone.
LEMMA DurableBesides ==
  ASSUME Types, SenderInv, JobInv, MessageInv, DurableInv, mem' = mem, disk' = disk,
         may' = may \/ ReceiverCrash, loose' = loose, replies' \subseteq replies,
         job' = job \/ job' = None
  PROVE  DurableInv'
<1> DEFINE none == {}
<1>1. Stays(none) /\ \A p \in none : p \in Written(job.batch) /\ Kept(may', p, {Identity(job.batch, p)})
  BY StillStays, CrashStays
<1>2. none = {} /\ (loose \cup none) \ none \subseteq loose'
  OBVIOUS
<1>3. \A r \in replies' : \/ r \in replies
                          \/ job # None /\ r.batch = job.batch /\ r.accepted = job.accepted
  OBVIOUS
<1>4. job' # None => \/ /\ job # None /\ job'.batch = job.batch
                        /\ job'.accepted \subseteq job.accepted \cup none
                     \/ job'.accepted = {}
  OBVIOUS
<1> HIDE DEF none
<1> QED BY <1>1, <1>2, <1>3, <1>4, DurableFrame, ZenonT(60)

LEMMA DurableBegins ==
  ASSUME Types, SenderInv, JobInv, MessageInv, DurableInv, NEW b \in requests, Begin(b)
  PROVE  DurableInv'
<1>1. mem' = mem /\ disk' = disk /\ may' = may /\ loose' = loose /\ replies' = replies
      /\ job'.accepted = {}
  BY DEF Begin, sender
<1>2. Stays({})
  BY <1>1, StillStays
<1>3. (loose \cup {}) \ {} \subseteq loose'
  BY <1>1
<1> QED BY <1>1, <1>2, <1>3, DurableFrame

LEMMA DurableAnswers ==
  ASSUME Types, SenderInv, JobInv, MessageInv, DurableInv, Answer
  PROVE  DurableInv'
<1>1. mem' = mem /\ disk' = disk /\ may' = may /\ loose' = loose /\ job' = None /\ job # None
  BY DEF Answer, sender
<1>2. \A r \in replies' : r \in replies \/ (r.batch = job.batch /\ r.accepted = job.accepted)
  BY AnswerComplete
<1>3. Stays({})
  BY <1>1, StillStays
<1>4. (loose \cup {}) \ {} \subseteq loose'
  BY <1>1
<1> QED BY <1>1, <1>2, <1>3, <1>4, DurableFrame

\* Verification syncs what it finds equal.
LEMMA DurableVerifies ==
  ASSUME Types, SenderInv, JobInv, MessageInv, DurableInv, ApplyVerify
  PROVE  DurableInv'
<1> DEFINE b == job.batch
           same == {p \in DOMAIN b.verify : Look(p) = b.verify[p]}
           gone == IF Awaited THEN same ELSE {}
<1>1. /\ job # None /\ mem' = mem /\ disk' = disk /\ replies' = replies /\ mirror' = mirror
      /\ job' = [job EXCEPT !.todo = @ \ DOMAIN b.verify, !.accepted = same,
                            !.conflicts = DOMAIN b.verify \ same]
      /\ may' = Synced(may, mirror, same) /\ loose' = loose \ gone
  BY DEF ApplyVerify, sender, network
<1>2. DOMAIN job = JobFields /\ Sound(b)
  BY <1>1 DEF JobInv
<1>3. Moves(mirror)
  <2> HIDE DEF same
  <2> QED BY <1>1, VerifiedSpread DEF Moves, Types
<1>4. Stays(Changed(mirror)) /\ Changed(mirror) = {}
  BY <1>3, MovesStays DEF Changed
<1>5. ASSUME NEW p \in same PROVE p \in Written(b) /\ Kept(may', p, {Identity(b, p)})
  <2>1. p \in DOMAIN b.verify /\ p \in Paths /\ b.verify[p] \in Contents /\ p \notin DOMAIN b.files
    BY <1>2, BatchParts DEF Sound, Valid
  <2>2. Look(p) = b.verify[p] /\ Look(p) # Special
    BY <2>1, ContentAssumption
  <2>3. mirror[p] = b.verify[p] /\ mirror[p] # Missing
    BY <2>1, <2>2, LookMeans, ContentAssumption
  <2>4. \A q \in Above[p] : mirror[q] = Dir
    BY <2>1, <2>3 DEF Types, WellFormed
  <2>5. same \in SUBSET Paths
    BY <1>2, BatchParts DEF Sound
  <2>6. may'[p] = {mirror[p]} /\ \A q \in Above[p] : may'[q] = {mirror[q]}
    <3> HIDE DEF same
    <3> QED BY <1>1, <1>5, <2>5, SyncedItem
  <2> QED BY <2>1, <2>3, <2>4, <2>6 DEF Written, Identity, Kept
<1> HIDE DEF same
<1>6. job'.batch = job.batch /\ job'.accepted = same
  BY <1>1, <1>2 DEF JobFields
<1>7. gone = {} \/ (Awaited /\ gone = same)
  OBVIOUS
<1>8. (loose \cup Changed(mirror)) \ gone \subseteq loose'
  BY <1>1, <1>4
<1>9. job = None => same = {}
  BY <1>1
<1>10. \A r \in replies' : \/ r \in replies
                           \/ job # None /\ r.batch = job.batch /\ r.accepted = job.accepted
  BY <1>1
<1>11. job' # None => \/ /\ job # None /\ job'.batch = job.batch
                         /\ job'.accepted \subseteq job.accepted \cup same
                      \/ job'.accepted = {}
  BY <1>1, <1>6
<1> HIDE DEF gone
<1> QED BY <1>1, <1>4, <1>5, <1>7, <1>8, <1>9, <1>10, <1>11, DurableFrame

\* Writing and deleting: a change is loose unless it is synced and accepted.
LEMMA DurableDone ==
  ASSUME Types, SenderInv, JobInv, MessageInv, DurableInv, job # None, mem' = mem, disk' = disk,
         replies' = replies, job'.batch = job.batch, NEW t, Moves(t), NEW p, NEW ok, Done(p, t, ok),
         \A q \in ok : q \in Written(job.batch) /\ Kept(may', q, {Identity(job.batch, q)}),
         job'.accepted \subseteq job.accepted \cup ok
  PROVE  DurableInv'
<1> DEFINE gone == IF Awaited THEN ok ELSE {}
<1>1. Stays(Changed(t))
  BY MovesStays
<1>2. (loose \cup Changed(t)) \ gone \subseteq loose'
  BY DEF Done
<1>3. gone = {} \/ (Awaited /\ gone = ok)
  OBVIOUS
<1>4. \A r \in replies' : \/ r \in replies
                          \/ job # None /\ r.batch = job.batch /\ r.accepted = job.accepted
  OBVIOUS
<1>5. job' # None => \/ /\ job # None /\ job'.batch = job.batch
                        /\ job'.accepted \subseteq job.accepted \cup ok
                     \/ job'.accepted = {}
  OBVIOUS
<1> HIDE DEF gone
<1> QED BY <1>1, <1>2, <1>3, <1>4, <1>5, DurableFrame

LEMMA DurableStill ==
  ASSUME Types, SenderInv, JobInv, MessageInv, DurableInv, job # None, mem' = mem, disk' = disk,
         replies' = replies, job'.batch = job.batch, may' = may, loose' = loose,
         job'.accepted = job.accepted
  PROVE  DurableInv'
<1>1. Stays({})
  BY StillStays
<1>2. (loose \cup {}) \ {} \subseteq loose'
  OBVIOUS
<1>3. job' # None => \/ /\ job # None /\ job'.batch = job.batch
                        /\ job'.accepted \subseteq job.accepted \cup {}
                     \/ job'.accepted = {}
  OBVIOUS
<1> QED BY <1>1, <1>2, <1>3, DurableFrame

LEMMA DurableFiles ==
  ASSUME Types, SenderInv, JobInv, MessageInv, DurableInv, NEW p \in Paths, ApplyFile(p)
  PROVE  DurableInv'
<1>1. job # None /\ mem' = mem /\ disk' = disk /\ replies' = replies /\ p \in DOMAIN job.batch.files
  BY Turns DEF ApplyFile, sender, network
<1>2. DOMAIN job = JobFields /\ Sound(job.batch)
  BY <1>1 DEF JobInv
<1>3. CASE ~FileFits(p)
  <2>1. may' = may /\ loose' = loose /\ job' = [Rest(p) EXCEPT !.conflicts = @ \cup {p}]
    BY <1>3 DEF ApplyFile, Conflict
  <2>2. job'.batch = job.batch /\ job'.accepted = job.accepted
    BY <1>2, <2>1 DEF Rest, JobFields
  <2> QED BY <1>1, <2>1, <2>2, DurableStill
<1>4. CASE FileFits(p)
  <2> DEFINE t == Replaced(p)
             v == job.batch.files[p].sha
  <2>1. Done(p, t, {p}) /\ job' = [Rest(p) EXCEPT !.accepted = @ \cup {p}]
    BY <1>4 DEF ApplyFile
  <2>2. job'.batch = job.batch /\ job'.accepted = job.accepted \cup {p}
    BY <1>2, <2>1 DEF Rest, JobFields
  <2>3. Moves(t)
    BY <1>4, FileMoves
  <2>4. t[p] = v /\ v \in Contents
    BY <1>1, <1>2, <1>4, Replacing, BatchParts DEF Sound
  <2>5. \A q \in Above[p] : t[q] = Dir
    BY <2>3, <2>4, ContentAssumption DEF Moves, WellFormed
  <2> HIDE DEF t
  <2>6. may'[p] = {t[p]} /\ \A q \in Above[p] : may'[q] = {t[q]}
    BY <2>1, SyncedItem DEF Done
  <2>7. p \in Written(job.batch) /\ Identity(job.batch, p) = v
    BY <1>1 DEF Written, Identity
  <2>8. Kept(may', p, {Identity(job.batch, p)})
    BY <2>4, <2>5, <2>6, <2>7 DEF Kept
  <2>9. \A q \in {p} : q \in Written(job.batch) /\ Kept(may', q, {Identity(job.batch, q)})
    BY <2>7, <2>8
  <2>10. job'.accepted \subseteq job.accepted \cup {p}
    BY <2>2
  <2> QED BY <1>1, <2>1, <2>2, <2>3, <2>9, <2>10, DurableDone
<1> QED BY <1>3, <1>4

LEMMA DurableDeletes ==
  ASSUME Types, SenderInv, JobInv, MessageInv, DurableInv, NEW p \in Paths, ApplyDelete(p)
  PROVE  DurableInv'
<1>1. job # None /\ mem' = mem /\ disk' = disk /\ replies' = replies
  BY Turns DEF ApplyDelete, sender, network
<1>2. DOMAIN job = JobFields
  BY <1>1 DEF JobInv
<1>3. CASE ~DeleteFits(p)
  <2>1. may' = may /\ loose' = loose /\ job' = [Rest(p) EXCEPT !.conflicts = @ \cup {p}]
    BY <1>3 DEF ApplyDelete, Conflict
  <2>2. job'.batch = job.batch /\ job'.accepted = job.accepted
    BY <1>2, <2>1 DEF Rest, JobFields
  <2> QED BY <1>1, <2>1, <2>2, DurableStill
<1>4. CASE DeleteFits(p)
  <2>1. Done(p, Put(mirror, p, Missing), {}) /\ job' = [Rest(p) EXCEPT !.removed = @ \cup {p}]
    BY <1>4 DEF ApplyDelete
  <2>2. job'.batch = job.batch /\ job'.accepted = job.accepted
    BY <1>2, <2>1 DEF Rest, JobFields
  <2>3. Moves(Put(mirror, p, Missing))
    BY <1>4, DeleteMoves
  <2>4. \A q \in {} : q \in Written(job.batch) /\ Kept(may', q, {Identity(job.batch, q)})
    OBVIOUS
  <2>5. job'.accepted \subseteq job.accepted \cup {}
    BY <2>2
  <2> QED BY <1>1, <2>1, <2>2, <2>3, <2>4, <2>5, DurableDone
<1> QED BY <1>3, <1>4

LEMMA DurablePrunes ==
  ASSUME Types, SenderInv, JobInv, MessageInv, DurableInv, NEW r \in Paths, ApplyPrune(r)
  PROVE  DurableInv'
<1>1. job # None /\ mem' = mem /\ disk' = disk /\ replies' = replies
  BY Turns DEF ApplyPrune, sender, network
<1>2. DOMAIN job = JobFields
  BY <1>1 DEF JobInv
<1>3. job'.batch = job.batch /\ job'.accepted = job.accepted
  BY <1>2 DEF ApplyPrune, Retracted, Rest, JobFields
<1>4. CASE Cleared(r) = {}
  BY <1>1, <1>3, <1>4, DurableStill DEF ApplyPrune
<1>5. CASE Cleared(r) # {}
  <2>1. Done(r, Without(Cleared(r)), {})
    BY <1>5 DEF ApplyPrune
  <2>2. Moves(Without(Cleared(r)))
    BY <1>5, PruneMoves
  <2>3. \A q \in {} : q \in Written(job.batch) /\ Kept(may', q, {Identity(job.batch, q)})
    OBVIOUS
  <2>4. job'.accepted \subseteq job.accepted \cup {}
    BY <1>3
  <2> QED BY <1>1, <1>3, <2>1, <2>2, <2>3, <2>4, DurableDone
<1> QED BY <1>4, <1>5

\* Another writer and an interrupted exchange loosen what they change.
LEMMA DurableLoosens ==
  ASSUME Types, SenderInv, JobInv, MessageInv, DurableInv, mem' = mem, disk' = disk,
         replies' = replies, job' = job \/ job' = None, NEW S, Stays(S),
         loose' = loose \cup S
  PROVE  DurableInv'
<1> DEFINE no == {}
<1>2. (loose \cup S) \ no \subseteq loose'
  OBVIOUS
<1>3. \A r \in replies' : \/ r \in replies
                          \/ job # None /\ r.batch = job.batch /\ r.accepted = job.accepted
  OBVIOUS
<1>4. job' # None => \/ /\ job # None /\ job'.batch = job.batch
                        /\ job'.accepted \subseteq job.accepted \cup no
                     \/ job'.accepted = {}
  OBVIOUS
<1>5. \A q \in no : q \in Written(job.batch) /\ Kept(may', q, {Identity(job.batch, q)})
  OBVIOUS
<1>6. (job = None => no = {}) /\ no = {}
  OBVIOUS
<1> HIDE DEF no
<1> QED BY <1>2, <1>3, <1>4, <1>5, <1>6, DurableFrame

\* Saving a batch that nobody holds, or the receipt of the one on disk.
LEMMA DurableSaves ==
  ASSUME Types, SenderInv, DurableInv, Save
  PROVE  DurableInv'
<1>0. /\ mem' = mem /\ disk' = mem /\ disk # mem /\ may' = may /\ loose' = loose
      /\ replies' = replies /\ job' = job
  BY DEF Save, receiver, network
<1>1. Settled'
  BY <1>0 DEF Settled, Adopted
<1>2. Unsaved \/ Adopted
  BY <1>0 DEF SenderInv, Saved
<1>3. ASSUME NEW p \in DOMAIN mem.known, p \notin loose
      PROVE  Kept(may, p, {mem.known[p]} \cup Superseded(p)')
  <2>1. Kept(may, p, {mem.known[p]} \cup Superseded(p))
    BY <1>3 DEF DurableInv, Claim
  <2>2. {mem.known[p]} \cup Superseded(p) \subseteq {mem.known[p]} \cup Superseded(p)'
    <3>1. CASE Unsaved
      BY <3>1 DEF Unsaved, Superseded
    <3>2. CASE Adopted
      BY <1>3, <3>2 DEF Adopted, DurableInv, Settled, Superseded
    <3> QED BY <1>2, <3>1, <3>2
  <2> QED BY <2>1, <2>2 DEF Kept
<1>4. Claim(mem)' /\ Claim(disk)'
  <2>1. Claim(mem)'
    BY <1>0, <1>3 DEF Claim
  <2>2. Claim(disk)'
    BY <1>0, <1>3 DEF Claim
  <2> QED BY <2>1, <2>2
<1>5. \A r \in replies : mem.pending = None \/ r.batch # mem.pending
  BY <1>2 DEF Unsaved, Adopted, Flying
<1>6. job # None => mem.pending = None \/ job.batch # mem.pending
  BY <1>2 DEF Unsaved, Adopted, Flying
<1>7. \A r \in replies' : Holds(r)'
  BY <1>0, <1>5 DEF Holds
<1>8. job' # None => Holds(job)'
  BY <1>0, <1>6 DEF Holds
<1> QED BY <1>1, <1>4, <1>7, <1>8 DEF DurableInv

\* Adopting a receipt: what was accepted is kept, what was in conflict is loose.
LEMMA DurableAdopts ==
  ASSUME Types, SenderInv, MessageInv, DurableInv, NEW r \in replies, Acknowledge(r),
         mem.pending # None, r.batch = mem.pending, Adoptable(mem, r)
  PROVE  DurableInv'
<1>0. /\ mem' = [known |-> Learned(mem, r), cursor |-> Frontier(r.conflicts), pending |-> None]
      /\ loose' = loose \cup r.conflicts /\ disk' = disk /\ may' = may
      /\ replies' \subseteq replies /\ job' = job
  BY DEF Acknowledge
<1>1. mem = disk
  BY AdoptsSaved
<1>2. mem'.known = Learned(mem, r)
  BY <1>0
<1>3. /\ DOMAIN Learned(mem, r) = (DOMAIN mem.known \ r.removed) \cup r.accepted
      /\ \A p \in DOMAIN Learned(mem, r) :
           Learned(mem, r)[p] = IF p \in r.accepted THEN Identity(r.batch, p) ELSE mem.known[p]
  BY DEF Learned
<1>4. Written(r.batch) \subseteq r.accepted \cup r.conflicts
  BY DEF MessageInv, Complete
<1>5. \A p \in r.accepted \ loose : Kept(may, p, {Identity(r.batch, p)})
  BY <1>1 DEF DurableInv, Holds
<1>6. \A p \in DOMAIN mem.known \ loose : Kept(may, p, {mem.known[p]} \cup Superseded(p))
  BY DEF DurableInv, Claim
<1>7. \A p : Superseded(p)' = Superseded(p)
  BY <1>0 DEF Superseded
<1>8. ASSUME NEW p \in DOMAIN Learned(mem, r), p \notin loose'
      PROVE  Kept(may, p, {Learned(mem, r)[p]} \cup Superseded(p))
  <2>1. CASE p \in r.accepted
    BY <1>0, <1>3, <1>5, <1>8, <2>1 DEF Kept
  <2>2. CASE p \notin r.accepted
    BY <1>0, <1>3, <1>6, <1>8, <2>2
  <2> QED BY <2>1, <2>2
<1>9. Claim(mem)'
  BY <1>0, <1>2, <1>7, <1>8 DEF Claim
<1>10. Claim(disk)'
  <2>1. \A p \in DOMAIN disk.known \ loose : Kept(may, p, {disk.known[p]} \cup Superseded(p))
    BY DEF DurableInv, Claim
  <2> QED BY <1>0, <1>7, <2>1 DEF Claim
<1>11. Settled'
  <2>1. SUFFICES ASSUME NEW p \in DOMAIN Learned(mem, r), p \notin loose',
                        p \in DOMAIN disk.pending.files
                 PROVE  Learned(mem, r)[p] = disk.pending.files[p].sha
    BY <1>0, <1>2 DEF Settled, Adopted
  <2>2. p \in r.accepted
    BY <1>0, <1>1, <1>4, <2>1 DEF Written
  <2>3. Learned(mem, r)[p] = Identity(r.batch, p)
    BY <1>3, <2>1, <2>2
  <2> QED BY <1>1, <2>1, <2>3 DEF Identity
<1>12. \A x \in replies' : Holds(x)'
  BY <1>0 DEF DurableInv, Holds, Identity
<1>13. job' # None => Holds(job)'
  BY <1>0 DEF DurableInv, Holds, Identity
<1> QED BY <1>9, <1>10, <1>11, <1>12, <1>13 DEF DurableInv

LEMMA DurableRestarts ==
  ASSUME DurableInv, SenderCrash
  PROVE  DurableInv'
<1>0. mem' = disk /\ disk' = disk /\ may' = may /\ loose' = loose /\ replies' = replies /\ job' = job
  BY DEF SenderCrash, receiver, network
<1>1. Claim(mem)' /\ Claim(disk)'
  BY <1>0 DEF DurableInv, Claim, Superseded
<1>2. Settled'
  BY <1>0 DEF Settled, Adopted
<1>3. \A x \in replies' : Holds(x)'
  BY <1>0 DEF DurableInv, Holds, Identity
<1>4. job' # None => Holds(job)'
  BY <1>0 DEF DurableInv, Holds, Identity
<1> QED BY <1>1, <1>2, <1>3, <1>4 DEF DurableInv

LEMMA DurablePrepares ==
  ASSUME SenderInv, DurableInv, FinishCollect
  PROVE  DurableInv'
<1>0. disk' = disk /\ may' = may /\ loose' = loose /\ replies' = replies /\ job' = job /\ walk # None
  BY DEF FinishCollect, receiver, network
<1>1. disk.pending = None /\ Retains(mem)
  BY <1>0 DEF SenderInv, Collecting
<1>2. mem'.known = mem.known
  BY <1>1, Prepared DEF Retains
<1>3. Claim(mem)' /\ Claim(disk)'
  BY <1>0, <1>2 DEF DurableInv, Claim, Superseded
<1>4. Settled'
  BY <1>0, <1>1 DEF Settled, Adopted
<1>5. \A x \in replies' : Holds(x)'
  BY <1>0, <1>1 DEF Holds
<1>6. job' # None => Holds(job)'
  BY <1>0, <1>1 DEF Holds
<1> QED BY <1>3, <1>4, <1>5, <1>6 DEF DurableInv

LEMMA DurableStep ==
  ASSUME Types, SenderInv, JobInv, MessageInv, DurableInv, [Next]_vars
  PROVE  DurableInv'
<1>1. ASSUME mem' = mem, disk' = disk, may' = may, loose' = loose, replies' \subseteq replies,
             job' = job
      PROVE  DurableInv'
  BY <1>1, DurableBesides
<1>2. ASSUME NEW r \in replies, Acknowledge(r) PROVE DurableInv'
  <2>1. CASE mem.pending # None /\ r.batch = mem.pending /\ Adoptable(mem, r)
    BY <1>2, <2>1, DurableAdopts
  <2>2. CASE ~(mem.pending # None /\ r.batch = mem.pending /\ Adoptable(mem, r))
    BY <1>1, <1>2, <2>2 DEF Acknowledge
  <2> QED BY <2>1, <2>2
<1>3. ASSUME NEW p \in Paths, NEW v \in Local \cup {Missing}, Touch(p, v) PROVE DurableInv'
  <2>1. Moves(Put(mirror, p, v))
    BY <1>3, TouchMoves
  <2>2. mem' = mem /\ disk' = disk /\ replies' = replies /\ job' = job
        /\ loose' = loose \cup Changed(Put(mirror, p, v))
    BY <1>3 DEF Touch, sender, network
  <2> QED BY <2>1, <2>2, MovesStays, DurableLoosens
<1>4. ASSUME Interrupted PROVE DurableInv'
  <2>1. PICK u \in [Paths -> Values], t \in [Paths -> Values] :
               WellFormed(u) /\ WellFormed(t) /\ Abandon(t, u)
    BY <1>4, InterruptedTrees
  <2> DEFINE S == Changed(u) \cup Changed(t)
  <2>2. Stays(S)
    BY <2>1, AbandonStays
  <2>3. mem' = mem /\ disk' = disk /\ replies' = replies /\ job' = None /\ loose' = loose \cup S
    BY <1>4, <2>1 DEF Interrupted, Abandon, sender, network
  <2> HIDE DEF S
  <2> QED BY <2>2, <2>3, DurableLoosens
<1>5. ASSUME ReceiverCrash PROVE DurableInv'
  <2>1. mem' = mem /\ disk' = disk /\ replies' = replies /\ job' = None /\ loose' = loose
    BY <1>5 DEF ReceiverCrash, sender, network
  <2> QED BY <1>5, <2>1, DurableBesides
<1>6. ASSUME Apply PROVE DurableInv'
  BY <1>6, DurableVerifies, DurableFiles, DurableDeletes, DurablePrunes, DurableAnswers DEF Apply
<1>7. ASSUME Lose PROVE DurableInv'
  BY <1>1, <1>7 DEF Lose, sender, receiver
<1>8. ASSUME Transmit PROVE DurableInv'
  BY <1>1, <1>8 DEF Transmit, sender, receiver
<1>9. ASSUME StartCollect PROVE DurableInv'
  BY <1>1, <1>9 DEF StartCollect, network, receiver
<1>10. ASSUME NEW p, NEW v, EditSource(p, v) PROVE DurableInv'
  BY <1>1, <1>10 DEF EditSource, sender, network, receiver
<1>11. ASSUME UNCHANGED vars PROVE DurableInv'
  BY <1>1, <1>11 DEF vars, sender, network, receiver
<1> QED
  BY <1>2, <1>3, <1>4, <1>5, <1>6, <1>7, <1>8, <1>9, <1>10, <1>11,
     DurablePrepares, DurableSaves, DurableRestarts, DurableBegins
  DEF Next, Collect, Send, Retry, Adopt, Receive

-----------------------------------------------------------------------------
(* The invariant.                                                           *)
LEMMA InitInv == Init => IInv
<1>1. SUFFICES ASSUME Init PROVE IInv
  OBVIOUS
<1> DEFINE held == {p \in Paths : IsFile(mirror, p)}
<1>2. source \in [Paths -> SourceValues] /\ WellFormed(source)
  BY <1>1, StartAssumption DEF Init, SourceValues
<1>3. mirror \in [Paths -> SourceValues] /\ WellFormed(mirror)
  <2>1. CASE mirror = [p \in Paths |-> Missing]
    BY <2>1 DEF SourceValues, WellFormed
  <2>2. CASE mirror = source
    BY <1>2, <2>2
  <2> QED BY <1>1, <2>1, <2>2 DEF Init
<1>4. Types
  <2>1. mirror \in [Paths -> Values]
    BY <1>3 DEF SourceValues, Values
  <2>2. may = [p \in Paths |-> {mirror[p]}]
    BY <1>1 DEF Init
  <2>3. may \in [Paths -> SUBSET Values] /\ \A p \in Paths : mirror[p] \in may[p]
    BY <2>1, <2>2
  <2>4. loose \subseteq Paths /\ touched \subseteq Paths /\ edits \in Nat /\ touches \in Nat
        /\ faults \in Nat
    BY <1>1 DEF Init
  <2> QED BY <1>2, <1>3, <2>1, <2>3, <2>4 DEF Types
<1>5. /\ mem = [known |-> [p \in held |-> mirror[p]], cursor |-> {}, pending |-> None]
      /\ Cardinality(held) <= Capacity
  BY <1>1 DEF Init, NewCheckpoint
<1>6. \A p \in held : p \in Paths /\ mirror[p] \in Contents
  BY <1>3, ContentAssumption DEF IsFile, SourceValues
<1>7. \A p \in held : Above[p] \cap held = {}
  <2>1. SUFFICES ASSUME NEW p \in held, NEW q \in Above[p], q \in held PROVE FALSE
    OBVIOUS
  <2>2. mirror[p] # Missing /\ p \in Paths /\ mirror[q] # Dir
    BY <1>6, <2>1, ContentAssumption
  <2> QED BY <1>3, <2>1, <2>2 DEF WellFormed
<1> HIDE DEF held
<1>8. /\ DOMAIN mem = {"known", "cursor", "pending"} /\ DOMAIN mem.known = held
      /\ mem.known = [p \in held |-> mirror[p]] /\ mem.cursor = {} /\ mem.pending = None
  BY <1>5
<1>9. mem.known \in [held -> Contents]
  BY <1>6, <1>8
<1>10. Retains(mem)
  BY <1>5, <1>6, <1>7, <1>8, <1>9 DEF Retains
<1>11. mem = disk /\ walk = None /\ requests = {} /\ replies = {} /\ job = None /\ loose = {}
  BY <1>1 DEF Init
<1>12. SenderInv
  BY <1>8, <1>10, <1>11 DEF SenderInv, Fits, Collecting, Saved
<1>13. JobInv /\ MessageInv
  BY <1>11 DEF JobInv, MessageInv
<1>14. DurableInv
  <2>1. ASSUME NEW p \in DOMAIN mem.known PROVE Kept(may, p, {mem.known[p]} \cup Superseded(p))
    <3>1. p \in Paths /\ mem.known[p] = mirror[p] /\ mirror[p] # Missing
      BY <1>6, <1>8, <2>1, ContentAssumption
    <3>2. \A q \in Above[p] : q \in Paths /\ mirror[q] = Dir
      BY <1>3, <3>1, PathFacts DEF WellFormed
    <3>3. may = [q \in Paths |-> {mirror[q]}]
      BY <1>1 DEF Init
    <3> QED BY <3>1, <3>2, <3>3 DEF Kept
  <2>2. Claim(mem) /\ Claim(disk)
    BY <1>11, <2>1 DEF Claim
  <2>3. Settled
    BY <1>11 DEF Settled, Adopted
  <2> QED BY <1>11, <2>2, <2>3 DEF DurableInv
<1> QED BY <1>4, <1>12, <1>13, <1>14 DEF IInv

LEMMA StepInv == IInv /\ [Next]_vars => IInv'
<1>1. SUFFICES ASSUME IInv, [Next]_vars PROVE IInv'
  OBVIOUS
<1>2. Types /\ SenderInv /\ JobInv /\ MessageInv /\ DurableInv
  BY <1>1 DEF IInv
<1>3. Types' /\ SenderInv' /\ JobInv' /\ MessageInv' /\ DurableInv'
  BY <1>1, <1>2, TypesStep, SenderStep, JobStep, MessageStep, DurableStep
<1> QED BY <1>3 DEF IInv

\* The four parts of the argument hold together in every reachable state of
\* prepare, acknowledge and apply_locked (src/orchestration/evidence.rs),
\* whatever is lost, repeated, crashed or changed at either end.
THEOREM Invariance == Spec => []IInv
<1> QED BY InitInv, StepInv, PTL DEF Spec

\* Both trees stay trees, a checkpoint stays within INVENTORY_LIMIT, its
\* pending batch passes validate_batch, and the paths it knows never lie one
\* inside the other, so the next batch passes as well.
THEOREM TypeCorrect == Spec => []TypeOK
<1>1. ASSUME NEW c, Retains(c), Fits(c) PROVE Checkpoint(c)
  BY <1>1 DEF Retains, Fits, Matches, Sound, Checkpoint, Range
<1>2. ASSUME IInv PROVE TypeOK
  <2>1. Checkpoint(mem) /\ Checkpoint(disk)
    BY <1>1, <1>2 DEF IInv, SenderInv
  <2>2. WellFormed(source) /\ WellFormed(mirror) /\ loose \cup touched \subseteq Paths
    BY <1>2 DEF IInv, Types
  <2>3. \A p \in Paths : source[p] \in Values /\ may[p] \subseteq Values /\ mirror[p] \in may[p]
    BY <1>2 DEF IInv, Types, SourceValues, Values
  <2>4. \A p \in DOMAIN mem.known : Above[p] \cap DOMAIN mem.known = {}
    BY <1>2 DEF IInv, SenderInv, Retains
  <2> QED BY <2>1, <2>2, <2>3, <2>4 DEF TypeOK
<1>3. IInv => TypeOK
  BY <1>2
<1> QED BY Invariance, <1>3, PTL

\* What acknowledge has adopted is at the mirror and no crash takes it away,
\* for any number of crashes, failed syncs, lost receipts and repeated
\* exchanges, until another writer or a deletion loosens the path.
THEOREM AckedSurvives == Spec => []AckedIsDurable
<1>1. IInv => AckedIsDurable
  BY DEF IInv, DurableInv, Claim, Kept, AckedIsDurable
<1> QED BY Invariance, <1>1, PTL

\* Every receipt apply_locked gives for the pending batch decides all of it
\* and leaves the checkpoint within its bound, so acknowledge adopts it.
THEOREM ReceiptsAdopted == Spec => []ReceiptsAdoptable
<1>1. ASSUME IInv, NEW r \in replies, r.batch = mem.pending PROVE Adoptable(mem, r)
  <2>1. Complete(mem.pending, r) /\ Matches(mem.pending, mem) /\ Retains(mem)
    BY <1>1, NoneAssumption DEF IInv, MessageInv, SenderInv, Fits, Sound
  <2>2. \A p \in r.removed : p \in DOMAIN mem.known /\ mem.known[p] = mem.pending.delete[p]
    BY <2>1 DEF Complete, Matches
  <2> DEFINE D == DOMAIN mem.known \cup DOMAIN mem.pending.files
             L == DOMAIN Learned(mem, r)
  <2>3. L = (DOMAIN mem.known \ r.removed) \cup r.accepted
    BY DEF Learned
  <2>4. r.accepted \subseteq D
    BY <2>1 DEF Complete, Matches, Written
  <2>5. L \in SUBSET D /\ D \in SUBSET Paths /\ Cardinality(D) <= Capacity
    BY <2>1, <2>3, <2>4, BatchParts DEF Matches, Retains, Sound
  <2> HIDE DEF D, L
  <2>6. IsFiniteSet(D)
    BY <2>5, FinitePaths, FS_Subset, Zenon
  <2>7. IsFiniteSet(L) /\ Cardinality(L) <= Cardinality(D)
    BY <2>5, <2>6, FS_Subset, Zenon
  <2>8. Cardinality(L) \in Nat /\ Cardinality(D) \in Nat
    BY <2>6, <2>7, FS_CardinalityType, Zenon
  <2>9. Cardinality(L) <= Capacity
    BY <2>5, <2>7, <2>8, BoundAssumption
  <2> QED BY <2>1, <2>2, <2>9 DEF Adoptable, L
<1>2. IInv => ReceiptsAdoptable
  BY <1>1 DEF ReceiptsAdoptable
<1> QED BY Invariance, <1>2, PTL

\* apply_locked never overwrites, removes or retires what only another writer
\* can have left at the mirror, not even with a batch that is long over.
THEOREM ForeignSurvives == Spec => ForeignPreserved
<1> DEFINE A == touches' = touches /\ faults' = faults
                  => \A p \in Paths : mirror[p] \in Local \cup {Special} => mirror'[p] = mirror[p]
<1>1. IInv /\ [Next]_vars => [A]_vars
  BY ForeignStep DEF IInv
<1> QED BY Invariance, <1>1, PTL DEF Spec, ForeignPreserved

\* What the pending batch replaces or removes is what the saved checkpoint
\* holds as acknowledged: expected identities never go stale, whatever was
\* lost, repeated or crashed since collect_with read them.
THEOREM OnlyAckedGoes == Spec => OnlyAckedReplaced
<1> DEFINE A == job # None /\ Current /\ faults' = faults
                  => \A p \in Changed(mirror') :
                       IsFile(mirror, p) => p \in DOMAIN disk.known /\ disk.known[p] = mirror[p]
<1>1. IInv /\ [Next]_vars => [A]_vars
  BY AckedStep DEF IInv, SenderInv
<1> QED BY Invariance, <1>1, PTL DEF Spec, OnlyAckedReplaced

=============================================================================
