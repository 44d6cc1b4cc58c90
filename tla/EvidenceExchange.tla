-------------------------- MODULE EvidenceExchange --------------------------
(* src/orchestration/evidence.rs: the replication of an owner's files to a  *)
(* private mirror.                                                          *)
(*                                                                          *)
(* The sender keeps a checkpoint of the identities the receiver has         *)
(* acknowledged, collects one bounded batch from its tree, saves it, sends  *)
(* it, and adopts the receipt.  The receiver applies a batch item by item   *)
(* under an exclusive lease and answers when every item is on disk or in    *)
(* conflict.  Files change at both ends between exchanges, either process   *)
(* may die, a sync may fail half-way, and messages may be lost or late.  A  *)
(* receiver that dies while it writes leaves its staging file behind.       *)
(*                                                                          *)
(* A tree gives every path its content, Missing, Dir, or Special: a         *)
(* symlink, a checkout or an oversized file, which the sender omits and the *)
(* receiver does not touch.                                                 *)
EXTENDS Integers, Sequences, FiniteSets, Functions

CONSTANTS
  Listing,     \* the paths, in the order in which a walk meets them
  Above,       \* Above[p] is the set of directories p lies in
  Contents,    \* what the owner's files may hold
  Starts,      \* the trees it may begin with at an empty mirror
  Retained,    \* those it may begin with at a mirror that holds the same
  Staging,     \* the names of the receiver's own files beside the one it writes
  Local,       \* what a writer at the mirror may leave there
  Missing, Dir, Special, None,
  Nonces,      \* identities of exchanges
  Room,        \* files and deletions one batch may carry
  Capacity,    \* identities the checkpoint may hold
  MaxChanges,  \* changes at the source, and at the mirror by other writers
  MaxFaults    \* crashes, failed syncs and lost messages

Paths == Range(Listing)
Values == Contents \cup Local \cup {Missing, Dir, Special}

Position(p) == CHOOSE i \in DOMAIN Listing : Listing[i] = p

\* The directories a path lies in are ordered by inclusion, and a walk meets
\* each of them before what it contains.
ASSUME PathAssumption ==
  /\ Listing \in Seq(Paths) /\ IsInjective(Listing)
  /\ Above \in [Paths -> SUBSET Paths]
  /\ \A p \in Paths : \A q \in Above[p] :
       /\ Above[q] \subseteq Above[p]
       /\ Position(q) < Position(p)
       /\ \A r \in Above[p] : q = r \/ q \in Above[r] \/ r \in Above[q]
ASSUME BoundAssumption ==
  /\ Room \in Nat \ {0} /\ Capacity \in Nat
  /\ MaxChanges \in Nat /\ MaxFaults \in Nat
ASSUME ContentAssumption ==
  /\ Contents \cap Local = {} /\ Missing # Dir /\ Missing # Special /\ Dir # Special
  /\ (Contents \cup Local) \cap {Missing, Dir, Special} = {}

\* A staging file is a file: nothing lies below it.
ASSUME StagingAssumption ==
  Staging \subseteq Paths /\ \A p \in Paths : Above[p] \cap Staging = {}

VARIABLES
  source,     \* the owner's tree
  mem,        \* the checkpoint in the sender's memory
  disk,       \* the checkpoint as last saved
  walk,       \* what a collection has seen so far, or None
  requests,   \* batches on their way to the receiver
  replies,    \* receipts on their way back
  mirror,     \* the receiver's tree, as its processes see it
  may,        \* may[p]: what a crash may leave of p
  job,        \* the exchange being applied under the lease, or None
  loose,      \* paths changed, or in conflict, since a receipt the sender waits
              \* for last accepted them
  touched,    \* paths anything but the pending exchange ever changed
  edits, touches, faults

sender == <<mem, disk, walk>>
network == <<requests, replies>>
receiver == <<mirror, may, job, loose, touched>>
budgets == <<edits, touches, faults>>
vars == <<source, sender, network, receiver, budgets>>

(* Trees.                                                                   *)
Below(p) == {q \in Paths : p \in Above[q]}
IsFile(t, p) == t[p] \in Contents \cup Local
WellFormed(t) == \A p \in Paths : t[p] # Missing => \A q \in Above[p] : t[q] = Dir
ASSUME StartAssumption ==
  \A t \in Starts \cup Retained :
    /\ t \in [Paths -> Contents \cup {Missing, Dir, Special}] /\ WellFormed(t)
    /\ \A s \in Staging : t[s] = Missing

\* A path whose directory is gone is gone with it.
Reachable(t) ==
  [p \in Paths |-> IF \A q \in Above[p] : t[q] = Dir THEN t[p] ELSE Missing]

\* Writing v at p, with the directories it needs.
Put(t, p, v) ==
  Reachable([q \in Paths |-> IF q = p THEN v
                             ELSE IF q \in Above[p] /\ v # Missing THEN Dir ELSE t[q]])

Before(p, S) == {q \in S : Position(q) < Position(p)}
First(n, S) == {p \in S : Cardinality(Before(p, S)) < n}

(* The checkpoint and its batches.                                          *)
NewCheckpoint(known) == [known |-> known, cursor |-> {}, pending |-> None]
Covered(p, S) == p \in S \/ Above[p] \cap S # {}

\* Mutant: a directory acknowledged as a file is entered at once.
VisitedThrough(s, c) ==
  {p \in Paths : /\ s[p] # Missing
                 /\ \A q \in Above[p] : s[q] = Dir
                 /\ ~Covered(p, c.cursor)}

\* What walk sees in tree s: only directories that are neither acknowledged
\* as files nor waiting their turn are entered.
Visited(s, c) ==
  {p \in Paths : /\ s[p] # Missing
                 /\ \A q \in Above[p] : s[q] = Dir /\ q \notin DOMAIN c.known
                 /\ ~Covered(p, c.cursor)}
Found(s, c) == {p \in Visited(s, c) : IsFile(s, p)}

\* A file where acknowledged files lie below must wait until they are retired.
Transitions(s, c) == {p \in Found(s, c) : Below(p) \cap DOMAIN c.known # {}}
Acknowledged(s, c, p) == p \in DOMAIN c.known /\ c.known[p] = s[p]

\* The changed files a batch has room for; a new identity needs a free place
\* in the checkpoint as well.
Selected(s, c) ==
  LET changed == {p \in Found(s, c) \ Transitions(s, c) : ~Acknowledged(s, c, p)}
      places == Capacity - Cardinality(DOMAIN c.known)
  IN  First(Room, (changed \cap DOMAIN c.known) \cup First(places, changed \ DOMAIN c.known))

Walk(s, c) ==
  [files |-> [p \in Selected(s, c) |->
                [sha |-> s[p],
                 expected |-> IF p \in DOMAIN c.known THEN c.known[p] ELSE Missing]],
   verify |-> {p \in Found(s, c) \ Transitions(s, c) : Acknowledged(s, c, p)},
   transitions |-> Transitions(s, c),
   omitted |-> {p \in Visited(s, c) : s[p] = Special}]

\* The second pass looks for acknowledged paths the walk has not accounted
\* for, in the tree as it is by then.
Unaccounted(c, w) ==
  {k \in DOMAIN c.known : /\ k \notin DOMAIN w.files \cup w.verify
                          /\ ~Covered(k, w.omitted)
                          /\ ~Covered(k, c.cursor)}
Retiring(w, k) == Above[k] \cap w.transitions # {}
Blocked(t, p) == \E q \in Above[p] : t[q] \notin {Dir, Missing}
Deleted(s, c, w) ==
  {k \in Unaccounted(c, w) : Retiring(w, k) \/ s[k] \in {Missing, Dir}}
Raced(s, c, w) == \E k \in Unaccounted(c, w) : ~Retiring(w, k) /\ Blocked(s, k)

\* The outermost directories under a transition that this batch empties.
PruneRoots(c, w, deleted) ==
  LET Drained(g) == LET inside == Below(g) \cap DOMAIN c.known
                    IN  inside # {} /\ inside \subseteq deleted
      full == {g \in Paths : Covered(g, w.transitions) /\ Drained(g)}
  IN  {g \in full : Above[g] \cap full = {}}

Batch(s, c, w, nonce) ==
  LET deleted == First(Room - Cardinality(DOMAIN w.files), Deleted(s, c, w))
  IN  [id |-> nonce, files |-> w.files,
       verify |-> [p \in w.verify |-> c.known[p]],
       delete |-> [p \in deleted |-> c.known[p]],
       prune |-> PruneRoots(c, w, deleted)]

\* A batch names a path once, never a path and one below it, and retires only
\* directories it deletes something in and writes nothing to.
Written(b) == DOMAIN b.files \cup DOMAIN b.verify
Named(b) == Written(b) \cup DOMAIN b.delete
Valid(b) ==
  /\ DOMAIN b.files \cap DOMAIN b.verify = {}
  /\ Written(b) \cap DOMAIN b.delete = {}
  /\ \A p \in Named(b) : Above[p] \cap Named(b) = {}
  /\ \A r \in b.prune : /\ Below(r) \cap DOMAIN b.delete # {}
                        /\ Above[r] \cap b.prune = {}
                        /\ \A p \in Written(b) : ~Covered(p, {r}) /\ ~Covered(r, {p})

\* acknowledge takes only a receipt that decides every item of the batch.
Complete(b, r) ==
  LET failed == b.prune \cap r.conflicts
  IN  /\ r.accepted \subseteq Written(b) /\ r.removed \subseteq DOMAIN b.delete
      /\ r.pruned \subseteq b.prune
      /\ r.conflicts \subseteq Named(b) \cup b.prune
      /\ r.conflicts \cap (r.accepted \cup r.removed \cup r.pruned) = {}
      /\ Written(b) \subseteq r.accepted \cup r.conflicts
      /\ b.prune \subseteq r.pruned \cup r.conflicts
      /\ \A p \in DOMAIN b.delete \ (r.removed \cup r.conflicts) : Above[p] \cap failed # {}
      /\ \A p \in DOMAIN b.delete : /\ Above[p] \cap r.pruned # {} => p \in r.removed
                                    /\ Above[p] \cap failed # {} => p \notin r.removed

Identity(b, p) == IF p \in DOMAIN b.files THEN b.files[p].sha ELSE b.verify[p]
Learned(c, r) ==
  [p \in (DOMAIN c.known \ r.removed) \cup r.accepted |->
     IF p \in r.accepted THEN Identity(c.pending, p) ELSE c.known[p]]
Adoptable(c, r) ==
  /\ Complete(c.pending, r)
  /\ \A p \in r.removed : p \in DOMAIN c.known /\ c.known[p] = c.pending.delete[p]
  /\ Cardinality(DOMAIN Learned(c, r)) <= Capacity

(* The sender.                                                              *)
StartCollect ==
  /\ walk = None /\ mem = disk /\ mem.pending = None
  /\ walk' = Walk(source, mem)
  /\ UNCHANGED <<source, mem, disk, network, receiver, budgets>>

\* A random nonce differs from every other one in use.
InUse ==
  {b.id : b \in requests} \cup {r.batch.id : r \in replies}
    \cup (IF job = None THEN {} ELSE {job.batch.id})

\* The batch is not retained when the tree changed under the collection.
FinishCollect ==
  /\ walk # None
  /\ walk' = None
  /\ IF Raced(source, mem, walk) THEN UNCHANGED mem
     ELSE /\ Nonces \ InUse # {}
          /\ LET b == Batch(source, mem, walk, CHOOSE nonce \in Nonces \ InUse : TRUE)
             IN  mem' = IF Valid(b) THEN [mem EXCEPT !.pending = b] ELSE mem
  /\ UNCHANGED <<source, disk, network, receiver, budgets>>

Save ==
  /\ disk # mem
  /\ disk' = mem
  /\ UNCHANGED <<source, mem, walk, network, receiver, budgets>>

\* A sender that still has a copy on its way has given up on it early.
InFlight(b) ==
  \/ b \in requests \/ \E r \in replies : r.batch = b
  \/ job # None /\ job.batch = b
Fault == faults < MaxFaults /\ faults' = faults + 1 /\ UNCHANGED <<edits, touches>>
Transmit ==
  /\ mem = disk /\ mem.pending # None /\ mem.pending \notin requests
  /\ requests' = requests \cup {mem.pending}
  /\ UNCHANGED <<source, sender, replies, receiver>>
Send == Transmit /\ ~InFlight(mem.pending) /\ UNCHANGED budgets
Retry == Transmit /\ InFlight(mem.pending) /\ Fault

\* Mutant: the retry cursor is never set.
FrontierForgotten(S) == S \cap {}

\* The outermost conflicts take the next exchange off.
Frontier(S) == {p \in S : Above[p] \cap S = {}}
Acknowledge(r) ==
  /\ r \in replies
  /\ replies' = replies \ {r}
  /\ IF mem.pending # None /\ r.batch = mem.pending /\ Adoptable(mem, r)
     THEN /\ mem' = [known |-> Learned(mem, r), cursor |-> Frontier(r.conflicts),
                     pending |-> None]
          /\ loose' = loose \cup r.conflicts
     ELSE UNCHANGED <<mem, loose>>
  /\ UNCHANGED <<source, disk, walk, requests, mirror, may, job, touched, budgets>>

(* The receiver.                                                            *)
\* What receiver_hash makes of a path: content, Missing, or Special for
\* anything foreign.
Look(p) ==
  IF ~Blocked(mirror, p) /\ (IsFile(mirror, p) \/ mirror[p] = Missing)
  THEN mirror[p] ELSE Special

\* A valid batch names a path once, so what is left of it is a set of paths:
\* first all that is verified, then files, deletions and retirements in turn.
Agenda(b) == Named(b) \cup b.prune

\* Retirements that meet a file, a link or a checkout are known before the
\* first change.
BlockedRoots(b) ==
  {r \in b.prune : \/ mirror[r] \notin {Dir, Missing} \/ Blocked(mirror, r)
                   \/ \E p \in Below(r) \cap DOMAIN b.delete : Blocked(mirror, p)}

Begin(b) ==
  /\ job = None /\ b \in requests
  /\ requests' = requests \ {b}
  /\ job' = [batch |-> b, todo |-> Agenda(b), blocked |-> BlockedRoots(b),
             accepted |-> {}, removed |-> {}, pruned |-> {}, conflicts |-> {}]
  /\ UNCHANGED <<source, sender, replies, mirror, may, loose, touched, budgets>>

Turn(p, S, earlier) ==
  /\ job # None /\ p \in S \cap job.todo
  /\ Before(p, S \cap job.todo) = {} /\ earlier \cap job.todo = {}
FileTurn(p) == Turn(p, DOMAIN job.batch.files, DOMAIN job.batch.verify)
DeleteTurn(p) == Turn(p, DOMAIN job.batch.delete, Written(job.batch))
PruneTurn(p) == Turn(p, job.batch.prune, Named(job.batch))

Current == job.batch = disk.pending
Awaited == Current /\ mem = disk
Rest(p) == [job EXCEPT !.todo = @ \ {p}]
Conflict(p) ==
  /\ job' = [Rest(p) EXCEPT !.conflicts = @ \cup {p}]
  /\ UNCHANGED <<mirror, may, loose, touched>>

\* Syncing the directories p lies in makes all their entries durable.
Entries(p) == {q \in Paths : Above[q] \subseteq Above[p]}
Synced(m, t, S) ==
  LET entries == UNION {Entries(p) : p \in S}
  IN  [q \in Paths |-> IF q \in entries THEN {t[q]}
                       ELSE IF \E g \in Above[q] \cap entries : t[g] # Dir
                       THEN {Missing} ELSE m[q]]
\* Until then a crash may leave the old entry or the new one.
Unsynced(m, t) == [q \in Paths |-> m[q] \cup {t[q]}]

Changed(t) == {q \in Paths : mirror[q] # t[q]}
\* The exchange's own changes: what it accepts is no longer loose if the
\* sender waits for its receipt, what it deletes is.  An exchange that is over
\* disturbs what it changes.
Done(p, t, ok) ==
  /\ mirror' = t
  /\ may' = Synced(Unsynced(may, t), t, {p})
  /\ loose' = (loose \cup Changed(t)) \ (IF Awaited THEN ok ELSE {})
  /\ touched' = IF Current THEN touched ELSE touched \cup Changed(t)

\* Verification reads and syncs every retained identity, and changes nothing.
ApplyVerify ==
  /\ job # None /\ DOMAIN job.batch.verify \cap job.todo # {}
  /\ LET asked == DOMAIN job.batch.verify
         same == {p \in asked : Look(p) = job.batch.verify[p]}
     IN  /\ job' = [job EXCEPT !.todo = @ \ asked, !.accepted = same,
                               !.conflicts = asked \ same]
         /\ may' = Synced(may, mirror, same)
         /\ loose' = loose \ (IF Awaited THEN same ELSE {})
  /\ UNCHANGED <<source, sender, network, mirror, touched, budgets>>

\* Mutant: any regular file is overwritten.
FileFitsAnything(p) == Look(p) # Special

FileFits(p) == Look(p) \in {job.batch.files[p].sha, job.batch.files[p].expected}
Replaced(p) == Put(mirror, p, job.batch.files[p].sha)
\* Mutant: bytes found equal are accepted without a sync.
ApplyFileUnsynced(p) ==
  /\ FileTurn(p)
  /\ IF Look(p) = job.batch.files[p].sha
     THEN /\ job' = [Rest(p) EXCEPT !.accepted = @ \cup {p}]
          /\ loose' = loose \ (IF Awaited THEN {p} ELSE {})
          /\ UNCHANGED <<mirror, may, touched>>
     ELSE IF FileFits(p)
     THEN /\ job' = [Rest(p) EXCEPT !.accepted = @ \cup {p}]
          /\ Done(p, Replaced(p), {p})
     ELSE Conflict(p)
  /\ UNCHANGED <<source, sender, network, budgets>>

ApplyFile(p) ==
  /\ FileTurn(p)
  /\ IF FileFits(p)
     THEN /\ job' = [Rest(p) EXCEPT !.accepted = @ \cup {p}]
          /\ Done(p, Replaced(p), {p})
     ELSE Conflict(p)
  /\ UNCHANGED <<source, sender, network, budgets>>

\* Mutant: a deletion does not compare the bytes.
DeleteFitsAnything(p) == Above[p] \cap job.blocked = {} /\ Look(p) # Special

DeleteFits(p) ==
  /\ Above[p] \cap job.blocked = {}
  /\ Look(p) \in {Missing, job.batch.delete[p]}
ApplyDelete(p) ==
  /\ DeleteTurn(p)
  /\ IF DeleteFits(p)
     THEN /\ job' = [Rest(p) EXCEPT !.removed = @ \cup {p}]
          /\ Done(p, Put(mirror, p, Missing), {})
     ELSE Conflict(p)
  /\ UNCHANGED <<source, sender, network, budgets>>

\* The emptied directories go innermost first, until one is not empty; if one
\* stays, the deletions below the root are not reported either.
Descendants(r) == Below(r) \cap DOMAIN job.batch.delete
Containers(r) == {g \in Paths : Covered(g, {r}) /\ Below(g) \cap Descendants(r) # {}}
Removable(g, r) ==
  /\ mirror[g] \in {Dir, Missing}
  /\ \A q \in Below(g) \ Containers(r) : mirror[q] = Missing
Emptied(r) ==
  {g \in Containers(r) : \A h \in Containers(r) : Position(h) >= Position(g) => Removable(h, r)}
Cleared(r) ==
  IF r \notin job.blocked /\ Descendants(r) \subseteq job.removed THEN Emptied(r) ELSE {}
Without(S) == [q \in Paths |-> IF q \in S THEN Missing ELSE mirror[q]]
\* Mutant: deletions below a directory that stayed are still reported.
RetractedNothing(r) == [Rest(r) EXCEPT !.conflicts = @ \cup {r}]

Retracted(r) ==
  [Rest(r) EXCEPT !.conflicts = @ \cup {r}, !.removed = @ \ Descendants(r)]
ApplyPrune(r) ==
  /\ PruneTurn(r)
  /\ job' = IF r \in Cleared(r) THEN [Rest(r) EXCEPT !.pruned = @ \cup {r}] ELSE Retracted(r)
  /\ IF Cleared(r) = {} THEN UNCHANGED <<mirror, may, loose, touched>>
     ELSE Done(r, Without(Cleared(r)), {})
  /\ UNCHANGED <<source, sender, network, budgets>>

Answer ==
  /\ job # None /\ job.todo = {}
  /\ replies' = replies \cup
       {[batch |-> job.batch, accepted |-> job.accepted, removed |-> job.removed,
         pruned |-> job.pruned, conflicts |-> job.conflicts]}
  /\ job' = None
  /\ UNCHANGED <<source, sender, requests, mirror, may, loose, touched, budgets>>

(* The rest of the world.                                                   *)
\* A collection is all that looks at the source, so a change at any other
\* time is one just before the next collection.
EditSource(p, v) ==
  /\ edits + touches < MaxChanges /\ v # source[p]
  /\ walk # None \/ (mem = disk /\ mem.pending = None)
  /\ source' = Put(source, p, v)
  /\ edits' = edits + 1
  /\ UNCHANGED <<sender, network, receiver, touches, faults>>

\* Another writer of the mirror takes the same lease; only an exchange that
\* follows looks at what it left.
Touch(p, v) ==
  /\ job = None /\ requests # {} /\ edits + touches < MaxChanges /\ v # mirror[p]
  /\ LET t == Put(mirror, p, v)
     IN  /\ mirror' = t
         /\ may' = Unsynced(may, t)
         /\ loose' = loose \cup Changed(t)
         /\ touched' = touched \cup Changed(t)
  /\ touches' = touches + 1
  /\ UNCHANGED <<source, sender, network, job, edits, faults>>

SenderCrash ==
  /\ Fault /\ (mem # disk \/ walk # None)
  /\ mem' = disk /\ walk' = None
  /\ UNCHANGED <<source, disk, network, receiver>>

\* Every entry comes back as it was at some moment since its last sync.
ReceiverCrash ==
  /\ Fault
  /\ job # None \/ \E p \in Paths : may[p] # {mirror[p]}
  /\ \E left \in [Paths -> UNION {may[q] : q \in Paths}] :
       /\ \A p \in Paths : left[p] \in may[p]
       /\ mirror' = Reachable(left)
  /\ may' = [p \in Paths |-> {mirror'[p]}]
  /\ job' = None
  /\ UNCHANGED <<source, sender, network, loose, touched>>

\* A retirement that is interrupted has removed some of the innermost
\* directories, or all.
Innerwards(r) ==
  {Without({h \in Cleared(r) : Position(h) >= Position(g)}) : g \in Cleared(r)}

\* A change that is on its way may be there, or only directories it needs.
Halfway ==
  LET writes == {p \in Paths : FileTurn(p) /\ FileFits(p)}
  IN  {mirror} \cup {Replaced(p) : p \in writes}
        \cup {Put(mirror, g, Dir) :
                g \in {q \in Paths : mirror[q] = Missing /\ Below(q) \cap writes # {}}}
        \cup {Put(mirror, p, Missing) : p \in {q \in Paths : DeleteTurn(q) /\ DeleteFits(q)}}
        \cup UNION {Innerwards(r) : r \in {q \in Paths : PruneTurn(q)}}

\* A write goes by way of a staging file s in the same directory.
StagedAt(s, p) ==
  /\ FileTurn(p) /\ FileFits(p) /\ Look(p) # job.batch.files[p].sha
  /\ Above[s] = Above[p]

\* The exchange ends without a receipt: the tree it leaves is t, it was u for a
\* moment, and neither is durable.
Abandon(t, u) ==
  /\ mirror' = t /\ may' = Unsynced(Unsynced(may, u), t)
  /\ loose' = loose \cup Changed(u) \cup Changed(t)
  /\ touched' = IF Current THEN touched ELSE touched \cup Changed(u) \cup Changed(t)
  /\ job' = None

\* A sync fails or the process dies in the middle of an item.  A write that
\* has its staging file leaves it if it dies, removes it if it fails, or has
\* renamed it.  Nobody looks into one again, and nobody removes it.
Interrupted ==
  /\ Fault /\ job # None /\ job.todo # {}
  /\ \/ \E t \in Halfway : Abandon(t, t)
     \/ \E p \in Paths, s \in Staging :
          /\ StagedAt(s, p)
          /\ LET u == Put(mirror, s, Special)
             IN  \E t \in {u, [u EXCEPT ![s] = mirror[s]], Replaced(p)} : Abandon(t, u)
  /\ UNCHANGED <<source, sender, network>>

Lose ==
  /\ \/ \E b \in requests : requests' = requests \ {b} /\ UNCHANGED replies
     \/ \E r \in replies : replies' = replies \ {r} /\ UNCHANGED requests
  /\ Fault
  /\ UNCHANGED <<source, sender, receiver>>

Collect == StartCollect \/ FinishCollect \/ Save
Receive == \E b \in requests : Begin(b)
Apply ==
  \/ ApplyVerify \/ Answer
  \/ \E p \in Paths : ApplyFile(p) \/ ApplyDelete(p) \/ ApplyPrune(p)
Adopt == \E r \in replies : Acknowledge(r)
Next ==
  \/ Collect \/ Send \/ Retry \/ Adopt
  \/ Receive \/ Apply
  \/ \E p \in Paths \ Staging, v \in Contents \cup {Missing, Special} : EditSource(p, v)
  \/ \E p \in Paths \ Staging, v \in Local \cup {Missing} : Touch(p, v)
  \/ SenderCrash \/ ReceiverCrash \/ Interrupted \/ Lose

\* A new exchange, or one made from identities retained earlier (from_known).
Init ==
  /\ \/ source \in Starts /\ mirror = [p \in Paths |-> Missing]
     \/ source \in Retained /\ mirror = source
  /\ LET held == {p \in Paths : IsFile(mirror, p)}
     IN  /\ Cardinality(held) <= Capacity
         /\ mem = NewCheckpoint([p \in held |-> mirror[p]])
  /\ disk = mem /\ walk = None
  /\ requests = {} /\ replies = {}
  /\ may = [p \in Paths |-> {mirror[p]}]
  /\ job = None /\ loose = {} /\ touched = {}
  /\ edits = 0 /\ touches = 0 /\ faults = 0

\* Both processes keep working; faults and other writers may stop.
Fairness ==
  /\ WF_vars(Collect) /\ WF_vars(Send) /\ WF_vars(Adopt)
  /\ WF_vars(Receive) /\ WF_vars(Apply)
Spec == Init /\ [][Next]_vars
FairSpec == Spec /\ Fairness

-----------------------------------------------------------------------------
Batches ==
  [id : Nonces,
   files : UNION {[S -> [sha : Contents, expected : Contents \cup {Missing}]] : S \in SUBSET Paths},
   verify : UNION {[S -> Contents] : S \in SUBSET Paths},
   delete : UNION {[S -> Contents] : S \in SUBSET Paths},
   prune : SUBSET Paths]
ASSUME NoneAssumption == None \notin Batches

Checkpoint(c) ==
  /\ DOMAIN c.known \subseteq Paths /\ Range(c.known) \subseteq Contents
  /\ Cardinality(DOMAIN c.known) <= Capacity
  /\ c.cursor \subseteq Paths
  /\ c.pending # None => c.pending \in Batches /\ Valid(c.pending)

\* The trees are trees, whatever was written, crashed or pruned, and no two
\* acknowledged paths lie one inside the other: together they would make
\* every later batch invalid.
TypeOK ==
  /\ WellFormed(source) /\ WellFormed(mirror)
  /\ \A p \in Paths : source[p] \in Values /\ may[p] \subseteq Values /\ mirror[p] \in may[p]
  /\ Checkpoint(mem) /\ Checkpoint(disk)
  /\ \A p \in DOMAIN mem.known : Above[p] \cap DOMAIN mem.known = {}
  /\ loose \cup touched \subseteq Paths

\* Acknowledge and apply: an identity the sender has adopted is at the mirror
\* and no crash takes it away, until somebody else changes the path or the
\* pending batch itself replaces it.
Superseded(p) ==
  IF disk.pending # None /\ p \in DOMAIN disk.pending.files
  THEN {disk.pending.files[p].sha} ELSE {}
AckedIsDurable ==
  \A p \in DOMAIN mem.known \ loose :
    /\ may[p] \subseteq {mem.known[p]} \cup Superseded(p)
    /\ \A q \in Above[p] : may[q] = {Dir}

\* apply_locked and acknowledge agree on what a complete receipt is: every
\* answer to the pending batch can be adopted.  One that cannot would be
\* asked for again for ever.
ReceiptsAdoptable ==
  \A r \in replies : r.batch = mem.pending => Adoptable(mem, r)

\* Application: bytes that only another writer can have left at the mirror
\* are never overwritten, removed or retired by any exchange, late ones
\* included.
ForeignPreserved ==
  [][touches' = touches /\ faults' = faults
       => \A p \in Paths : mirror[p] \in Local \cup {Special} => mirror'[p] = mirror[p]]_vars

\* Application: what the pending exchange replaces or removes is exactly what
\* the saved checkpoint holds as acknowledged, also after crashes and retries.
OnlyAckedReplaced ==
  [][job # None /\ Current /\ faults' = faults
       => \A p \in Changed(mirror') :
            IsFile(mirror, p) => p \in DOMAIN disk.known /\ disk.known[p] = mirror[p]]_vars

\* Batch, receipt and cursor together: a path comes to hold what the source
\* holds, unless it shares a directory with something other writers touched or
\* is stuck.  A directory that must make way for a file cannot if it holds a
\* staging file, or if the sender knows of nothing in it to delete: its files
\* were deleted one by one before the file took the name.  And files deleted
\* for a retirement that failed are retained as acknowledged, so if the owner
\* writes one again, it is in conflict.
\* A path need not advance if the checkpoint has no places, or if what is
\* touched and what is stuck fill two successive batches.
Shares(p, q) == ({p} \cup Above[p]) \cap ({q} \cup Above[q]) # {}
Disturbed(p) == \E q \in touched : Shares(p, q)
Excluded(p) == Covered(p, {q \in Paths : source[q] = Special})
Mirrored(p) ==
  IF IsFile(source, p) THEN mirror[p] = source[p]
  ELSE Excluded(p) \/ ~IsFile(mirror, p)
KnownBelow(p) == Below(p) \cap DOMAIN mem.known
Leftover(g) == \E s \in Staging \cap Below(g) : mirror[s] # Missing
Stuck(p) ==
  /\ IsFile(source, p)
  /\ \/ mirror[p] = Dir /\ (KnownBelow(p) = {} \/ Leftover(p))
     \/ mirror[p] = Missing /\ p \in DOMAIN mem.known /\ \E g \in Above[p] : Leftover(g)
Waiting == UNION {IF KnownBelow(p) = {} THEN {p} ELSE KnownBelow(p) : p \in {q \in Paths : Stuck(q)}}
Claims == {p \in Paths : IsFile(source, p) \/ Disturbed(p) \/ Excluded(p)}
UnrelatedAdvance ==
  <>[](\/ \A p \in Paths : Mirrored(p) \/ Disturbed(p) \/ Stuck(p)
       \/ Cardinality(Claims \cup Waiting) > Capacity
       \/ Cardinality(touched \cup Waiting) >= 2 * Room)

\* "Conflicted paths and subtrees take one exchange off, so an early blocked
\* frontier cannot monopolize retries" (ORCHESTRATION.md:282).
FrontierNeverMonopolizes == <>[](\A p \in Paths : Mirrored(p) \/ Disturbed(p))
=============================================================================
