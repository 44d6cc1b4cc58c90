----------------------- MODULE CampaignDriver_proofs -----------------------
(***************************************************************************)
(* Proofs about CampaignDriver for any packets, hosts, versions and texts: *)
(* what a journal says of the inputs that were sent and of those that      *)
(* arrived, that the hosts' limits hold, and that an owner which waits is  *)
(* not passed over twice, whatever crashes, failed saves and late requests *)
(* do.                                                                     *)
(***************************************************************************)
EXTENDS CampaignDriver, FiniteSetTheorems, WellFoundedInduction, TLAPS

\* A retained input has its owner's session and the journal's last generation.
Named(p, ps) ==
    ps.pending # None =>
        /\ ps.pending.body.id.session = p
        /\ ps.pending.body.id.generation = ps.generation

\* What was sent to p is of a generation the journal knows; if it is retained,
\* it is retained as it was sent, with its attempt.
Journalled(p, ps, S) ==
    \A b \in S :
        b.id.session = p =>
            /\ b.id.generation <= ps.generation
            /\ ps.pending # None /\ ps.pending.body.id = b.id =>
                  ps.pending.body = b /\ ps.pending.attempt # None

\* Every generation but the retained one is of an input of the session.
Arrived(ps, s) ==
    \A g \in 1 .. ps.generation :
        \/ ps.pending # None /\ ps.pending.body.id.generation = g
        \/ \E b \in s.inbox \cup s.log : b.id.generation = g

\* The journal j of the packets, given what was sent and the sessions.
JournalOK(j, S, N) ==
    /\ j \in [Packets -> PacketStates]
    /\ \A p \in Packets : Named(p, j[p]) /\ Journalled(p, j[p], S) /\ Arrived(j[p], N[p])

\* The cycle in progress: its instant and its observation.  The input about to be
\* attempted is retained; the one about to be sent is so on disk, with its attempt.
CycleInv ==
    cycle # None =>
        /\ DOMAIN cycle = {"step", "todo", "compacting", "selected", "seen", "at"}
        /\ cycle.at \in Nat /\ cycle.seen \in [Packets -> Sessions]
        /\ cycle.step \in {"attempt", "post"} =>
              \A p \in Packets : p = Head(cycle.todo) => mem[p].pending # None
        /\ cycle.step = "post" =>
              /\ disk = mem
              /\ \A p \in Packets : p = Head(cycle.todo) => mem[p].pending.attempt # None

\* Both journals are right, and an identity was sent with one body.
JournalInv ==
    /\ native \in [Packets -> Sessions] /\ sent \subseteq Bodies /\ wire \subseteq Requests
    /\ JournalOK(mem, sent, native)
    /\ JournalOK(disk, sent, native)
    /\ \A a, b \in sent : a.id = b.id => a = b

IInv == JournalInv /\ CycleInv

-----------------------------------------------------------------------------
\* Induction over a set: a set of naturals closed under successor has them all.
LEMMA NatSetInduction ==
  ASSUME NEW S, 0 \in S, \A n \in Nat : n \in S => n + 1 \in S
  PROVE  Nat \subseteq S
<1> DEFINE T == Nat \ S
           R == OpToRel(<, Nat)
<1>1. SUFFICES ASSUME T # {} PROVE FALSE
  OBVIOUS
<1>2. IsWellFoundedOn(R, Nat)
  BY NatLessThanWellFounded
<1> HIDE DEF R
<1>3. PICK x \in T : \A y \in T : ~(<<y, x>> \in R)
  BY <1>1, <1>2, WFMin
<1>4. \A y \in T : ~(y < x)
  BY <1>3 DEF R, OpToRel
<1>5. x # 0 /\ x - 1 \in Nat
  OBVIOUS
<1>6. x - 1 \in S
  BY <1>4, <1>5
<1>7. x = (x - 1) + 1
  BY <1>5
<1> QED
  BY <1>5, <1>6, <1>7

\* A finite set of numbers that is not empty has a largest element.
LEMMA HasMax ==
  ASSUME NEW S \in SUBSET Nat, IsFiniteSet(S), S # {}
  PROVE  \E x \in S : \A y \in S : x >= y
<1> DEFINE G == {n \in Nat : \A T \in SUBSET Nat :
                   IsFiniteSet(T) /\ Cardinality(T) = n /\ T # {} =>
                      \E x \in T : \A y \in T : x >= y}
<1>1. 0 \in G
  BY FS_EmptySet
<1>2. ASSUME NEW n \in Nat, n \in G PROVE n + 1 \in G
  <2> SUFFICES ASSUME NEW T \in SUBSET Nat, IsFiniteSet(T), Cardinality(T) = n + 1, T # {}
               PROVE  \E x \in T : \A y \in T : x >= y
    OBVIOUS
  <2>1. PICK a \in T : TRUE
    OBVIOUS
  <2>2. IsFiniteSet(T \ {a}) /\ Cardinality(T \ {a}) = n
    <3>1. IsFiniteSet(T \ {a}) /\ Cardinality(T \ {a}) = Cardinality(T) - 1
      BY <2>1, FS_RemoveElement, Zenon
    <3> QED
      BY <3>1
  <2>3. CASE T \ {a} = {}
    BY <2>1, <2>3
  <2>4. CASE T \ {a} # {}
    <3>1. PICK x \in T \ {a} : \A y \in T \ {a} : x >= y
      BY <1>2, <2>2, <2>4
    <3>2. CASE x >= a
      BY <3>1, <3>2
    <3>3. CASE a > x
      <4>1. \A y \in T : a >= y
        BY <3>1, <3>3
      <4> QED
        BY <4>1
    <3> QED
      BY <3>2, <3>3
  <2> QED
    BY <2>3, <2>4
<1> HIDE DEF G
<1>3. Nat \subseteq G
  BY <1>1, <1>2, NatSetInduction
<1>4. Cardinality(S) \in Nat
  BY FS_CardinalityType
<1> QED
  BY <1>3, <1>4 DEF G

\* A function takes finitely many values on a finite set.
LEMMA FiniteImage ==
  ASSUME NEW S, IsFiniteSet(S), NEW f
  PROVE  IsFiniteSet({f[x] : x \in S})
<1> DEFINE T == {f[x] : x \in S}
           g == [x \in S |-> f[x]]
<1>1. g \in Surjection(S, T)
  BY DEF Surjection
<1> QED
  BY <1>1, FS_Surjection, Zenon

-----------------------------------------------------------------------------
LEMMA FinitePackets == IsFiniteSet(Packets) /\ Packets \subseteq Nat
<1>1. IsFiniteSet(DOMAIN Manifest)
  <2>1. DOMAIN Manifest = 1 .. Len(Manifest) /\ Len(Manifest) \in Nat
    BY DriverAssumption
  <2> QED
    BY <2>1, FS_Interval
<1>2. Packets = {Manifest[i] : i \in DOMAIN Manifest}
  BY DEF Packets, Range
<1>3. \A i \in DOMAIN Manifest : Manifest[i] \in Nat
  BY DriverAssumption
<1> QED
  BY <1>1, <1>2, <1>3, FiniteImage

\* The instant of a cycle is a number later than that of every delivery.
LEMMA NowType ==
  ASSUME NEW j \in [Packets -> PacketStates]
  PROVE  /\ Now(j) \in Nat
         /\ \A p \in Packets :
               j[p].deliveredPreparedAt \in Nat => j[p].deliveredPreparedAt < Now(j)
<1> DEFINE delivered == [p \in Packets |-> j[p].deliveredPreparedAt]
           prepared == [p \in Packets |->
                          IF j[p].pending = None THEN None ELSE j[p].pending.preparedAt]
           kept == UNION {{j[p].deliveredPreparedAt,
                           IF j[p].pending = None THEN None ELSE j[p].pending.preparedAt}
                             : p \in Packets}
           A == {delivered[p] : p \in Packets}
           B == {prepared[p] : p \in Packets}
           S == {0} \cup (kept \ {None})
<1>1. IsFiniteSet(A) /\ IsFiniteSet(B)
  BY FinitePackets, FiniteImage, Zenon
<1>2. kept \subseteq A \cup B
  OBVIOUS
<1>3. kept \subseteq Nat \cup {None}
  <2>1. ASSUME NEW p \in Packets
        PROVE  delivered[p] \in Nat \cup {None} /\ prepared[p] \in Nat \cup {None}
    <3>1. j[p] \in PacketStates
      OBVIOUS
    <3>2. /\ j[p].deliveredPreparedAt \in Nat \cup {None}
          /\ j[p].pending # None => j[p].pending.preparedAt \in Nat
      BY <3>1 DEF PacketStates, PendingInputs
    <3> QED
      BY <3>2
  <2>2. A \subseteq Nat \cup {None} /\ B \subseteq Nat \cup {None}
    BY <2>1
  <2> QED
    BY <1>2, <2>2
<1>4. IsFiniteSet(S)
  <2>1. IsFiniteSet({0} \cup (A \cup B))
    BY <1>1, FS_Singleton, FS_Union, Zenon
  <2>2. S \subseteq {0} \cup (A \cup B)
    BY <1>2
  <2> QED
    BY <2>1, <2>2, FS_Subset, Zenon
<1>5. S \in SUBSET Nat /\ S # {}
  BY <1>3
<1>6. \A p \in Packets : j[p].deliveredPreparedAt \in Nat => j[p].deliveredPreparedAt \in S
  BY NoneAssumption
<1>7. Now(j) = 1 + Max(S)
  BY DEF Now
<1> HIDE DEF S
<1>8. Max(S) \in Nat /\ \A x \in S : Max(S) >= x
  BY <1>4, <1>5, HasMax DEF Max
<1> QED
  BY <1>5, <1>6, <1>7, <1>8

-----------------------------------------------------------------------------
\* One packet's journal, with what was sent and its session.
PacketOK(p, ps, S, s) ==
    ps \in PacketStates /\ Named(p, ps) /\ Journalled(p, ps, S) /\ Arrived(ps, s)

LEMMA JournalPackets ==
  ASSUME NEW j, NEW S, NEW N
  PROVE  JournalOK(j, S, N) <=>
           j \in [Packets -> PacketStates] /\ \A p \in Packets : PacketOK(p, j[p], S, N[p])
BY DEF JournalOK, PacketOK

\* A journal stays right when one packet of it is replaced by a right one.
LEMMA ReplacePacket ==
  ASSUME NEW j, NEW S, NEW N, JournalOK(j, S, N),
         NEW p \in Packets, NEW ps, PacketOK(p, ps, S, N[p])
  PROVE  JournalOK([j EXCEPT ![p] = ps], S, N)
<1>1. ps \in PacketStates
  BY DEF PacketOK
<1>2. [j EXCEPT ![p] = ps] \in [Packets -> PacketStates]
  BY <1>1 DEF JournalOK
<1>3. \A q \in Packets : PacketOK(q, [j EXCEPT ![p] = ps][q], S, N[q])
  BY JournalPackets DEF JournalOK
<1> QED
  BY <1>2, <1>3, JournalPackets

\* Sessions only gain inputs, which no journal minds.
LEMMA SessionsGrow ==
  ASSUME NEW j, NEW S, NEW N, NEW N2, JournalOK(j, S, N),
         \A p \in Packets : N[p].inbox \cup N[p].log \subseteq N2[p].inbox \cup N2[p].log
  PROVE  JournalOK(j, S, N2)
BY DEF JournalOK, Arrived

\* acknowledge: the retained input is one the session has.
LEMMA AcknowledgeOK ==
  ASSUME NEW p \in Packets, NEW ps, NEW S, NEW s, PacketOK(p, ps, S, s),
         ps.pending # None,
         \E b \in s.inbox \cup s.log : b.id = ps.pending.body.id
  PROVE  PacketOK(p, Acknowledge(ps), S, s)
<1> DEFINE as == Acknowledge(ps)
<1>1. ps \in PacketStates /\ ps.pending \in PendingInputs
  BY DEF PacketOK, PacketStates
<1>2. as \in PacketStates /\ as.pending = None /\ as.generation = ps.generation
  BY <1>1 DEF Acknowledge, PacketStates, PendingInputs
<1> HIDE DEF as
<1>3. Named(p, as) /\ Journalled(p, as, S)
  BY <1>2 DEF PacketOK, Named, Journalled
<1>4. Arrived(as, s)
  <2> SUFFICES ASSUME NEW g \in 1 .. ps.generation
               PROVE  \E b \in s.inbox \cup s.log : b.id.generation = g
    BY <1>2 DEF Arrived
  <2>1. \/ ps.pending.body.id.generation = g
        \/ \E b \in s.inbox \cup s.log : b.id.generation = g
    BY DEF PacketOK, Arrived
  <2> QED
    BY <2>1
<1> QED
  BY <1>2, <1>3, <1>4 DEF PacketOK, as

\* prepare: a fresh input takes the next generation, a retained one stays.
LEMMA PrepareOK ==
  ASSUME NEW p \in Packets, NEW ps, NEW S, NEW s, PacketOK(p, ps, S, s), S \subseteq Bodies,
         NEW text \in Texts, NEW at \in Nat
  PROVE  PacketOK(p, Prepare(p, ps, text, at), S, s) /\ Prepare(p, ps, text, at).pending # None
<1>1. CASE ps.pending # None
  BY <1>1 DEF Prepare
<1>2. CASE ps.pending = None
  <2> DEFINE i == Fresh(p, ps, text, at)
             n == ps.generation + 1
             as == [ps EXCEPT !.pending = i, !.generation = n]
  <2>1. ps \in PacketStates /\ ps.generation \in Nat
    BY DEF PacketOK, PacketStates
  <2>2. /\ i \in PendingInputs
        /\ i.body.id.session = p /\ i.body.id.generation = ps.generation + 1
    BY <2>1 DEF Fresh, MessageId, PendingInputs, Bodies, PacketStates
  <2>3. i # None
    BY <2>2, NoneAssumption
  <2>9. n \in Nat
    BY <2>1
  <2> HIDE DEF i, n
  <2>4. as \in PacketStates /\ as.pending = i /\ as.generation = n
    BY <2>1, <2>2, <2>9 DEF PacketStates
  <2> HIDE DEF as
  <2> USE DEF n
  <2>5. Named(p, as)
    BY <2>2, <2>4 DEF Named
  <2>6. Journalled(p, as, S)
    <3> SUFFICES ASSUME NEW b \in S, b.id.session = p
                 PROVE  b.id.generation <= as.generation /\ as.pending.body.id # b.id
      BY DEF Journalled
    <3>1. b.id.generation <= ps.generation
      BY DEF PacketOK, Journalled
    <3>2. b.id.generation \in Nat
      BY DEF Bodies
    <3> QED
      BY <2>1, <2>2, <2>4, <3>1, <3>2
  <2>7. Arrived(as, s)
    <3> SUFFICES ASSUME NEW g \in 1 .. as.generation, g # ps.generation + 1
                 PROVE  \E b \in s.inbox \cup s.log : b.id.generation = g
      BY <2>2, <2>3, <2>4 DEF Arrived
    <3>1. g \in 1 .. ps.generation
      BY <2>1, <2>4
    <3> QED
      BY <1>2, <3>1 DEF PacketOK, Arrived
  <2>8. Prepare(p, ps, text, at) = as
    BY <1>2 DEF Prepare, i, as
  <2> QED
    BY <2>3, <2>4, <2>5, <2>6, <2>7, <2>8 DEF PacketOK
<1> QED
  BY <1>1, <1>2

\* The attempt is bound to the retained input, whose body stays.
LEMMA AttemptOK ==
  ASSUME NEW p \in Packets, NEW ps, NEW S, NEW s, PacketOK(p, ps, S, s),
         ps.pending # None, NEW at \in Nat
  PROVE  LET as == [ps EXCEPT !.pending.attempt = at]
         IN  PacketOK(p, as, S, s) /\ as.pending # None /\ as.pending.attempt # None
<1> DEFINE as == [ps EXCEPT !.pending.attempt = at]
<1>1. ps \in PacketStates /\ ps.pending \in PendingInputs
  BY DEF PacketOK, PacketStates
<1>2. /\ as \in PacketStates /\ as.pending \in PendingInputs
      /\ as.pending.body = ps.pending.body /\ as.pending.attempt = at
      /\ as.generation = ps.generation
  BY <1>1 DEF PacketStates, PendingInputs
<1>3. as.pending # None /\ at # None
  BY <1>2, NoneAssumption
<1> HIDE DEF as
<1>4. PacketOK(p, as, S, s)
  BY <1>2, <1>3 DEF PacketOK, Named, Journalled, Arrived
<1> QED
  BY <1>2, <1>3, <1>4 DEF as

\* Fields that say nothing of inputs may change.
LEMMA OtherFieldsOK ==
  ASSUME NEW p \in Packets, NEW ps, NEW S, NEW s, PacketOK(p, ps, S, s),
         NEW as \in PacketStates, as.pending = ps.pending, as.generation = ps.generation
  PROVE  PacketOK(p, as, S, s)
BY DEF PacketOK, Named, Journalled, Arrived

\* A retained input with its attempt may be sent.
LEMMA PostOK ==
  ASSUME NEW j, NEW S, NEW N, JournalOK(j, S, N), NEW p \in Packets,
         j[p].pending # None, j[p].pending.attempt # None
  PROVE  JournalOK(j, S \cup {j[p].pending.body}, N)
<1> DEFINE body == j[p].pending.body
<1>1. /\ body.id.session = p /\ body.id.generation = j[p].generation
      /\ j[p].generation \in Nat
  BY DEF JournalOK, Named, PacketStates
<1> HIDE DEF body
<1>2. ASSUME NEW q \in Packets PROVE Journalled(q, j[q], S \cup {body})
  <2>1. Journalled(q, j[q], S)
    BY DEF JournalOK
  <2>2. CASE q = p
    BY <1>1, <2>1, <2>2 DEF Journalled, body
  <2>3. CASE q # p
    BY <1>1, <2>1, <2>3 DEF Journalled
  <2> QED
    BY <2>2, <2>3
<1> QED
  BY <1>2 DEF JournalOK, body

-----------------------------------------------------------------------------
\* The journals after a step that neither sends nor touches the sessions.
LEMMA JournalEdit ==
  ASSUME JournalInv, NEW j, JournalOK(j, sent, native),
         mem' \in {mem, disk, j}, disk' \in {disk, mem, j},
         UNCHANGED <<native, sent, wire>>
  PROVE  JournalInv'
<1>1. JournalOK(mem', sent, native) /\ JournalOK(disk', sent, native)
  BY Zenon DEF JournalInv
<1> QED
  BY <1>1, Zenon DEF JournalInv

LEMMA JournalFrame ==
  ASSUME JournalInv, UNCHANGED <<mem, disk, native, sent, wire>>
  PROVE  JournalInv'
BY Zenon DEF JournalInv

\* The journals after a step of the sessions and of the requests alone.
LEMMA JournalNative ==
  ASSUME JournalInv, UNCHANGED <<mem, disk, sent>>,
         native' \in [Packets -> Sessions], wire' \subseteq Requests,
         \A p \in Packets :
            native[p].inbox \cup native[p].log \subseteq native'[p].inbox \cup native'[p].log
  PROVE  JournalInv'
<1>1. JournalOK(mem, sent, native') /\ JournalOK(disk, sent, native')
  BY SessionsGrow, Zenon DEF JournalInv
<1> QED
  BY <1>1, Zenon DEF JournalInv

\* The server takes a request: sessions keep their types and their inputs.
LEMMA TakeOK ==
  ASSUME native \in [Packets -> Sessions], NEW p \in Packets, NEW body \in Bodies
  PROVE  /\ Take(p, body) \in [Packets -> Sessions]
         /\ \A q \in Packets : native[q].inbox \cup native[q].log
                                \subseteq Take(p, body)[q].inbox \cup Take(p, body)[q].log
<1> DEFINE s == [native[p] EXCEPT !.inbox = @ \cup {body}]
<1>1. s \in Sessions /\ native[p].inbox \subseteq s.inbox /\ s.log = native[p].log
  BY DEF Sessions
<1>2. Take(p, body) \in {native, [native EXCEPT ![p] = s]}
  BY DEF Take
<1> HIDE DEF s
<1> QED
  BY <1>1, <1>2

LEMMA TakeCompactionOK ==
  ASSUME native \in [Packets -> Sessions], NEW p \in Packets, NEW c
  PROVE  /\ TakeCompaction(p, c) \in [Packets -> Sessions]
         /\ \A q \in Packets : native[q].inbox \cup native[q].log \subseteq
                 TakeCompaction(p, c)[q].inbox \cup TakeCompaction(p, c)[q].log
<1> DEFINE s == [native[p] EXCEPT !.compactions[c] = "inbox"]
<1>1. s \in Sessions /\ s.inbox = native[p].inbox /\ s.log = native[p].log
  BY DEF Sessions
<1>2. TakeCompaction(p, c) \in {native, [native EXCEPT ![p] = s]}
  BY DEF TakeCompaction
<1> HIDE DEF s
<1> QED
  BY <1>1, <1>2

\* The cycle goes on with the next packet, or ends.
LEMMA CycleDone ==
  ASSUME CycleInv, NEW p,
         \/ cycle # None /\ cycle' \in {Done("compact"), Done("prompt"), Blocked(p)}
         \/ cycle' = None
  PROVE  CycleInv'
<1>1. CASE cycle' = None
  BY <1>1 DEF CycleInv
<1>2. CASE cycle # None /\ cycle' \in {Done("compact"), Done("prompt"), Blocked(p)}
  <2>1. /\ DOMAIN cycle' = DOMAIN cycle
        /\ cycle'.at = cycle.at /\ cycle'.seen = cycle.seen
        /\ cycle'.step \in {"compact", "prompt"}
    <3>1. CASE cycle' = Done("compact") \/ cycle' = Done("prompt")
      BY <1>2, <3>1 DEF Done, CycleInv
    <3>2. CASE cycle' = Blocked(p)
      BY <1>2, <3>2 DEF Done, Blocked, CycleInv
    <3> QED
      BY <1>2, <3>1, <3>2
  <2> QED
    BY <1>2, <2>1 DEF CycleInv
<1> QED
  BY <1>1, <1>2

-----------------------------------------------------------------------------
\* Before the first request: reconciliation, and a cycle with its instant.
LEMMA InitIInv == Init => IInv
<1> SUFFICES ASSUME Init PROVE IInv
  OBVIOUS
<1> DEFINE idle == [c \in Phys |-> "none"]
           S == [active : {FALSE}, inbox : {{}}, log : {{}}, high : BOOLEAN,
                 phys : {0}, compactions : {idle}]
<1>1. native \in [Packets -> Sessions] /\ sent = {} /\ wire = {} /\ cycle = None
  <2>1. idle \in [Phys -> {"none", "inbox", "running", "completed", "failed"}]
    OBVIOUS
  <2>2. native \in [Packets -> S] /\ sent = {} /\ wire = {} /\ cycle = None
    BY Zenon DEF Init
  <2> HIDE DEF idle
  <2>3. ASSUME NEW s \in S PROVE s \in Sessions
    <3>1. /\ s.active \in BOOLEAN /\ s.inbox \in SUBSET Bodies /\ s.log \in SUBSET Bodies
          /\ s.high \in BOOLEAN /\ s.phys \in Nat /\ s.compactions = idle
      <4>1. s.active \in {FALSE} /\ s.high \in BOOLEAN /\ s.compactions \in {idle}
        BY Zenon
      <4>2. s.inbox \in {{}} /\ s.log \in {{}}
        BY Zenon
      <4>3. s.phys \in {0}
        BY Zenon
      <4> HIDE DEF S
      <4>4. s.active \in BOOLEAN
        BY <4>1, Zenon
      <4>5. s.inbox \in SUBSET Bodies /\ s.log \in SUBSET Bodies
        BY <4>2
      <4>6. s.phys \in Nat
        BY <4>3
      <4> QED
        BY <4>1, <4>4, <4>5, <4>6, Zenon
    <3>2. s = [active |-> s.active, inbox |-> s.inbox, log |-> s.log, high |-> s.high,
               phys |-> s.phys, compactions |-> s.compactions]
      OBVIOUS
    <3> HIDE DEF S
    <3> QED
      BY <2>1, <3>1, <3>2, Zenon DEF Sessions
  <2> HIDE DEF S
  <2> QED
    BY <2>2, <2>3
<1>2. \A v \in Versions : /\ NewJournal(v) \in PacketStates
                          /\ NewJournal(v).pending = None /\ NewJournal(v).generation = 0
  BY DEF NewJournal, PacketStates
<1>3. mem \in [Packets -> PacketStates]
      /\ \A p \in Packets : mem[p].pending = None /\ mem[p].generation = 0
  <2>1. mem \in [Packets -> {NewJournal(v) : v \in Versions}]
    BY Zenon DEF Init
  <2> QED
    BY <1>2, <2>1
<1>4. JournalOK(mem, sent, native)
  BY <1>1, <1>3 DEF JournalOK, Named, Journalled, Arrived
<1> QED
  BY <1>1, <1>4 DEF Init, IInv, JournalInv, CycleInv

LEMMA PlanStep == ASSUME IInv, Plan PROVE IInv'
<1> DEFINE next == [p \in Packets |-> Reconciled(p)]
<1>1. JournalOK(next, sent, native)
  <2>1. ASSUME NEW p \in Packets PROVE PacketOK(p, Reconciled(p), sent, native[p])
    <3>1. PacketOK(p, mem[p], sent, native[p])
      BY JournalPackets DEF IInv, JournalInv
    <3>2. CASE mem[p].pending # None /\ Receipts(native[p], mem[p].pending.body.id) # {}
      <4>1. \E b \in native[p].inbox \cup native[p].log : b.id = mem[p].pending.body.id
        BY <3>2 DEF Receipts
      <4> QED
        BY <3>1, <3>2, <4>1, AcknowledgeOK DEF Reconciled
    <3> QED
      BY <3>1, <3>2 DEF Reconciled
  <2>2. next \in [Packets -> PacketStates]
    BY <2>1 DEF PacketOK
  <2> QED
    BY <2>1, <2>2, JournalPackets
<1>2. Now(next) \in Nat
  BY <1>1, NowType DEF JournalOK
<1> HIDE DEF next
<1>3. /\ mem' \in {mem, next} /\ disk' \in {disk, next}
      /\ UNCHANGED <<native, sent, wire>>
  BY Zenon DEF Plan, Persist, PersistFails, next
<1>4. JournalInv'
  BY <1>1, <1>3, JournalEdit DEF IInv
<1>5. \/ cycle' = None
      \/ \E selected : cycle' = [step |-> "compact", todo |-> Manifest, compacting |-> {},
                                 selected |-> selected, seen |-> native, at |-> Now(next)]
  BY Zenon DEF Plan, Observation, next
<1>6. native \in [Packets -> Sessions]
  BY DEF IInv, JournalInv
<1>7. CycleInv'
  BY <1>2, <1>5, <1>6 DEF CycleInv
<1> QED
  BY <1>4, <1>7 DEF IInv

\* The steps of a cycle that only go on, or end it.
LEMMA GoOnStep ==
  ASSUME IInv, NEW p,
         \/ SkipCompaction(p) \/ AwaitCompaction(p) \/ AbortCycle(p)
         \/ SkipPrompt(p) \/ FailPrompt(p)
  PROVE  IInv'
<1>1. UNCHANGED <<mem, disk, native, sent, wire>>
  BY Zenon DEF SkipCompaction, AwaitCompaction, AbortCycle, SkipPrompt, FailPrompt
<1>2. \/ cycle # None /\ cycle' \in {Done("compact"), Done("prompt"), Blocked(p)}
      \/ cycle' = None
  BY Zenon DEF SkipCompaction, AwaitCompaction, AbortCycle, SkipPrompt, FailPrompt, Serving
<1> QED
  BY <1>1, <1>2, JournalFrame, CycleDone DEF IInv

LEMMA StartPromptsStep == ASSUME IInv, StartPrompts PROVE IInv'
<1>1. /\ UNCHANGED <<mem, disk, native, sent, wire>> /\ cycle # None
      /\ cycle' = [cycle EXCEPT !.step = "prompt", !.todo = cycle.selected]
  BY Zenon DEF StartPrompts
<1>2. /\ DOMAIN cycle' = DOMAIN cycle /\ cycle'.at = cycle.at
      /\ cycle'.seen = cycle.seen /\ cycle'.step = "prompt"
  BY <1>1 DEF IInv, CycleInv
<1>3. CycleInv'
  BY <1>1, <1>2 DEF IInv, CycleInv
<1> QED
  BY <1>1, <1>3, JournalFrame DEF IInv

\* A compaction is named after a message that was observed, and persisted.
LEMMA PrepareCompactionStep ==
  ASSUME IInv, NEW p \in Packets, PrepareCompaction(p)
  PROVE  IInv'
<1> DEFINE ps == [mem[p] EXCEPT !.compaction = cycle.seen[p].phys]
           j == [mem EXCEPT ![p].compaction = cycle.seen[p].phys]
<1>1. /\ cycle # None /\ cycle.step = "compact"
      /\ mem' = j /\ disk' \in {disk, j} /\ UNCHANGED <<native, sent, wire>>
      /\ cycle' = cycle \/ cycle' = Blocked(p)
  BY Zenon DEF PrepareCompaction, Serving, Persist, PersistFails
<1>2. JournalOK(mem, sent, native) /\ PacketOK(p, mem[p], sent, native[p])
  BY JournalPackets DEF IInv, JournalInv
<1>3. cycle.seen[p].phys \in Nat
  BY <1>1 DEF IInv, CycleInv, Sessions
<1>4. mem[p] \in PacketStates
  BY <1>2 DEF PacketOK
<1>5. ps \in PacketStates /\ ps.pending = mem[p].pending /\ ps.generation = mem[p].generation
  BY <1>3, <1>4 DEF PacketStates
<1>6. j = [mem EXCEPT ![p] = ps]
  OBVIOUS
<1> HIDE DEF ps, j
<1>7. JournalOK(j, sent, native)
  BY <1>2, <1>5, <1>6, OtherFieldsOK, ReplacePacket
<1>8. JournalInv'
  BY <1>1, <1>7, JournalEdit DEF IInv
<1>9. CycleInv'
  <2>1. CASE cycle' = cycle
    BY <1>1, <2>1 DEF IInv, CycleInv
  <2>2. CASE cycle' = Blocked(p)
    BY <1>1, <2>2, CycleDone DEF IInv
  <2> QED
    BY <1>1, <2>1, <2>2
<1> QED
  BY <1>8, <1>9 DEF IInv

\* A pending compaction is asked for, awaited or cleared.
LEMMA AskCompactionStep ==
  ASSUME IInv, NEW p \in Packets, AskCompaction(p)
  PROVE  IInv'
<1> DEFINE c == mem[p].compaction
           ps == [mem[p] EXCEPT !.compaction = None]
           j == [mem EXCEPT ![p].compaction = None]
           request == [to |-> p, body |-> None, compaction |-> c]
<1>1. cycle # None /\ UNCHANGED sent /\ cycle' \in {Blocked(p), Done("compact")}
  BY Zenon DEF AskCompaction, Serving
<1>2. CycleInv'
  BY <1>1, CycleDone DEF IInv
<1>3. \/ UNCHANGED <<mem, disk, native, wire>>
      \/ mem' = j /\ disk' \in {disk, j} /\ UNCHANGED <<native, wire>>
      \/ /\ UNCHANGED <<mem, disk>> /\ wire' \in {wire, wire \cup {request}}
         /\ native' \in {native, TakeCompaction(p, c)}
  BY Zenon DEF AskCompaction, Persist, PersistFails, Send
<1>4. /\ JournalOK(mem, sent, native) /\ PacketOK(p, mem[p], sent, native[p])
      /\ native \in [Packets -> Sessions] /\ wire \subseteq Requests
  BY JournalPackets DEF IInv, JournalInv
<1>5. mem[p] \in PacketStates
  BY <1>4 DEF PacketOK
<1>6. CASE UNCHANGED <<mem, disk, native, wire>>
  BY <1>1, <1>2, <1>6, JournalFrame DEF IInv
<1>7. CASE mem' = j /\ disk' \in {disk, j} /\ UNCHANGED <<native, wire>>
  <2>1. ps \in PacketStates /\ ps.pending = mem[p].pending /\ ps.generation = mem[p].generation
    BY <1>5 DEF PacketStates
  <2>2. j = [mem EXCEPT ![p] = ps]
    OBVIOUS
  <2> HIDE DEF ps, j
  <2>3. JournalOK(j, sent, native)
    BY <1>4, <2>1, <2>2, OtherFieldsOK, ReplacePacket
  <2>4. JournalInv'
    BY <1>1, <1>7, <2>3, JournalEdit DEF IInv
  <2> QED
    BY <1>2, <2>4 DEF IInv
<1>8. CASE /\ UNCHANGED <<mem, disk>> /\ wire' \in {wire, wire \cup {request}}
           /\ native' \in {native, TakeCompaction(p, c)}
  <2>1. request \in Requests
    BY <1>5 DEF PacketStates, Requests
  <2> HIDE DEF request, c
  <2>2. wire' \subseteq Requests
    BY <1>4, <1>8, <2>1
  <2>3. /\ native' \in [Packets -> Sessions]
        /\ \A q \in Packets :
              native[q].inbox \cup native[q].log \subseteq native'[q].inbox \cup native'[q].log
    BY <1>4, <1>8, TakeCompactionOK
  <2>4. JournalInv'
    BY <1>1, <1>8, <2>2, <2>3, JournalNative DEF IInv
  <2> QED
    BY <1>2, <2>4 DEF IInv
<1> QED
  BY <1>3, <1>6, <1>7, <1>8

LEMMA PreparePromptStep ==
  ASSUME IInv, NEW p \in Packets, PreparePrompt(p)
  PROVE  IInv'
<1>1. PICK text \in Texts : mem' = [mem EXCEPT ![p] = Prepare(p, @, text, cycle.at)]
  BY Zenon DEF PreparePrompt
<1> DEFINE ps == Prepare(p, mem[p], text, cycle.at)
           j == [mem EXCEPT ![p] = ps]
<1>2. /\ cycle # None /\ p = Head(cycle.todo)
      /\ mem' = j /\ disk' \in {disk, j} /\ UNCHANGED <<native, sent, wire>>
      /\ cycle' = [cycle EXCEPT !.step = "attempt"] \/ cycle' = Done("prompt")
  BY <1>1, Zenon DEF PreparePrompt, Serving, Persist, PersistFails
<1>3. /\ JournalOK(mem, sent, native) /\ PacketOK(p, mem[p], sent, native[p])
      /\ sent \subseteq Bodies
  BY JournalPackets DEF IInv, JournalInv
<1>4. cycle.at \in Nat /\ DOMAIN cycle = {"step", "todo", "compacting", "selected", "seen", "at"}
  BY <1>2 DEF IInv, CycleInv
<1>5. PacketOK(p, ps, sent, native[p]) /\ ps.pending # None
  BY <1>3, <1>4, PrepareOK
<1> HIDE DEF ps
<1>6. JournalOK(j, sent, native)
  BY <1>3, <1>5, ReplacePacket
<1>7. j[p] = ps
  BY <1>3 DEF JournalOK
<1> HIDE DEF j
<1>8. JournalInv'
  BY <1>2, <1>6, JournalEdit DEF IInv
<1>9. CycleInv'
  <2>1. CASE cycle' = [cycle EXCEPT !.step = "attempt"]
    <3>1. /\ DOMAIN cycle' = DOMAIN cycle /\ cycle'.at = cycle.at /\ cycle'.seen = cycle.seen
          /\ cycle'.step = "attempt" /\ cycle'.todo = cycle.todo
      BY <1>4, <2>1
    <3>2. \A q \in Packets : q = Head(cycle'.todo) => mem'[q].pending # None
      BY <1>2, <1>5, <1>7, <3>1
    <3> QED
      BY <1>2, <3>1, <3>2 DEF IInv, CycleInv
  <2>2. CASE cycle' = Done("prompt")
    BY <1>2, <2>2, CycleDone DEF IInv
  <2> QED
    BY <1>2, <2>1, <2>2
<1> QED
  BY <1>8, <1>9 DEF IInv

LEMMA AttemptPromptStep ==
  ASSUME IInv, NEW p \in Packets, AttemptPrompt(p)
  PROVE  IInv'
<1> DEFINE ps == [mem[p] EXCEPT !.pending.attempt = cycle.at]
           j == [mem EXCEPT ![p].pending.attempt = cycle.at]
<1>1. /\ cycle # None /\ cycle.step = "attempt" /\ p = Head(cycle.todo)
      /\ mem' = j /\ UNCHANGED <<native, sent, wire>>
      /\ \/ disk' = j /\ cycle' = [cycle EXCEPT !.step = "post"]
         \/ disk' \in {disk, j} /\ cycle' = Done("prompt")
  BY Zenon DEF AttemptPrompt, Serving, Persist, PersistFails
<1>2. /\ JournalOK(mem, sent, native) /\ PacketOK(p, mem[p], sent, native[p])
  BY JournalPackets DEF IInv, JournalInv
<1>3. /\ mem[p].pending # None /\ cycle.at \in Nat
      /\ DOMAIN cycle = {"step", "todo", "compacting", "selected", "seen", "at"}
  BY <1>1 DEF IInv, CycleInv
<1>4. PacketOK(p, ps, sent, native[p]) /\ ps.pending # None /\ ps.pending.attempt # None
  BY <1>2, <1>3, AttemptOK
<1>5. j = [mem EXCEPT ![p] = ps]
  OBVIOUS
<1> HIDE DEF ps, j
<1>6. JournalOK(j, sent, native)
  BY <1>2, <1>4, <1>5, ReplacePacket
<1>7. j[p] = ps
  BY <1>2, <1>5 DEF JournalOK
<1>8. JournalInv'
  BY <1>1, <1>6, JournalEdit DEF IInv
<1>9. CycleInv'
  <2>1. CASE disk' = j /\ cycle' = [cycle EXCEPT !.step = "post"]
    <3>1. /\ DOMAIN cycle' = DOMAIN cycle /\ cycle'.at = cycle.at /\ cycle'.seen = cycle.seen
          /\ cycle'.step = "post" /\ cycle'.todo = cycle.todo
      BY <1>3, <2>1
    <3>2. \A q \in Packets : q = Head(cycle'.todo) =>
             mem'[q].pending # None /\ mem'[q].pending.attempt # None
      BY <1>1, <1>4, <1>7, <3>1
    <3> QED
      BY <1>1, <2>1, <3>1, <3>2 DEF IInv, CycleInv
  <2>2. CASE cycle' = Done("prompt")
    BY <1>1, <2>2, CycleDone DEF IInv
  <2> QED
    BY <1>1, <2>1, <2>2
<1> QED
  BY <1>8, <1>9 DEF IInv

\* The input is sent as both journals hold it, with its attempt.
LEMMA PostPromptStep ==
  ASSUME IInv, NEW p \in Packets, PostPrompt(p)
  PROVE  IInv'
<1> DEFINE body == mem[p].pending.body
           request == [to |-> p, body |-> body, compaction |-> None]
<1>1. /\ cycle # None /\ cycle.step = "post" /\ p = Head(cycle.todo)
      /\ UNCHANGED <<mem, disk>> /\ sent' = sent \cup {body} /\ cycle' = Done("prompt")
      /\ native' \in {native, Take(p, body)} /\ wire' \in {wire, wire \cup {request}}
  BY Zenon DEF PostPrompt, Serving, Send
<1>2. /\ JournalOK(mem, sent, native) /\ native \in [Packets -> Sessions]
      /\ wire \subseteq Requests /\ sent \subseteq Bodies
      /\ \A a, b \in sent : a.id = b.id => a = b
  BY DEF IInv, JournalInv
<1>3. mem[p].pending # None /\ mem[p].pending.attempt # None /\ disk = mem
  BY <1>1 DEF IInv, CycleInv
<1>4. /\ body \in Bodies /\ body.id.session = p
      /\ \A a \in sent : a.id = body.id => a = body
  <2>1. mem[p] \in PacketStates /\ Named(p, mem[p]) /\ Journalled(p, mem[p], sent)
    BY <1>2 DEF JournalOK
  <2>2. mem[p].pending \in PendingInputs
    BY <1>3, <2>1 DEF PacketStates
  <2>3. body \in Bodies /\ body.id.session = p
    BY <1>3, <2>1, <2>2 DEF PendingInputs, Named
  <2> QED
    BY <1>3, <2>1, <2>3 DEF Journalled
<1>5. request \in Requests
  BY <1>4 DEF Requests
<1>6. JournalOK(mem, sent', native)
  BY <1>1, <1>2, <1>3, PostOK
<1> HIDE DEF body, request
<1>7. /\ native' \in [Packets -> Sessions]
      /\ \A q \in Packets :
            native[q].inbox \cup native[q].log \subseteq native'[q].inbox \cup native'[q].log
  BY <1>1, <1>2, <1>4, TakeOK
<1>8. JournalOK(mem, sent', native')
  BY <1>6, <1>7, SessionsGrow
<1>9. sent' \subseteq Bodies /\ wire' \subseteq Requests
      /\ \A a, b \in sent' : a.id = b.id => a = b
  BY <1>1, <1>2, <1>4, <1>5
<1>10. JournalInv'
  <2>1. mem' = mem /\ disk' = mem
    BY <1>1, <1>3
  <2> QED
    BY <1>7, <1>8, <1>9, <2>1, Zenon DEF JournalInv
<1>11. CycleInv'
  BY <1>1, CycleDone DEF IInv
<1> QED
  BY <1>10, <1>11 DEF IInv

LEMMA EndCycleStep == ASSUME IInv, EndCycle PROVE IInv'
<1>1. /\ mem' = mem /\ disk' \in {disk, mem} /\ UNCHANGED <<native, sent, wire>>
      /\ cycle' = None
  BY Zenon DEF EndCycle, Persist, PersistFails
<1>2. JournalInv'
  BY <1>1, JournalEdit DEF IInv, JournalInv
<1> QED
  BY <1>1, <1>2 DEF IInv, CycleInv

\* A refresh changes what an event is, never what was retained of the last one.
LEMMA RefreshStep ==
  ASSUME IInv, NEW p \in Packets, Refresh(p)
  PROVE  IInv'
<1>1. PICK v \in Versions : mem' = [mem EXCEPT ![p].version = v, ![p].obs = v]
  BY Zenon DEF Refresh
<1> DEFINE ps == [mem[p] EXCEPT !.version = v, !.obs = v]
           j == [mem EXCEPT ![p] = ps]
<1>2. /\ JournalOK(mem, sent, native) /\ PacketOK(p, mem[p], sent, native[p])
  BY JournalPackets DEF IInv, JournalInv
<1>3. mem \in [Packets -> PacketStates] /\ mem[p] \in PacketStates
  BY <1>2 DEF PacketOK, JournalOK
<1>4. ps \in PacketStates /\ ps.pending = mem[p].pending /\ ps.generation = mem[p].generation
  BY <1>3 DEF PacketStates
<1>5. /\ mem' = j /\ disk' = disk /\ UNCHANGED <<native, sent, wire>>
      /\ cycle' = None
  BY <1>1, <1>3 DEF Refresh
<1> HIDE DEF ps
<1>6. JournalOK(j, sent, native)
  BY <1>2, <1>4, OtherFieldsOK, ReplacePacket
<1> HIDE DEF j
<1>7. JournalInv'
  BY <1>5, <1>6, JournalEdit DEF IInv
<1> QED
  BY <1>5, <1>7 DEF IInv, CycleInv

LEMMA CrashStep == ASSUME IInv, Crash PROVE IInv'
<1>1. /\ mem' = disk /\ disk' = disk /\ UNCHANGED <<native, sent, wire>> /\ cycle' = None
  BY Zenon DEF Crash
<1>2. JournalInv'
  BY <1>1, JournalEdit DEF IInv, JournalInv
<1> QED
  BY <1>1, <1>2 DEF IInv, CycleInv

\* The cycle keeps its facts while only the fence or the sessions move.
LEMMA CycleFrame ==
  ASSUME CycleInv, UNCHANGED <<mem, disk, cycle>>
  PROVE  CycleInv'
BY DEF CycleInv

LEMMA ArriveStep ==
  ASSUME IInv, NEW request \in wire, Arrive(request)
  PROVE  IInv'
<1>1. /\ UNCHANGED <<mem, disk, sent, cycle>> /\ wire' = wire \ {request}
      /\ native' = IF request.body # None THEN Take(request.to, request.body)
                   ELSE TakeCompaction(request.to, request.compaction)
  BY Zenon DEF Arrive
<1>2. native \in [Packets -> Sessions] /\ wire \subseteq Requests
  BY DEF IInv, JournalInv
<1>3. request.to \in Packets /\ request.body \in Bodies \cup {None}
  BY <1>2 DEF Requests
<1>4. /\ native' \in [Packets -> Sessions]
      /\ \A q \in Packets :
            native[q].inbox \cup native[q].log \subseteq native'[q].inbox \cup native'[q].log
  BY <1>1, <1>2, <1>3, TakeOK, TakeCompactionOK
<1>5. wire' \subseteq Requests
  BY <1>1, <1>2
<1>6. JournalInv'
  BY <1>1, <1>4, <1>5, JournalNative DEF IInv
<1> QED
  BY <1>1, <1>6, CycleFrame DEF IInv

\* Whatever a session does, it keeps the inputs it took.
LEMMA SessionStep ==
  ASSUME IInv, NEW p \in Packets, Session(p)
  PROVE  IInv'
<1>1. native \in [Packets -> Sessions] /\ native[p] \in Sessions
  BY DEF IInv, JournalInv
<1>2. \E s \in Sessions : /\ Native(p, s)
                         /\ native[p].inbox \cup native[p].log \subseteq s.inbox \cup s.log
  <2>1. CASE Work(p)
    <3> DEFINE s == [native[p] EXCEPT !.active = TRUE, !.inbox = {},
                                      !.log = @ \cup native[p].inbox]
    <3>1. s \in Sessions /\ s.log = native[p].log \cup native[p].inbox
      BY <1>1 DEF Sessions
    <3>2. Native(p, s)
      BY <2>1, Zenon DEF Work
    <3> HIDE DEF s
    <3> QED
      BY <3>1, <3>2
  <2>2. CASE EndTurn(p)
    <3>1. PICK high \in BOOLEAN :
            Native(p, [native[p] EXCEPT !.active = FALSE, !.phys = @ + 1, !.high = high])
      BY <2>2, Zenon DEF EndTurn
    <3> DEFINE n == native[p].phys + 1
               s == [native[p] EXCEPT !.active = FALSE, !.phys = n, !.high = high]
    <3>3. n \in Nat
      BY <1>1 DEF Sessions
    <3> HIDE DEF n
    <3>2. s \in Sessions /\ s.inbox = native[p].inbox /\ s.log = native[p].log
      BY <1>1, <3>3 DEF Sessions
    <3> USE DEF n
    <3> QED
      BY <3>1, <3>2, Zenon
  <2>3. CASE StartCompaction(p)
    <3>1. PICK c \in Phys : Native(p, [native[p] EXCEPT !.compactions[c] = "running"])
      BY <2>3, Zenon DEF StartCompaction
    <3> DEFINE s == [native[p] EXCEPT !.compactions[c] = "running"]
    <3>2. s \in Sessions /\ s.inbox = native[p].inbox /\ s.log = native[p].log
      BY <1>1 DEF Sessions
    <3> QED
      BY <3>1, <3>2, Zenon
  <2>4. CASE EndCompaction(p)
    <3>1. PICK c \in Phys :
            \/ Native(p, [native[p] EXCEPT !.compactions[c] = "completed", !.high = FALSE])
            \/ Native(p, [native[p] EXCEPT !.compactions[c] = "failed"])
      BY <2>4, Zenon DEF EndCompaction
    <3> DEFINE s == [native[p] EXCEPT !.compactions[c] = "completed", !.high = FALSE]
               f == [native[p] EXCEPT !.compactions[c] = "failed"]
    <3>2. s \in Sessions /\ s.inbox = native[p].inbox /\ s.log = native[p].log
      BY <1>1 DEF Sessions
    <3>3. f \in Sessions /\ f.inbox = native[p].inbox /\ f.log = native[p].log
      BY <1>1 DEF Sessions
    <3> QED
      BY <3>1, <3>2, <3>3, Zenon
  <2> QED
    BY <2>1, <2>2, <2>3, <2>4 DEF Session
<1>3. PICK s \in Sessions : /\ Native(p, s)
                           /\ native[p].inbox \cup native[p].log \subseteq s.inbox \cup s.log
  BY <1>2
<1>4. UNCHANGED <<mem, disk, sent, wire, cycle>> /\ native' = [native EXCEPT ![p] = s]
  BY <1>3, Zenon DEF Native
<1>5. /\ native' \in [Packets -> Sessions]
      /\ \A q \in Packets :
            native[q].inbox \cup native[q].log \subseteq native'[q].inbox \cup native'[q].log
  BY <1>1, <1>3, <1>4
<1>6. wire' \subseteq Requests
  BY <1>4 DEF IInv, JournalInv
<1>7. JournalInv'
  BY <1>4, <1>5, <1>6, JournalNative DEF IInv
<1> QED
  BY <1>4, <1>7, CycleFrame DEF IInv

-----------------------------------------------------------------------------
\* The invariant is inductive, and so holds of every behaviour.
LEMMA NextStep == ASSUME IInv, [Next]_vars PROVE IInv'
<1>1. CASE UNCHANGED vars
  <2>1. UNCHANGED <<mem, disk, native, sent, wire, cycle>>
    BY <1>1, Zenon DEF vars
  <2> QED
    BY <2>1, JournalFrame, CycleFrame DEF IInv
<1>2. CASE LoseFence
  <2>1. UNCHANGED <<mem, disk, native, sent, wire, cycle>>
    BY <1>2, Zenon DEF LoseFence
  <2> QED
    BY <2>1, JournalFrame, CycleFrame DEF IInv
<1>3. CASE Plan
  BY <1>3, PlanStep
<1>4. CASE StartPrompts
  BY <1>4, StartPromptsStep
<1>5. CASE EndCycle
  BY <1>5, EndCycleStep
<1>6. ASSUME NEW p \in Packets,
             \/ SkipCompaction(p) \/ AwaitCompaction(p) \/ AbortCycle(p)
             \/ SkipPrompt(p) \/ FailPrompt(p)
      PROVE  IInv'
  BY <1>6, GoOnStep
<1>7. ASSUME NEW p \in Packets, PrepareCompaction(p) PROVE IInv'
  BY <1>7, PrepareCompactionStep
<1>8. ASSUME NEW p \in Packets, AskCompaction(p) PROVE IInv'
  BY <1>8, AskCompactionStep
<1>9. ASSUME NEW p \in Packets, PreparePrompt(p) PROVE IInv'
  BY <1>9, PreparePromptStep
<1>10. ASSUME NEW p \in Packets, AttemptPrompt(p) PROVE IInv'
  BY <1>10, AttemptPromptStep
<1>11. ASSUME NEW p \in Packets, PostPrompt(p) PROVE IInv'
  BY <1>11, PostPromptStep
<1>12. ASSUME NEW p \in Packets, Refresh(p) PROVE IInv'
  BY <1>12, RefreshStep
<1>13. ASSUME NEW p \in Packets, Session(p) PROVE IInv'
  BY <1>13, SessionStep
<1>14. ASSUME NEW request \in wire, Arrive(request) PROVE IInv'
  BY <1>14, ArriveStep
<1>15. CASE Crash
  BY <1>15, CrashStep
<1> QED
  BY <1>1, <1>2, <1>3, <1>4, <1>5, <1>6, <1>7, <1>8, <1>9, <1>10, <1>11, <1>12, <1>13,
     <1>14, <1>15, Zenon DEF Next, Cycle, Environment

LEMMA Invariance == Spec => []IInv
BY InitIInv, NextStep, PTL DEF Spec

\* No sequence of crashes, failed saves, late requests and retries sends one
\* identity with two bodies, or retains it with another one: prepare() keeps a
\* retained input, and a fresh one takes a generation no sent input has.
THEOREM NeverRebound == Spec => []NoIdRebinding
<1>1. IInv => NoIdRebinding
  <2> SUFFICES ASSUME IInv, NEW a \in sent,
                      NEW c \in sent \cup {i.body : i \in Pending(mem) \cup Pending(disk)},
                      a.id = c.id
               PROVE  a = c
    BY DEF NoIdRebinding
  <2>1. CASE c \in sent
    BY <2>1 DEF IInv, JournalInv
  <2>2. ASSUME NEW j, JournalOK(j, sent, native), NEW i \in Pending(j), c = i.body
        PROVE  a = c
    <3>1. PICK p \in Packets : i = j[p].pending /\ i # None
      BY <2>2 DEF Pending
    <3>2. Named(p, j[p]) /\ Journalled(p, j[p], sent)
      BY <2>2 DEF JournalOK
    <3>3. a.id.session = p
      BY <2>2, <3>1, <3>2 DEF Named
    <3> QED
      BY <2>2, <3>1, <3>2, <3>3 DEF Journalled
  <2>3. c \in sent \/ (\E i \in Pending(mem) \cup Pending(disk) : c = i.body)
    OBVIOUS
  <2> QED
    BY <2>1, <2>2, <2>3 DEF IInv, JournalInv
<1> QED
  BY <1>1, Invariance, PTL

\* An input is journalled with its attempt before it is sent, and stays so until
\* it is acknowledged: no later save, nor a crash, takes it back.
THEOREM SentStaysJournalled == Spec => []SentIsJournalled
<1>1. IInv => SentIsJournalled
  <2> SUFFICES ASSUME IInv, NEW body \in sent
               PROVE  LET ps == disk[body.id.session]
                      IN  /\ body.id.generation <= ps.generation
                          /\ ps.pending # None /\ ps.pending.body.id = body.id =>
                                ps.pending.attempt # None
    BY DEF SentIsJournalled
  <2>1. body.id.session \in Packets
    BY DEF IInv, JournalInv, Bodies
  <2> QED
    BY <2>1 DEF IInv, JournalInv, JournalOK, Journalled
<1> QED
  BY <1>1, Invariance, PTL

\* acknowledge() is called only for an input the session has, so every generation
\* below the retained one has really arrived.
THEOREM NeverLost == Spec => []NothingLost
<1>1. IInv => NothingLost
  <2> SUFFICES ASSUME IInv, NEW p \in Packets,
                      NEW g \in 1 .. disk[p].generation,
                      disk[p].pending # None => g # disk[p].pending.body.id.generation
               PROVE  g \in {b.id.generation : b \in Inputs(p)}
    BY DEF NothingLost
  <2>1. Arrived(disk[p], native[p])
    BY DEF IInv, JournalInv, JournalOK
  <2>2. PICK b \in native[p].inbox \cup native[p].log : b.id.generation = g
    BY <2>1 DEF Arrived
  <2> QED
    BY <2>2 DEF Inputs
<1> QED
  BY <1>1, Invariance, PTL
-----------------------------------------------------------------------------
(* Places on a host.                                                       *)

\* No host has more than its limit of the owners S.
Within(S) == \A p \in Packets : Cardinality(OnHost(S, Host[p])) <= Capacity[Host[p]]

Busy(N) == {p \in Packets : Occupied(N[p])}

\* The owners that are at work, or may be after an input or compaction of either
\* journal.
Holding == Busy(native) \cup Retained(mem) \cup Retained(disk)

\* The owners that have a place in the cycle.
Reserved == Busy(cycle.seen) \cup Range(cycle.selected)

\* What was sent has arrived, or the journal j retains it.
Awaited(j, S, N) ==
    \A b \in S :
        \/ b \in N[b.id.session].inbox \cup N[b.id.session].log
        \/ j[b.id.session].pending # None /\ j[b.id.session].pending.body = b

\* So it is of the compactions that were asked for.
Underway(j, W, N) ==
    \A r \in W :
        r.body = None /\ r.compaction \in Phys =>
            \/ N[r.to].compactions[r.compaction] # "none"
            \/ j[r.to].compaction = r.compaction

AwaitInv ==
    /\ \A r \in wire : r.body # None => r.body \in sent /\ r.body.id.session = r.to
    /\ Awaited(mem, sent, native) /\ Underway(mem, wire, native)
    /\ Awaited(disk, sent, native) /\ Underway(disk, wire, native)

\* What the cycle has still to serve.
TodoInv ==
    cycle # None =>
        /\ cycle.selected \in Seq(Packets) /\ cycle.todo \in Seq(Packets)
        /\ cycle.step = "compact" =>
              /\ \A i, k \in DOMAIN cycle.todo : cycle.todo[i] = cycle.todo[k] => i = k
              /\ \A p \in Range(cycle.todo) : disk[p].compaction = mem[p].compaction
        /\ cycle.step # "compact" => Range(cycle.todo) \subseteq Range(cycle.selected)

RoomInv == IF cycle = None THEN Within(Holding) ELSE Within(Reserved) /\ Holding \subseteq Reserved

PlaceInv == TodoInv /\ AwaitInv /\ RoomInv

-----------------------------------------------------------------------------
(* The selection.                                                          *)

LEMMA FiniteOwners ==
  ASSUME NEW S \in SUBSET Packets, NEW h
  PROVE  /\ IsFiniteSet(S) /\ IsFiniteSet(OnHost(S, h))
         /\ Cardinality(OnHost(S, h)) \in Nat
<1>1. IsFiniteSet(S)
  BY FinitePackets, FS_Subset, Zenon
<1>2. OnHost(S, h) \subseteq S
  BY DEF OnHost
<1>3. IsFiniteSet(OnHost(S, h))
  BY <1>1, <1>2, FS_Subset, Zenon
<1> QED
  BY <1>1, <1>3, FS_CardinalityType, Zenon

LEMMA FewerOnHost ==
  ASSUME NEW S, NEW T \in SUBSET Packets, S \subseteq T, NEW h
  PROVE  Cardinality(OnHost(S, h)) <= Cardinality(OnHost(T, h))
<1>1. OnHost(S, h) \subseteq OnHost(T, h)
  BY DEF OnHost
<1>2. IsFiniteSet(OnHost(T, h))
  BY FiniteOwners
<1> QED
  BY <1>1, <1>2, FS_Subset, Zenon

LEMMA CapacityType == ASSUME NEW p \in Packets PROVE Capacity[Host[p]] \in Nat
BY DriverAssumption

LEMMA WithinFewer ==
  ASSUME NEW S, NEW T \in SUBSET Packets, S \subseteq T, Within(T)
  PROVE  Within(S)
<1> SUFFICES ASSUME NEW p \in Packets
             PROVE  Cardinality(OnHost(S, Host[p])) <= Capacity[Host[p]]
  BY DEF Within
<1>1. Cardinality(OnHost(S, Host[p])) <= Cardinality(OnHost(T, Host[p]))
  BY FewerOnHost
<1>2. Cardinality(OnHost(T, Host[p])) <= Capacity[Host[p]]
  BY DEF Within
<1>3. /\ Cardinality(OnHost(S, Host[p])) \in Nat /\ Cardinality(OnHost(T, Host[p])) \in Nat
      /\ Capacity[Host[p]] \in Nat
  BY FiniteOwners, CapacityType
<1> QED
  BY <1>1, <1>2, <1>3

\* Who gets a place is within the limits: the last one of a host still had room
\* next to all that got one there before.
LEMMA ServedWithin ==
  ASSUME NEW order, NEW n \in Nat, DOMAIN order = 1 .. n,
         NEW wanted \in SUBSET Packets, NEW reserved \in SUBSET Packets, Within(reserved)
  PROVE  Within(reserved \cup {order[i] : i \in Served(order, wanted, reserved)})
<1> DEFINE I == Served(order, wanted, reserved)
           All == reserved \cup {order[i] : i \in I}
<1> SUFFICES ASSUME NEW p \in Packets
             PROVE  Cardinality(OnHost(All, Host[p])) <= Capacity[Host[p]]
  BY DEF Within
<1> DEFINE J == {i \in I : Host[order[i]] = Host[p]}
           earlier(i) == {order[k] : k \in 1 .. i - 1}
<1>1. \A i \in I : /\ i \in 1 .. n /\ order[i] \in wanted
                   /\ Room(reserved \cup (wanted \cap earlier(i)), order[i])
  BY DEF Served
<1>2. CASE J = {}
  <2>1. OnHost(All, Host[p]) = OnHost(reserved, Host[p])
    BY <1>2 DEF OnHost
  <2> QED
    BY <2>1 DEF Within
<1>3. CASE J # {}
  <2>1. J \in SUBSET (1 .. n)
    BY <1>1
  <2>2. IsFiniteSet(J)
    <3>1. IsFiniteSet(1 .. n)
      BY FS_Interval
    <3> QED
      BY <2>1, <3>1, FS_Subset, Zenon
  <2>3. J \in SUBSET Nat
    BY <2>1
  <2> HIDE DEF J
  <2>4. PICK m \in J : \A k \in J : m >= k
    BY <1>3, <2>2, <2>3, HasMax
  <2> USE DEF J
  <2> DEFINE T == reserved \cup (wanted \cap earlier(m))
  <2>5. /\ m \in 1 .. n /\ order[m] \in Packets /\ Host[order[m]] = Host[p]
        /\ Room(T, order[m])
    BY <1>1, <2>4
  <2>6. OnHost(All, Host[p]) \subseteq OnHost(T, Host[p]) \cup {order[m]}
    <3> SUFFICES ASSUME NEW i \in J, i # m PROVE order[i] \in earlier(m)
      BY <1>1 DEF OnHost
    <3>1. i \in 1 .. n /\ m >= i
      BY <2>1, <2>4
    <3>2. i \in 1 .. m - 1
      BY <2>5, <3>1
    <3> QED
      BY <3>2
  <2>7. T \in SUBSET Packets
    OBVIOUS
  <2> HIDE DEF T, All, J, I
  <2>8. IsFiniteSet(OnHost(T, Host[p])) /\ Cardinality(OnHost(T, Host[p])) \in Nat
    BY <2>7, FiniteOwners
  <2>9. /\ IsFiniteSet(OnHost(T, Host[p]) \cup {order[m]})
        /\ \/ Cardinality(OnHost(T, Host[p]) \cup {order[m]}) = Cardinality(OnHost(T, Host[p])) + 1
           \/ Cardinality(OnHost(T, Host[p]) \cup {order[m]}) = Cardinality(OnHost(T, Host[p]))
    BY <2>8, FS_AddElement, Zenon
  <2>10. /\ Cardinality(OnHost(All, Host[p])) <= Cardinality(OnHost(T, Host[p]) \cup {order[m]})
         /\ IsFiniteSet(OnHost(All, Host[p]))
    BY <2>6, <2>9, FS_Subset, Zenon
  <2>11. Cardinality(OnHost(All, Host[p])) \in Nat
    BY <2>10, FS_CardinalityType, Zenon
  <2>12. Cardinality(OnHost(T, Host[p])) < Capacity[Host[p]] /\ Capacity[Host[p]] \in Nat
    BY <2>5, CapacityType DEF Room
  <2> QED
    BY <2>8, <2>9, <2>10, <2>11, <2>12
<1> QED
  BY <1>2, <1>3

\* Those that are wanted and fit all get a place.
LEMMA AllServed ==
  ASSUME NEW wanted \in SUBSET Packets, NEW reserved \in SUBSET Packets,
         Within(reserved \cup wanted)
  PROVE  wanted \subseteq reserved \cup {Manifest[i] : i \in Served(Manifest, wanted, reserved)}
<1> SUFFICES ASSUME NEW p \in wanted, p \notin reserved
             PROVE  \E i \in Served(Manifest, wanted, reserved) : p = Manifest[i]
  OBVIOUS
<1>1. PICK i \in DOMAIN Manifest : p = Manifest[i]
  BY DEF Packets, Range
<1> DEFINE earlier == {Manifest[k] : k \in 1 .. i - 1}
           T == reserved \cup (wanted \cap earlier)
<1>2. p \notin earlier
  <2> SUFFICES ASSUME NEW k \in 1 .. i - 1, Manifest[k] = Manifest[i] PROVE FALSE
    BY <1>1
  <2>1. DOMAIN Manifest = 1 .. Len(Manifest) /\ Len(Manifest) \in Nat
    BY DriverAssumption
  <2>2. k \in DOMAIN Manifest /\ k # i
    BY <2>1
  <2> QED
    BY <2>2, DriverAssumption
<1>3. Room(T, p)
  <2> DEFINE A == OnHost(T, Host[p])
             B == OnHost(reserved \cup wanted, Host[p])
  <2>1. A \subseteq B /\ p \in B /\ p \notin A
    BY <1>2 DEF OnHost
  <2>2. IsFiniteSet(B) /\ Cardinality(B) \in Nat /\ IsFiniteSet(A) /\ Cardinality(A) \in Nat
    BY FiniteOwners
  <2>3. Cardinality(B) <= Capacity[Host[p]]
    BY DEF Within
  <2> HIDE DEF A, B
  <2>4. A \cup {p} \subseteq B
    BY <2>1
  <2>5. Cardinality(A \cup {p}) = Cardinality(A) + 1
    BY <2>1, <2>2, FS_AddElement, Zenon
  <2>6. Cardinality(A \cup {p}) <= Cardinality(B)
    BY <2>2, <2>4, FS_Subset, Zenon
  <2>7. Cardinality(A) < Capacity[Host[p]]
    BY <2>2, <2>3, <2>5, <2>6, CapacityType
  <2> QED
    BY <2>7 DEF Room, A
<1>4. i \in Served(Manifest, wanted, reserved)
  BY <1>1, <1>2, <1>3 DEF Served
<1> QED
  BY <1>1, <1>4

\* Below each member of a finite set of numbers there are as many as its rank.
LEMMA EveryRank ==
  ASSUME NEW I \in SUBSET Nat, IsFiniteSet(I), NEW n \in 1 .. Cardinality(I)
  PROVE  \E i \in I : Cardinality({k \in I : k < i}) = n - 1
<1> DEFINE G == {c \in Nat : \A T \in SUBSET Nat :
                   IsFiniteSet(T) /\ Cardinality(T) = c =>
                      \A m \in 1 .. c : \E i \in T : Cardinality({k \in T : k < i}) = m - 1}
<1>1. 0 \in G
  OBVIOUS
<1>2. ASSUME NEW c \in Nat, c \in G PROVE c + 1 \in G
  <2> SUFFICES ASSUME NEW T \in SUBSET Nat, IsFiniteSet(T), Cardinality(T) = c + 1,
                      NEW m \in 1 .. c + 1
               PROVE  \E i \in T : Cardinality({k \in T : k < i}) = m - 1
    OBVIOUS
  <2>1. T # {}
    BY FS_EmptySet
  <2>2. PICK a \in T : \A x \in T : a >= x
    BY <2>1, HasMax
  <2>3. IsFiniteSet(T \ {a}) /\ Cardinality(T \ {a}) = c
    <3>1. IsFiniteSet(T \ {a}) /\ Cardinality(T \ {a}) = Cardinality(T) - 1
      BY <2>2, FS_RemoveElement, Zenon
    <3> QED
      BY <3>1
  <2>4. CASE m = c + 1
    <3>1. \A k \in T : k \in Nat /\ (k < a <=> k # a)
      BY <2>2
    <3>3. {k \in T : k < a} = T \ {a}
      BY <2>2, <3>1, Zenon
    <3>2. c = m - 1
      BY <2>4
    <3>4. Cardinality({k \in T : k < a}) = m - 1
      BY <2>3, <3>2, <3>3, Zenon
    <3> QED
      BY <2>2, <3>4, Zenon
  <2>5. CASE m # c + 1
    <3>1. m \in 1 .. c
      BY <2>5
    <3>2. PICK i \in T \ {a} : Cardinality({k \in T \ {a} : k < i}) = m - 1
      BY <1>2, <2>3, <3>1
    <3>3. {k \in T : k < i} = {k \in T \ {a} : k < i}
      BY <2>2, <3>2
    <3> QED
      BY <3>2, <3>3
  <2> QED
    BY <2>4, <2>5
<1> HIDE DEF G
<1>3. Nat \subseteq G
  BY <1>1, <1>2, NatSetInduction
<1>4. Cardinality(I) \in Nat
  BY FS_CardinalityType
<1> QED
  BY <1>3, <1>4 DEF G

LEMMA RankBelow ==
  ASSUME NEW I \in SUBSET Nat, IsFiniteSet(I), NEW i \in I
  PROVE  /\ Cardinality({k \in I : k < i}) \in 0 .. Cardinality(I) - 1
         /\ \A j \in I : i < j => Cardinality({k \in I : k < i}) < Cardinality({k \in I : k < j})
<1> DEFINE B(j) == {k \in I : k < j}
<1>1. \A j \in I : IsFiniteSet(B(j)) /\ Cardinality(B(j)) \in Nat
  <2> TAKE j \in I
  <2>1. B(j) \subseteq I
    OBVIOUS
  <2>2. IsFiniteSet(B(j))
    BY <2>1, FS_Subset, Zenon
  <2> QED
    BY <2>2, FS_CardinalityType, Zenon
<1>2. Cardinality(B(i) \cup {i}) = Cardinality(B(i)) + 1
  <2>1. i \notin B(i)
    OBVIOUS
  <2> QED
    BY <1>1, <2>1, FS_AddElement, Zenon
<1>3. Cardinality(B(i)) + 1 <= Cardinality(I) /\ Cardinality(I) \in Nat
  <2>1. B(i) \cup {i} \subseteq I
    OBVIOUS
  <2>2. Cardinality(B(i) \cup {i}) <= Cardinality(I)
    BY <2>1, FS_Subset, Zenon
  <2> QED
    BY <1>2, <2>2, FS_CardinalityType
<1>4. ASSUME NEW j \in I, i < j PROVE Cardinality(B(i)) + 1 <= Cardinality(B(j))
  <2>1. B(i) \cup {i} \subseteq B(j)
    <3>1. \A k \in I : k < i => k < j
      BY <1>4
    <3> QED
      BY <1>4, <3>1
  <2>2. Cardinality(B(i) \cup {i}) <= Cardinality(B(j))
    BY <1>1, <2>1, FS_Subset, Zenon
  <2> QED
    BY <1>2, <2>2
<1> HIDE DEF B
<1>5. /\ Cardinality(B(i)) \in 0 .. Cardinality(I) - 1
      /\ \A j \in I : i < j => Cardinality(B(i)) < Cardinality(B(j))
  BY <1>1, <1>3, <1>4
<1> QED
  BY <1>5 DEF B

\* InOrder lists the owners at the positions, and no other.
LEMMA InOrderLists ==
  ASSUME NEW order, NEW I \in SUBSET Nat, IsFiniteSet(I), \A i \in I : order[i] \in Packets
  PROVE  /\ InOrder(order, I) \in Seq(Packets)
         /\ Range(InOrder(order, I)) = {order[i] : i \in I}
<1> DEFINE at(n) == CHOOSE i \in I : Cardinality({k \in I : k < i}) = n - 1
           c == Cardinality(I)
<1>1. c \in Nat
  BY FS_CardinalityType
<1>2. \A n \in 1 .. c : at(n) \in I
  BY EveryRank
<1>3. \A i \in I : \E n \in 1 .. c : at(n) = i
  <2> TAKE i \in I
  <2> DEFINE n == Cardinality({k \in I : k < i}) + 1
  <2>1. n \in 1 .. c /\ n - 1 = Cardinality({k \in I : k < i})
    BY <1>1, RankBelow
  <2> HIDE DEF n
  <2>2. at(n) \in I /\ Cardinality({k \in I : k < at(n)}) = n - 1
    BY <2>1, EveryRank
  <2>3. \A j \in I : Cardinality({k \in I : k < j}) = n - 1 => j = i
    <3> SUFFICES ASSUME NEW j \in I, Cardinality({k \in I : k < j}) = n - 1, j # i PROVE FALSE
      OBVIOUS
    <3>1. i < j \/ j < i
      OBVIOUS
    <3>2. n - 1 < n - 1
      BY <2>1, <3>1, RankBelow
    <3> QED
      BY <2>1, <3>2
  <2> QED
    BY <2>1, <2>2, <2>3
<1> HIDE DEF at, c
<1>4. InOrder(order, I) = [n \in 1 .. c |-> order[at(n)]]
  BY DEF InOrder, at, c
<1>5. InOrder(order, I) \in Seq(Packets)
  <2>1. \A n \in 1 .. c : order[at(n)] \in Packets
    BY <1>2
  <2> QED
    BY <1>1, <1>4, <2>1
<1>6. Range(InOrder(order, I)) = {order[at(n)] : n \in 1 .. c}
  BY <1>4 DEF Range
<1>7. {order[at(n)] : n \in 1 .. c} = {order[i] : i \in I}
  BY <1>2, <1>3
<1> QED
  BY <1>5, <1>6, <1>7

\* The admitted owners are those at the positions that are served.
LEMMA AdmittedLists ==
  ASSUME NEW order, NEW n \in Nat, DOMAIN order = 1 .. n,
         NEW wanted \in SUBSET Packets, NEW reserved
  PROVE  /\ Admitted(order, wanted, reserved) \in Seq(Packets)
         /\ Range(Admitted(order, wanted, reserved)) =
               {order[i] : i \in Served(order, wanted, reserved)}
<1> DEFINE I == Served(order, wanted, reserved)
<1>1. I \in SUBSET (1 .. n) /\ \A i \in I : order[i] \in Packets
  BY DEF Served
<1>2. Admitted(order, wanted, reserved) = InOrder(order, I)
  BY DEF Admitted
<1> HIDE DEF I
<1>3. IsFiniteSet(I)
  <2>1. IsFiniteSet(1 .. n)
    BY FS_Interval
  <2> QED
    BY <1>1, <2>1, FS_Subset, Zenon
<1>4. I \in SUBSET Nat
  BY <1>1
<1> QED
  BY <1>1, <1>2, <1>3, <1>4, InOrderLists DEF I

\* Two lists of owners one after the other.
LEMMA RangeConcat ==
  ASSUME NEW s \in Seq(Packets), NEW t \in Seq(Packets)
  PROVE  s \o t \in Seq(Packets) /\ Range(s \o t) = Range(s) \cup Range(t)
<1>1. s \o t \in Seq(Packets)
  OBVIOUS
<1>2. \A i \in 1 .. Len(s) + Len(t) :
         (s \o t)[i] = IF i <= Len(s) THEN s[i] ELSE t[i - Len(s)]
  OBVIOUS
<1>3. /\ DOMAIN s = 1 .. Len(s) /\ Len(s) \in Nat
      /\ DOMAIN t = 1 .. Len(t) /\ Len(t) \in Nat
      /\ DOMAIN (s \o t) = 1 .. Len(s) + Len(t)
  OBVIOUS
<1>4. Range(s \o t) \subseteq Range(s) \cup Range(t)
  BY <1>2, <1>3 DEF Range
<1>5. Range(s) \subseteq Range(s \o t)
  <2> SUFFICES ASSUME NEW i \in 1 .. Len(s)
               PROVE  \E k \in 1 .. Len(s) + Len(t) : s[i] = (s \o t)[k]
    BY <1>3 DEF Range
  <2> QED
    BY <1>2, <1>3
<1>6. Range(t) \subseteq Range(s \o t)
  <2> SUFFICES ASSUME NEW i \in 1 .. Len(t)
               PROVE  \E k \in 1 .. Len(s) + Len(t) : t[i] = (s \o t)[k]
    BY <1>3 DEF Range
  <2>1. /\ i + Len(s) \in 1 .. Len(s) + Len(t)
        /\ ~(i + Len(s) <= Len(s))
        /\ (i + Len(s)) - Len(s) = i
    BY <1>3
  <2> QED
    BY <1>2, <2>1
<1> QED
  BY <1>1, <1>4, <1>5, <1>6

-----------------------------------------------------------------------------
\* The owners that are selected: those retained that get a place, then those that
\* want one next to them.
Wanted(j) == {p \in Packets : NeedsWake(j[p])}

RetainedServed(j, occupied) == {Manifest[i] : i \in Served(Manifest, Retained(j), occupied)}

FreshServed(j, occupied) ==
    LET reserved == occupied \cup RetainedServed(j, occupied)
    IN  {Ordered(j)[i] : i \in Served(Ordered(j), Wanted(j), reserved)}

LEMMA Lengths ==
  ASSUME NEW j
  PROVE  /\ DOMAIN Manifest = 1 .. Len(Manifest) /\ Len(Manifest) \in Nat
         /\ DOMAIN Ordered(j) = 1 .. Cardinality(Packets) /\ Cardinality(Packets) \in Nat
<1>1. Cardinality(Packets) \in Nat
  BY FinitePackets, FS_CardinalityType, Zenon
<1> QED
  BY <1>1, DriverAssumption DEF Ordered

LEMMA SelectedRange ==
  ASSUME NEW j, NEW occupied
  PROVE  /\ Selected(j, occupied) \in Seq(Packets)
         /\ Range(Selected(j, occupied)) =
               RetainedServed(j, occupied) \cup FreshServed(j, occupied)
         /\ RetainedServed(j, occupied) \subseteq Retained(j)
<1> DEFINE retained == Admitted(Manifest, Retained(j), occupied)
           reserved == occupied \cup Range(retained)
           fresh == Admitted(Ordered(j), Wanted(j), reserved)
<1>1. Retained(j) \in SUBSET Packets /\ Wanted(j) \in SUBSET Packets
  BY DEF Retained, Wanted
<1>2. retained \in Seq(Packets) /\ Range(retained) = RetainedServed(j, occupied)
  BY <1>1, Lengths, AdmittedLists DEF RetainedServed
<1>3. fresh \in Seq(Packets)
      /\ Range(fresh) = {Ordered(j)[i] : i \in Served(Ordered(j), Wanted(j), reserved)}
  <2> HIDE DEF reserved
  <2> QED
    BY <1>1, Lengths, AdmittedLists
<1>4. Selected(j, occupied) = retained \o fresh
  BY DEF Selected, Wanted
<1>5. Range(fresh) = FreshServed(j, occupied)
  <2> HIDE DEF retained
  <2> QED
    BY <1>2, <1>3 DEF FreshServed
<1>6. RetainedServed(j, occupied) \subseteq Retained(j)
  BY DEF RetainedServed, Served
<1> HIDE DEF retained, fresh
<1> QED
  BY <1>2, <1>3, <1>4, <1>5, <1>6, RangeConcat

\* Who is selected is within the limits, with all that was retained if that fits.
LEMMA SelectedWithin ==
  ASSUME NEW j, NEW occupied \in SUBSET Packets, Within(occupied \cup Retained(j))
  PROVE  /\ Selected(j, occupied) \in Seq(Packets)
         /\ Within(occupied \cup Range(Selected(j, occupied)))
         /\ Retained(j) \subseteq occupied \cup Range(Selected(j, occupied))
<1> DEFINE reserved == occupied \cup RetainedServed(j, occupied)
<1>1. Retained(j) \in SUBSET Packets /\ Wanted(j) \in SUBSET Packets
  BY DEF Retained, Wanted
<1>2. reserved \in SUBSET Packets
  BY <1>1, SelectedRange
<1>3. Within(occupied)
  <2>1. occupied \cup Retained(j) \in SUBSET Packets
    BY <1>1
  <2> QED
    BY <2>1, WithinFewer
<1>4. Within(reserved)
  BY <1>1, <1>3, Lengths, ServedWithin DEF RetainedServed
<1>5. Retained(j) \subseteq reserved
  BY <1>1, AllServed DEF RetainedServed
<1>6. Within(reserved \cup FreshServed(j, occupied))
  <2> DEFINE order == Ordered(j)
  <2>1. DOMAIN order = 1 .. Cardinality(Packets) /\ Cardinality(Packets) \in Nat
    BY Lengths
  <2>2. FreshServed(j, occupied) = {order[i] : i \in Served(order, Wanted(j), reserved)}
    BY DEF FreshServed
  <2> HIDE DEF order, reserved
  <2> QED
    BY <1>1, <1>2, <1>4, <2>1, <2>2, ServedWithin
<1>7. occupied \cup Range(Selected(j, occupied)) = reserved \cup FreshServed(j, occupied)
  <2> HIDE DEF reserved
  <2>1. reserved = occupied \cup RetainedServed(j, occupied)
    BY DEF reserved
  <2> QED
    BY <2>1, SelectedRange
<1> HIDE DEF reserved
<1> QED
  BY <1>5, <1>6, <1>7, SelectedRange


-----------------------------------------------------------------------------
(* What was sent or asked for, after each kind of step.                    *)

\* j2 retains what j does, but for what has arrived or was begun.
Succeeds(j, j2, N) ==
    \A p \in Packets :
        /\ j[p].pending # None =>
              \/ j2[p].pending # None /\ j2[p].pending.body = j[p].pending.body
              \/ j[p].pending.body \in N[p].inbox \cup N[p].log
        /\ j[p].compaction \in Phys =>
              \/ j2[p].compaction = j[p].compaction
              \/ N[p].compactions[j[p].compaction] # "none"

LEMMA SucceedsKeeps ==
  ASSUME NEW j, NEW j2, NEW N, Succeeds(j, j2, N),
         NEW S \in SUBSET Bodies, NEW W \in SUBSET Requests,
         Awaited(j, S, N), Underway(j, W, N)
  PROVE  Awaited(j2, S, N) /\ Underway(j2, W, N)
<1>1. Awaited(j2, S, N)
  <2> SUFFICES ASSUME NEW b \in S
               PROVE  \/ b \in N[b.id.session].inbox \cup N[b.id.session].log
                      \/ j2[b.id.session].pending # None /\ j2[b.id.session].pending.body = b
    BY DEF Awaited
  <2>1. b.id.session \in Packets
    BY DEF Bodies
  <2> QED
    BY <2>1 DEF Awaited, Succeeds
<1>2. Underway(j2, W, N)
  <2> SUFFICES ASSUME NEW r \in W, r.body = None, r.compaction \in Phys
               PROVE  \/ N[r.to].compactions[r.compaction] # "none"
                      \/ j2[r.to].compaction = r.compaction
    BY DEF Underway
  <2>1. r.to \in Packets
    BY DEF Requests
  <2>2. \/ N[r.to].compactions[r.compaction] # "none"
        \/ j[r.to].compaction = r.compaction
    BY DEF Underway
  <2> QED
    BY <2>1, <2>2 DEF Succeeds
<1> QED
  BY <1>1, <1>2

\* A journal with one packet replaced by one that retains the same.
LEMMA SucceedsEdit ==
  ASSUME NEW j \in [Packets -> PacketStates], NEW N, NEW p \in Packets, NEW ps,
         j[p].pending # None =>
            \/ ps.pending # None /\ ps.pending.body = j[p].pending.body
            \/ j[p].pending.body \in N[p].inbox \cup N[p].log,
         j[p].compaction \in Phys =>
            \/ ps.compaction = j[p].compaction
            \/ N[p].compactions[j[p].compaction] # "none"
  PROVE  Succeeds(j, [j EXCEPT ![p] = ps], N)
<1> DEFINE j2 == [j EXCEPT ![p] = ps]
<1>1. j2[p] = ps /\ \A q \in Packets \ {p} : j2[q] = j[q]
  OBVIOUS
<1> HIDE DEF j2
<1>2. Succeeds(j, j2, N)
  BY <1>1 DEF Succeeds
<1> QED
  BY <1>2 DEF j2

\* Sessions keep what they took, whatever they do.
Later(N, N2) ==
    \A p \in Packets :
        /\ N[p].inbox \cup N[p].log \subseteq N2[p].inbox \cup N2[p].log
        /\ \A c \in Phys : N[p].compactions[c] # "none" => N2[p].compactions[c] # "none"

LEMMA LaterKeeps ==
  ASSUME NEW j, NEW N, NEW N2, Later(N, N2),
         NEW S \in SUBSET Bodies, NEW W \in SUBSET Requests,
         Awaited(j, S, N), Underway(j, W, N)
  PROVE  Awaited(j, S, N2) /\ Underway(j, W, N2)
<1>1. Awaited(j, S, N2)
  <2> SUFFICES ASSUME NEW b \in S
               PROVE  \/ b \in N2[b.id.session].inbox \cup N2[b.id.session].log
                      \/ j[b.id.session].pending # None /\ j[b.id.session].pending.body = b
    BY DEF Awaited
  <2>1. b.id.session \in Packets
    BY DEF Bodies
  <2> QED
    BY <2>1 DEF Awaited, Later
<1>2. Underway(j, W, N2)
  <2> SUFFICES ASSUME NEW r \in W, r.body = None, r.compaction \in Phys
               PROVE  \/ N2[r.to].compactions[r.compaction] # "none"
                      \/ j[r.to].compaction = r.compaction
    BY DEF Underway
  <2>1. r.to \in Packets
    BY DEF Requests
  <2> QED
    BY <2>1 DEF Underway, Later
<1> QED
  BY <1>1, <1>2

\* A step of the journals alone.
LEMMA AwaitEdit ==
  ASSUME IInv, AwaitInv, NEW j, Succeeds(mem, j, native),
         mem' \in {mem, disk, j}, disk' \in {mem, disk, j},
         UNCHANGED <<native, sent, wire>>
  PROVE  AwaitInv'
<1>1. sent \in SUBSET Bodies /\ wire \in SUBSET Requests
  BY DEF IInv, JournalInv
<1>2. Awaited(j, sent, native) /\ Underway(j, wire, native)
  BY <1>1, SucceedsKeeps DEF AwaitInv
<1>3. /\ Awaited(mem', sent, native) /\ Underway(mem', wire, native)
      /\ Awaited(disk', sent, native) /\ Underway(disk', wire, native)
  BY <1>2, Zenon DEF AwaitInv
<1> QED
  BY <1>3, Zenon DEF AwaitInv

LEMMA AwaitFrame ==
  ASSUME IInv, AwaitInv, UNCHANGED <<mem, disk, native, sent, wire>>
  PROVE  AwaitInv'
BY Zenon DEF AwaitInv

\* A step of the sessions, by which no request comes up.
LEMMA AwaitNative ==
  ASSUME IInv, AwaitInv, UNCHANGED <<mem, disk, sent>>, Later(native, native'), wire' \subseteq wire
  PROVE  AwaitInv'
<1>1. sent \in SUBSET Bodies /\ wire \in SUBSET Requests
  BY DEF IInv, JournalInv
<1>2. /\ Awaited(mem, sent, native') /\ Underway(mem, wire, native')
      /\ Awaited(disk, sent, native') /\ Underway(disk, wire, native')
  BY <1>1, LaterKeeps DEF AwaitInv
<1>3. Underway(mem, wire', native') /\ Underway(disk, wire', native')
  BY <1>2, Zenon DEF Underway
<1> QED
  BY <1>2, <1>3, Zenon DEF AwaitInv

-----------------------------------------------------------------------------
(* What the sessions are busy with.                                        *)

LEMMA Types ==
  ASSUME IInv
  PROVE  /\ mem \in [Packets -> PacketStates] /\ disk \in [Packets -> PacketStates]
         /\ native \in [Packets -> Sessions]
         /\ sent \in SUBSET Bodies /\ wire \in SUBSET Requests
BY DEF IInv, JournalInv, JournalOK

\* The server takes an input: nothing else changes, and only if it is new.
LEMMA TakeLater ==
  ASSUME native \in [Packets -> Sessions], NEW p \in Packets, NEW body \in Bodies
  PROVE  /\ Later(native, Take(p, body))
         /\ Busy(Take(p, body)) \subseteq Busy(native) \cup {p}
         /\ body \in native[p].inbox \cup native[p].log => Take(p, body) = native
         /\ (\A b \in native[p].inbox \cup native[p].log : b.id = body.id => b = body) =>
               body \in Take(p, body)[p].inbox \cup Take(p, body)[p].log
<1> DEFINE s == [native[p] EXCEPT !.inbox = @ \cup {body}]
<1>1. /\ s.inbox = native[p].inbox \cup {body} /\ s.log = native[p].log
      /\ s.compactions = native[p].compactions
  BY DEF Sessions
<1>2. /\ Receipts(native[p], body.id) # {} => Take(p, body) = native
      /\ Receipts(native[p], body.id) = {} => Take(p, body) = [native EXCEPT ![p] = s]
  BY DEF Take
<1> HIDE DEF s
<1>3. Take(p, body) = native \/ Take(p, body) = [native EXCEPT ![p] = s]
  BY <1>2
<1>4. \A q \in Packets \ {p} : Take(p, body)[q] = native[q]
  BY <1>3
<1>5. Take(p, body)[p] = native[p] \/ Take(p, body)[p] = s
  BY <1>3
<1>6. Later(native, Take(p, body))
  BY <1>1, <1>4, <1>5 DEF Later
<1>7. Busy(Take(p, body)) \subseteq Busy(native) \cup {p}
  BY <1>4 DEF Busy
<1>8. body \in native[p].inbox \cup native[p].log => Take(p, body) = native
  BY <1>2 DEF Receipts
<1>9. ASSUME \A b \in native[p].inbox \cup native[p].log : b.id = body.id => b = body
      PROVE  body \in Take(p, body)[p].inbox \cup Take(p, body)[p].log
  <2>1. CASE Receipts(native[p], body.id) # {}
    BY <1>2, <1>9, <2>1 DEF Receipts
  <2>2. CASE Receipts(native[p], body.id) = {}
    BY <1>1, <1>2, <2>2
  <2> QED
    BY <2>1, <2>2
<1> QED
  BY <1>6, <1>7, <1>8, <1>9

LEMMA TakeCompactionLater ==
  ASSUME native \in [Packets -> Sessions], NEW p \in Packets, NEW c
  PROVE  /\ Later(native, TakeCompaction(p, c))
         /\ Busy(TakeCompaction(p, c)) \subseteq Busy(native) \cup {p}
         /\ c \in Phys /\ native[p].compactions[c] # "none" => TakeCompaction(p, c) = native
         /\ c \notin Phys => Busy(TakeCompaction(p, c)) \subseteq Busy(native)
<1> DEFINE s == [native[p] EXCEPT !.compactions[c] = "inbox"]
<1>1. /\ s.inbox = native[p].inbox /\ s.log = native[p].log /\ s.active = native[p].active
      /\ \A x \in Phys :
            s.compactions[x] = IF x = c THEN "inbox" ELSE native[p].compactions[x]
  <2>1. native[p] \in Sessions
    OBVIOUS
  <2>2. DOMAIN native[p].compactions = Phys
    BY <2>1 DEF Sessions
  <2>3. /\ s.inbox = native[p].inbox /\ s.log = native[p].log /\ s.active = native[p].active
        /\ s.compactions = [native[p].compactions EXCEPT ![c] = "inbox"]
    BY <2>1 DEF Sessions
  <2> HIDE DEF s
  <2>4. ASSUME NEW f, DOMAIN f = Phys, NEW x \in Phys
        PROVE  [f EXCEPT ![c] = "inbox"][x] = IF x = c THEN "inbox" ELSE f[x]
    BY <2>4
  <2> QED
    BY <2>2, <2>3, <2>4, Zenon
<1>2. /\ native[p].compactions[c] # "none" => TakeCompaction(p, c) = native
      /\ TakeCompaction(p, c) \in {native, [native EXCEPT ![p] = s]}
  BY DEF TakeCompaction
<1> HIDE DEF s
<1>3. \A q \in Packets \ {p} : TakeCompaction(p, c)[q] = native[q]
  BY <1>2
<1>4. TakeCompaction(p, c)[p] = native[p] \/ TakeCompaction(p, c)[p] = s
  BY <1>2
<1>5. Later(native, TakeCompaction(p, c))
  BY <1>1, <1>3, <1>4 DEF Later
<1>6. Busy(TakeCompaction(p, c)) \subseteq Busy(native) \cup {p}
  BY <1>3 DEF Busy
<1>7. ASSUME c \notin Phys PROVE Busy(TakeCompaction(p, c)) \subseteq Busy(native)
  <2>1. Occupied(s) => Occupied(native[p])
    BY <1>1, <1>7 DEF Occupied, Compacting, CompactQueued
  <2> QED
    BY <1>3, <1>4, <2>1 DEF Busy
<1> QED
  BY <1>2, <1>5, <1>6, <1>7

LEMMA BusyOwners == ASSUME NEW N PROVE Busy(N) \in SUBSET Packets
BY DEF Busy

LEMMA ReservedOwners ==
  ASSUME TodoInv, cycle # None PROVE Reserved \in SUBSET Packets
<1>1. cycle.selected \in Seq(Packets)
  BY DEF TodoInv
<1>2. Range(cycle.selected) \subseteq Packets
  BY <1>1 DEF Range
<1> QED
  BY <1>2, BusyOwners DEF Reserved

LEMMA HoldingOwners == Holding \in SUBSET Packets
BY BusyOwners DEF Holding, Retained

\* A step of a cycle by which nobody comes to hold a place that has none.
LEMMA RoomEdit ==
  ASSUME TodoInv, RoomInv, cycle # None, NEW j, Retained(j) \subseteq Reserved,
         mem' \in {mem, disk, j}, disk' \in {mem, disk, j},
         Busy(native') \subseteq Reserved,
         cycle' # None => cycle'.seen = cycle.seen /\ cycle'.selected = cycle.selected
  PROVE  RoomInv'
<1>1. Holding' \subseteq Reserved
  <2>1. Retained(mem) \subseteq Reserved /\ Retained(disk) \subseteq Reserved
    BY DEF RoomInv, Holding
  <2>2. Retained(mem') \subseteq Reserved /\ Retained(disk') \subseteq Reserved
    BY <2>1, Zenon
  <2>3. Holding' = Busy(native') \cup Retained(mem') \cup Retained(disk')
    BY DEF Holding, Busy, Retained
  <2> QED
    BY <2>2, <2>3
<1>2. Within(Holding')
  BY <1>1, ReservedOwners, WithinFewer DEF RoomInv
<1>3. CASE cycle' = None
  <2>1. Within(Holding)' = Within(Holding')
    BY DEF Within, OnHost
  <2> QED
    BY <1>2, <1>3, <2>1 DEF RoomInv
<1>4. CASE cycle' # None
  <2>1. Reserved' = Reserved
    BY <1>4 DEF Reserved, Busy
  <2>2. Within(Reserved)' = Within(Reserved)
    BY <2>1 DEF Within, OnHost
  <2> QED
    BY <1>1, <1>4, <2>1, <2>2 DEF RoomInv
<1> QED
  BY <1>3, <1>4

\* A step between cycles by which nobody comes to hold a place.
LEMMA RoomIdle ==
  ASSUME RoomInv, cycle = None, cycle' = None, Holding' \subseteq Holding
  PROVE  RoomInv'
<1>1. Within(Holding')
  BY HoldingOwners, WithinFewer DEF RoomInv
<1>2. Within(Holding)' = Within(Holding')
  BY DEF Within, OnHost
<1> QED
  BY <1>1, <1>2 DEF RoomInv


-----------------------------------------------------------------------------
(* The steps of the places.                                                *)

\* The journals of no owner but p differ by the step.
TodoAgree(p) ==
    \A q \in Packets \ {p} :
        disk[q].compaction = mem[q].compaction => disk'[q].compaction = mem'[q].compaction

\* The cycle goes on with the next packet.
LEMMA TodoDone ==
  ASSUME IInv, TodoInv, cycle # None, cycle.todo # <<>>, NEW p, p = Head(cycle.todo),
         \/ /\ cycle.step = "compact" /\ TodoAgree(p)
            /\ cycle' \in {Done("compact"), Blocked(p)}
         \/ /\ cycle.step # "compact" /\ cycle' = Done("prompt")
  PROVE  TodoInv' /\ cycle'.seen = cycle.seen /\ cycle'.selected = cycle.selected
<1>1. DOMAIN cycle = {"step", "todo", "compacting", "selected", "seen", "at"}
  BY DEF IInv, CycleInv
<1>2. /\ cycle'.todo = Tail(cycle.todo)
      /\ cycle'.seen = cycle.seen /\ cycle'.selected = cycle.selected
      /\ cycle'.step = IF cycle.step = "compact" THEN "compact" ELSE "prompt"
  <2>1. CASE cycle' = Done("compact") /\ cycle.step = "compact"
    BY <1>1, <2>1 DEF Done
  <2>2. CASE cycle' = Done("prompt") /\ cycle.step # "compact"
    BY <1>1, <2>2 DEF Done
  <2>3. CASE cycle' = Blocked(p) /\ cycle.step = "compact"
    BY <1>1, <2>3 DEF Done, Blocked
  <2> QED
    BY <2>1, <2>2, <2>3
<1>3. cycle.todo \in Seq(Packets)
  BY DEF TodoInv
<1> DEFINE t == cycle.todo
           n == Len(t)
<1>4. /\ n \in Nat /\ n > 0 /\ DOMAIN t = 1 .. n /\ p = t[1] /\ p \in Packets
      /\ Tail(t) \in Seq(Packets) /\ DOMAIN Tail(t) = 1 .. n - 1
      /\ \A i \in 1 .. n - 1 : i + 1 \in 1 .. n /\ Tail(t)[i] = t[i + 1]
  BY <1>3
<1>5. Range(Tail(t)) \subseteq Range(t)
  <2> SUFFICES ASSUME NEW i \in 1 .. n - 1 PROVE \E k \in 1 .. n : Tail(t)[i] = t[k]
    BY <1>4 DEF Range
  <2> QED
    BY <1>4
<1>6. CASE cycle.step = "compact"
  <2>1. /\ \A i, k \in DOMAIN t : t[i] = t[k] => i = k
        /\ \A q \in Range(t) : disk[q].compaction = mem[q].compaction
    BY <1>6 DEF TodoInv
  <2>2. \A i, k \in DOMAIN Tail(t) : Tail(t)[i] = Tail(t)[k] => i = k
    <3> SUFFICES ASSUME NEW i \in 1 .. n - 1, NEW k \in 1 .. n - 1, Tail(t)[i] = Tail(t)[k]
                 PROVE  i = k
      BY <1>4
    <3>1. i + 1 \in DOMAIN t /\ k + 1 \in DOMAIN t /\ t[i + 1] = t[k + 1]
      BY <1>4
    <3>2. i + 1 = k + 1
      BY <2>1, <3>1
    <3> QED
      BY <3>2
  <2>3. p \notin Range(Tail(t))
    <3> SUFFICES ASSUME NEW i \in 1 .. n - 1, p = Tail(t)[i] PROVE FALSE
      BY <1>4 DEF Range
    <3>1. i + 1 \in DOMAIN t /\ 1 \in DOMAIN t /\ t[i + 1] = t[1]
      BY <1>4
    <3>2. i + 1 = 1
      BY <2>1, <3>1
    <3> QED
      BY <3>2
  <2>4. Range(t) \subseteq Packets
    BY <1>3 DEF Range
  <2>5. \A q \in Range(Tail(t)) : disk'[q].compaction = mem'[q].compaction
    BY <1>5, <1>6, <2>1, <2>3, <2>4, Zenon DEF TodoAgree
  <2>6. cycle.selected \in Seq(Packets)
    BY DEF TodoInv
  <2> HIDE DEF t
  <2>7. cycle'.step = "compact" /\ cycle'.todo = Tail(t)
    BY <1>2, <1>6 DEF t
  <2> QED
    BY <1>2, <1>4, <2>2, <2>5, <2>6, <2>7, Zenon DEF TodoInv
<1>7. CASE cycle.step # "compact"
  <2>1. Range(t) \subseteq Range(cycle.selected) /\ cycle.selected \in Seq(Packets)
    BY <1>7 DEF TodoInv
  <2> HIDE DEF t
  <2>2. cycle'.step = "prompt" /\ cycle'.todo = Tail(t)
    BY <1>2, <1>7 DEF t
  <2>3. cycle'.step # "compact"
    BY <2>2
  <2>4. Range(cycle'.todo) \subseteq Range(cycle'.selected)
    BY <1>2, <1>5, <2>1, <2>2, Zenon
  <2> QED
    BY <1>2, <1>4, <2>1, <2>2, <2>3, <2>4, Zenon DEF TodoInv
<1> QED
  BY <1>2, <1>6, <1>7

\* The packet served is one of the manifest, and after the compactions one that
\* was selected.
LEMMA ServingOwner ==
  ASSUME TodoInv, NEW step, NEW p, Serving(step, p)
  PROVE  /\ cycle # None /\ cycle.step = step /\ cycle.todo # <<>> /\ p = Head(cycle.todo)
         /\ p \in Packets /\ p \in Range(cycle.todo)
         /\ step # "compact" => p \in Range(cycle.selected)
<1>1. cycle # None /\ cycle.step = step /\ cycle.todo # <<>> /\ p = Head(cycle.todo)
  BY Zenon DEF Serving
<1>2. cycle.todo \in Seq(Packets)
  BY <1>1 DEF TodoInv
<1>3. p = cycle.todo[1] /\ 1 \in DOMAIN cycle.todo /\ p \in Packets
  BY <1>1, <1>2
<1>4. p \in Range(cycle.todo)
  BY <1>3 DEF Range
<1> QED
  BY <1>1, <1>3, <1>4 DEF TodoInv

LEMMA InitPlaces == Init => PlaceInv
<1> SUFFICES ASSUME Init PROVE PlaceInv
  OBVIOUS
<1>1. cycle = None /\ sent = {} /\ wire = {} /\ disk = mem
  BY DEF Init
<1>2. \A p \in Packets : mem[p].pending = None /\ mem[p].compaction = None
  BY DEF Init, NewJournal
<1>3. \A p \in Packets : ~Occupied(native[p])
  <2> TAKE p \in Packets
  <2>1. /\ native[p].active = FALSE /\ native[p].inbox = {}
        /\ native[p].compactions = [c \in Phys |-> "none"]
    BY DEF Init
  <2> QED
    BY <2>1 DEF Occupied, CompactQueued, Compacting
<1>4. Holding = {}
  BY <1>1, <1>2, <1>3 DEF Holding, Busy, Retained
<1>5. Within({})
  <2> SUFFICES ASSUME NEW p \in Packets
               PROVE  Cardinality(OnHost({}, Host[p])) <= Capacity[Host[p]]
    BY DEF Within
  <2>1. OnHost({}, Host[p]) = {} /\ Cardinality({}) = 0
    BY FS_EmptySet DEF OnHost
  <2> QED
    BY <2>1, CapacityType
<1>6. TodoInv /\ RoomInv
  BY <1>1, <1>4, <1>5 DEF TodoInv, RoomInv
<1>7. AwaitInv
  BY <1>1 DEF AwaitInv, Awaited, Underway
<1> QED
  BY <1>6, <1>7 DEF PlaceInv

\* A cycle begins with places for all that hold one.
LEMMA PlanPlaces == ASSUME IInv, PlaceInv, Plan PROVE PlaceInv'
<1> DEFINE next == [p \in Packets |-> Reconciled(p)]
           occupied == {p \in Packets : Occupied(Observation[p])}
           selected == Selected(next, occupied)
<1>1. /\ cycle = None /\ UNCHANGED <<native, sent, wire>> /\ ReceiptsMatch
      /\ \/ /\ mem' = next /\ disk' = next
            /\ cycle' = [step |-> "compact", todo |-> Manifest, compacting |-> {},
                         selected |-> selected, seen |-> Observation, at |-> Now(next)]
         \/ mem' = mem /\ disk' \in {disk, next} /\ cycle' = cycle
  BY Zenon DEF Plan, Persist, PersistFails
<1>2. \A p \in Packets : next[p] = Reconciled(p)
  OBVIOUS
<1>3. \A p \in Packets :
        /\ next[p].compaction = mem[p].compaction
        /\ \/ next[p] = mem[p]
           \/ /\ mem[p].pending # None /\ next[p].pending = None
              /\ mem[p].pending.body \in native[p].inbox \cup native[p].log
  <2> TAKE p \in Packets
  <2>1. CASE mem[p].pending # None /\ Receipts(native[p], mem[p].pending.body.id) # {}
    <3>1. next[p] = Acknowledge(mem[p])
      BY <1>2, <2>1 DEF Reconciled
    <3>2. mem[p] \in PacketStates
      BY Types
    <3>3. next[p].pending = None /\ next[p].compaction = mem[p].compaction
      BY <3>1, <3>2 DEF Acknowledge, PacketStates
    <3>4. Receipts(native[p], mem[p].pending.body.id) \subseteq {mem[p].pending.body}
      BY <1>1, <2>1 DEF ReceiptsMatch
    <3>5. mem[p].pending.body \in native[p].inbox \cup native[p].log
      BY <2>1, <3>4 DEF Receipts
    <3> QED
      BY <2>1, <3>3, <3>5
  <2>2. CASE ~(mem[p].pending # None /\ Receipts(native[p], mem[p].pending.body.id) # {})
    <3>1. next[p] = mem[p]
      BY <1>2, <2>2, Zenon DEF Reconciled
    <3> QED
      BY <3>1
  <2> QED
    BY <2>1, <2>2
<1> HIDE DEF next
<1>4. Succeeds(mem, next, native)
  <2> SUFFICES ASSUME NEW p \in Packets
               PROVE  /\ mem[p].pending # None =>
                           \/ next[p].pending # None /\ next[p].pending.body = mem[p].pending.body
                           \/ mem[p].pending.body \in native[p].inbox \cup native[p].log
                      /\ mem[p].compaction \in Phys =>
                           \/ next[p].compaction = mem[p].compaction
                           \/ native[p].compactions[mem[p].compaction] # "none"
    BY Zenon DEF Succeeds
  <2> QED
    BY <1>3
<1>5. AwaitInv'
  <2>1. mem' \in {mem, disk, next} /\ disk' \in {mem, disk, next}
    BY <1>1
  <2> QED
    BY <1>1, <1>4, <2>1, AwaitEdit DEF PlaceInv
<1>6. Retained(next) \subseteq Retained(mem)
  BY <1>3 DEF Retained
<1>7. occupied = Busy(native) /\ occupied \in SUBSET Packets
  BY DEF Busy, Observation
<1>8. Within(occupied \cup Retained(next))
  <2>1. Within(Holding)
    BY <1>1 DEF PlaceInv, RoomInv
  <2>2. occupied \cup Retained(next) \subseteq Holding
    BY <1>6, <1>7 DEF Holding
  <2> QED
    BY <2>1, <2>2, HoldingOwners, WithinFewer
<1> HIDE DEF occupied
<1>9. /\ selected \in Seq(Packets)
      /\ Within(occupied \cup Range(selected))
      /\ Retained(next) \subseteq occupied \cup Range(selected)
  BY <1>7, <1>8, SelectedWithin
<1> HIDE DEF selected
<1>10. CASE mem' = mem /\ disk' \in {disk, next} /\ cycle' = cycle
  <2>1. TodoInv'
    BY <1>1, <1>10 DEF TodoInv
  <2>2. Holding' \subseteq Holding
    <3>1. Retained(disk') \subseteq Retained(disk) \cup Retained(mem)
      BY <1>6, <1>10
    <3>2. Holding' = Busy(native) \cup Retained(mem) \cup Retained(disk')
      BY <1>1, <1>10 DEF Holding, Busy, Retained
    <3> QED
      BY <3>1, <3>2 DEF Holding
  <2> QED
    BY <1>1, <1>5, <1>10, <2>1, <2>2, RoomIdle DEF PlaceInv
<1>11. CASE /\ mem' = next /\ disk' = next
            /\ cycle' = [step |-> "compact", todo |-> Manifest, compacting |-> {},
                         selected |-> selected, seen |-> Observation, at |-> Now(next)]
  <2>1. /\ cycle'.step = "compact" /\ cycle'.todo = Manifest
        /\ cycle'.selected = selected /\ cycle'.seen = native
    BY <1>11 DEF Observation
  <2>2. Manifest \in Seq(Packets) /\ \A i, k \in DOMAIN Manifest : Manifest[i] = Manifest[k] => i = k
    BY DriverAssumption DEF Packets, Range
  <2>3. TodoInv'
    BY <1>9, <1>11, <2>1, <2>2 DEF TodoInv
  <2>4. Reserved' = occupied \cup Range(selected)
    BY <1>7, <2>1 DEF Reserved, Busy
  <2>5. Holding' \subseteq Reserved'
    <3>1. Holding' = Busy(native) \cup Retained(next)
      BY <1>1, <1>11 DEF Holding, Busy, Retained
    <3> QED
      BY <1>7, <1>9, <2>4, <3>1
  <2>6. Within(Reserved)' = Within(Reserved')
    BY DEF Within, OnHost
  <2>7. Within(Holding)'
    <3>1. Reserved' \in SUBSET Packets
      BY <1>7, <1>9, <2>4 DEF Range
    <3>2. Within(Holding')
      BY <1>9, <2>4, <2>5, <3>1, WithinFewer
    <3> QED
      BY <3>2 DEF Within, OnHost
  <2>8. RoomInv'
    BY <1>9, <2>4, <2>5, <2>6, <2>7 DEF RoomInv
  <2> QED
    BY <1>5, <2>3, <2>8 DEF PlaceInv
<1> QED
  BY <1>1, <1>10, <1>11


\* Steps of a cycle that only go on to the next packet, or end it.
LEMMA GoOnPlaces ==
  ASSUME IInv, PlaceInv, NEW p \in Packets,
         \/ SkipCompaction(p) \/ AwaitCompaction(p) \/ AbortCycle(p)
         \/ SkipPrompt(p) \/ FailPrompt(p)
  PROVE  PlaceInv'
<1>1. /\ UNCHANGED <<mem, disk, native, sent, wire>>
      /\ \/ Serving("compact", p) /\ cycle' \in {Done("compact"), Blocked(p)}
         \/ Serving("compact", p) /\ cycle' = None
         \/ /\ Serving("prompt", p) \/ Serving("attempt", p) \/ Serving("post", p)
            /\ cycle' = Done("prompt")
  BY Zenon DEF SkipCompaction, AwaitCompaction, AbortCycle, SkipPrompt, FailPrompt
<1>2. cycle # None /\ cycle.todo # <<>> /\ p = Head(cycle.todo)
  BY <1>1, Zenon DEF Serving
<1>3. TodoInv' /\ (cycle' # None => cycle'.seen = cycle.seen /\ cycle'.selected = cycle.selected)
  <2>1. CASE cycle' = None
    BY <2>1 DEF TodoInv
  <2>2. CASE cycle' # None
    <3>1. \/ cycle.step = "compact" /\ cycle' \in {Done("compact"), Blocked(p)}
          \/ cycle.step # "compact" /\ cycle' = Done("prompt")
      BY <1>1, <2>2 DEF Serving
    <3>2. TodoAgree(p)
      BY <1>1 DEF TodoAgree
    <3> QED
      BY <1>2, <3>1, <3>2, TodoDone DEF PlaceInv
  <2> QED
    BY <2>1, <2>2
<1>4. RoomInv'
  <2>1. Retained(mem) \subseteq Reserved /\ Busy(native') \subseteq Reserved
    BY <1>1, <1>2 DEF PlaceInv, RoomInv, Holding
  <2> QED
    BY <1>1, <1>2, <1>3, <2>1, RoomEdit DEF PlaceInv
<1> QED
  BY <1>1, <1>3, <1>4, AwaitFrame DEF PlaceInv

LEMMA StartPromptsPlaces == ASSUME IInv, PlaceInv, StartPrompts PROVE PlaceInv'
<1>1. /\ UNCHANGED <<mem, disk, native, sent, wire>> /\ cycle # None
      /\ cycle' = [cycle EXCEPT !.step = "prompt", !.todo = cycle.selected]
  BY Zenon DEF StartPrompts
<1>2. /\ cycle'.seen = cycle.seen /\ cycle'.selected = cycle.selected
      /\ cycle'.step = "prompt" /\ cycle'.todo = cycle.selected
  BY <1>1 DEF IInv, CycleInv
<1>3. TodoInv'
  BY <1>1, <1>2 DEF PlaceInv, TodoInv
<1>4. RoomInv'
  <2>1. Retained(mem) \subseteq Reserved /\ Busy(native') \subseteq Reserved
    BY <1>1 DEF PlaceInv, RoomInv, Holding
  <2> QED
    BY <1>1, <1>2, <2>1, RoomEdit DEF PlaceInv
<1> QED
  BY <1>1, <1>3, <1>4, AwaitFrame DEF PlaceInv

\* A journal with one packet replaced retains no other packet's input.
LEMMA RetainedEdit ==
  ASSUME NEW j \in [Packets -> PacketStates], NEW p \in Packets, NEW ps
  PROVE  /\ Retained([j EXCEPT ![p] = ps]) \subseteq Retained(j) \cup {p}
         /\ ps.pending = j[p].pending /\ ps.compaction = None =>
               Retained([j EXCEPT ![p] = ps]) \subseteq Retained(j)
<1> DEFINE j2 == [j EXCEPT ![p] = ps]
<1>1. j2[p] = ps /\ \A q \in Packets \ {p} : j2[q] = j[q]
  OBVIOUS
<1> HIDE DEF j2
<1>2. /\ Retained(j2) \subseteq Retained(j) \cup {p}
      /\ ps.pending = j[p].pending /\ ps.compaction = None => Retained(j2) \subseteq Retained(j)
  BY <1>1 DEF Retained
<1> QED
  BY <1>2 DEF j2

\* A compaction is given to an owner that works or was selected.
LEMMA PrepareCompactionPlaces ==
  ASSUME IInv, PlaceInv, NEW p \in Packets, PrepareCompaction(p)
  PROVE  PlaceInv'
<1> DEFINE ps == [mem[p] EXCEPT !.compaction = cycle.seen[p].phys]
           j == [mem EXCEPT ![p].compaction = cycle.seen[p].phys]
<1>1. /\ Serving("compact", p) /\ Pressed(p) /\ mem[p].compaction = None
      /\ mem' = j /\ UNCHANGED <<native, sent, wire>>
      /\ \/ disk' = j /\ cycle' = cycle
         \/ disk' \in {disk, j} /\ cycle' = Blocked(p)
  BY Zenon DEF PrepareCompaction, Persist, PersistFails
<1>2. /\ cycle # None /\ cycle.step = "compact" /\ cycle.todo # <<>> /\ p = Head(cycle.todo)
  BY <1>1, ServingOwner DEF PlaceInv
<1>3. mem \in [Packets -> PacketStates] /\ mem[p] \in PacketStates
  BY Types
<1>4. ps.pending = mem[p].pending
  BY <1>3 DEF PacketStates
<1>5. j = [mem EXCEPT ![p] = ps]
  OBVIOUS
<1> HIDE DEF ps, j
<1>6. None \notin Phys
  BY NoneAssumption DEF Phys
<1>7. Succeeds(mem, j, native)
  BY <1>1, <1>3, <1>4, <1>5, <1>6, SucceedsEdit
<1>8. AwaitInv'
  <2>1. mem' \in {mem, disk, j} /\ disk' \in {mem, disk, j}
    BY <1>1
  <2> QED
    BY <1>1, <1>7, <2>1, AwaitEdit DEF PlaceInv
<1>9. \A q \in Packets \ {p} : j[q] = mem[q]
  BY <1>3, <1>5
<1>10. TodoInv' /\ cycle'.seen = cycle.seen /\ cycle'.selected = cycle.selected
  <2>1. CASE disk' = j /\ cycle' = cycle
    <3>1. \A q \in Range(cycle'.todo) : disk'[q].compaction = mem'[q].compaction
      BY <1>1, <2>1
    <3> QED
      BY <1>2, <2>1, <3>1 DEF PlaceInv, TodoInv
  <2>2. CASE disk' \in {disk, j} /\ cycle' = Blocked(p)
    <3>1. TodoAgree(p)
      BY <1>1, <1>9, <2>2 DEF TodoAgree
    <3> QED
      BY <1>2, <2>2, <3>1, TodoDone DEF PlaceInv
  <2> QED
    BY <1>1, <2>1, <2>2
<1>11. RoomInv'
  <2>1. Retained(mem) \subseteq Reserved /\ Busy(native') \subseteq Reserved
    BY <1>1, <1>2 DEF PlaceInv, RoomInv, Holding
  <2>2. p \in Reserved
    <3>1. cycle.seen[p].active \/ p \in Range(cycle.selected)
      BY <1>1 DEF Pressed
    <3> QED
      BY <3>1 DEF Reserved, Busy, Occupied
  <2>3. Retained(j) \subseteq Reserved
    BY <1>3, <1>5, <2>1, <2>2, RetainedEdit
  <2>4. mem' \in {mem, disk, j} /\ disk' \in {mem, disk, j}
    BY <1>1
  <2> QED
    BY <1>2, <1>10, <2>1, <2>3, <2>4, RoomEdit DEF PlaceInv
<1> QED
  BY <1>8, <1>10, <1>11 DEF PlaceInv

\* A compaction is asked for once both journals retain it, and forgotten when it
\* was done.
LEMMA AskCompactionPlaces ==
  ASSUME IInv, PlaceInv, NEW p \in Packets, AskCompaction(p)
  PROVE  PlaceInv'
<1> DEFINE c == mem[p].compaction
           ps == [mem[p] EXCEPT !.compaction = None]
           j == [mem EXCEPT ![p].compaction = None]
           request == [to |-> p, body |-> None, compaction |-> c]
<1>1. /\ Serving("compact", p) /\ c # None /\ UNCHANGED sent
      /\ cycle' \in {Done("compact"), Blocked(p)}
      /\ \/ UNCHANGED <<mem, disk, native, wire>>
         \/ /\ native[p].compactions[c] = "completed"
            /\ mem' = j /\ disk' \in {disk, j} /\ UNCHANGED <<native, wire>>
         \/ /\ UNCHANGED <<mem, disk>>
            /\ \/ native' = TakeCompaction(p, c) /\ UNCHANGED wire
               \/ UNCHANGED native /\ wire' \in {wire, wire \cup {request}}
  BY Zenon DEF AskCompaction, Persist, PersistFails, Send
<1>2. /\ cycle # None /\ cycle.step = "compact" /\ cycle.todo # <<>> /\ p = Head(cycle.todo)
      /\ p \in Range(cycle.todo)
  BY <1>1, ServingOwner DEF PlaceInv
<1>3. mem \in [Packets -> PacketStates] /\ mem[p] \in PacketStates
      /\ native \in [Packets -> Sessions]
  BY Types
<1>4. ps.pending = mem[p].pending /\ ps.compaction = None
  BY <1>3 DEF PacketStates
<1>5. j = [mem EXCEPT ![p] = ps] /\ \A q \in Packets \ {p} : j[q] = mem[q]
  BY <1>3
<1>6. /\ p \in Reserved /\ Retained(mem) \subseteq Reserved /\ Busy(native) \subseteq Reserved
      /\ disk[p].compaction = c
  <2>1. Retained(mem) \subseteq Reserved /\ Busy(native) \subseteq Reserved
    BY <1>1, <1>2 DEF PlaceInv, RoomInv, Holding
  <2>2. p \in Retained(mem)
    BY <1>1 DEF Retained
  <2>3. disk[p].compaction = c
    BY <1>2 DEF PlaceInv, TodoInv
  <2> QED
    BY <2>1, <2>2, <2>3
<1> HIDE DEF ps, j
<1>7. mem' \in {mem, disk, j} /\ disk' \in {mem, disk, j}
  BY <1>1
<1>8. TodoInv' /\ cycle'.seen = cycle.seen /\ cycle'.selected = cycle.selected
  <2>1. TodoAgree(p)
    BY <1>1, <1>5, Zenon DEF TodoAgree
  <2> QED
    BY <1>1, <1>2, <2>1, TodoDone DEF PlaceInv
<1>9. RoomInv'
  <2>1. Retained(j) \subseteq Reserved
    BY <1>3, <1>4, <1>5, <1>6, RetainedEdit
  <2>2. Busy(native') \subseteq Reserved
    <3>1. Busy(TakeCompaction(p, c)) \subseteq Busy(native) \cup {p}
      BY <1>3, TakeCompactionLater
    <3>2. native' \in {native, TakeCompaction(p, c)}
      BY <1>1
    <3> HIDE DEF c
    <3> QED
      BY <1>6, <3>1, <3>2
  <2> QED
    BY <1>2, <1>7, <1>8, <2>1, <2>2, RoomEdit DEF PlaceInv
<1>10. AwaitInv'
  <2>1. CASE UNCHANGED <<mem, disk, native, wire>>
    BY <1>1, <2>1, AwaitFrame DEF PlaceInv
  <2>2. CASE /\ native[p].compactions[c] = "completed"
             /\ mem' = j /\ disk' \in {disk, j} /\ UNCHANGED <<native, wire>>
    <3>1. Succeeds(mem, j, native)
      BY <1>3, <1>4, <1>5, <2>2, SucceedsEdit
    <3> QED
      BY <1>1, <1>7, <2>2, <3>1, AwaitEdit DEF PlaceInv
  <2>3. CASE UNCHANGED <<mem, disk>> /\ native' = TakeCompaction(p, c) /\ UNCHANGED wire
    <3>1. Later(native, native')
      BY <1>3, <2>3, TakeCompactionLater
    <3> QED
      BY <1>1, <2>3, <3>1, AwaitNative DEF PlaceInv
  <2>4. CASE UNCHANGED <<mem, disk, native>> /\ wire' \in {wire, wire \cup {request}}
    <3>1. request.body = None /\ request.to = p /\ request.compaction = c
      OBVIOUS
    <3> HIDE DEF request, c
    <3>2. Underway(mem, wire', native) /\ Underway(disk, wire', native)
      BY <1>6, <2>4, <3>1 DEF PlaceInv, AwaitInv, Underway, c
    <3>3. \A r \in wire' : r.body # None => r.body \in sent /\ r.body.id.session = r.to
      BY <2>4, <3>1 DEF PlaceInv, AwaitInv
    <3> QED
      BY <1>1, <2>4, <3>2, <3>3, Zenon DEF PlaceInv, AwaitInv
  <2> QED
    BY <1>1, <2>1, <2>2, <2>3, <2>4
<1> QED
  BY <1>8, <1>9, <1>10 DEF PlaceInv

LEMMA PreparePromptPlaces ==
  ASSUME IInv, PlaceInv, NEW p \in Packets, PreparePrompt(p)
  PROVE  PlaceInv'
<1>1. PICK text \in Texts :
        /\ Serving("prompt", p)
        /\ mem' = [mem EXCEPT ![p] = Prepare(p, @, text, cycle.at)]
        /\ UNCHANGED <<native, sent, wire>>
        /\ \/ disk' = mem' /\ cycle' = [cycle EXCEPT !.step = "attempt"]
           \/ disk' \in {disk, mem'} /\ cycle' = Done("prompt")
  BY Zenon DEF PreparePrompt, Persist, PersistFails
<1>2. /\ cycle # None /\ cycle.step = "prompt" /\ cycle.todo # <<>> /\ p = Head(cycle.todo)
      /\ p \in Range(cycle.selected)
  BY <1>1, ServingOwner DEF PlaceInv
<1> DEFINE ps == Prepare(p, mem[p], text, cycle.at)
           j == [mem EXCEPT ![p] = ps]
<1>3. mem \in [Packets -> PacketStates] /\ mem[p] \in PacketStates
  BY Types
<1>4. mem' = j
  BY <1>1, <1>3
<1>5. /\ mem[p].pending # None => ps.pending = mem[p].pending
      /\ ps.compaction = mem[p].compaction
  BY <1>3 DEF Prepare, PacketStates
<1> HIDE DEF ps
<1>6. Succeeds(mem, j, native)
  BY <1>3, <1>5, SucceedsEdit
<1>7. Retained(j) \subseteq Retained(mem) \cup {p}
  BY <1>3, RetainedEdit
<1> HIDE DEF j
<1>8. mem' \in {mem, disk, j} /\ disk' \in {mem, disk, j}
  BY <1>1, <1>4
<1>9. AwaitInv'
  BY <1>1, <1>6, <1>8, AwaitEdit DEF PlaceInv
<1>10. TodoInv' /\ cycle'.seen = cycle.seen /\ cycle'.selected = cycle.selected
  <2>1. CASE cycle' = [cycle EXCEPT !.step = "attempt"]
    <3>1. /\ cycle'.step = "attempt" /\ cycle'.seen = cycle.seen
          /\ cycle'.selected = cycle.selected /\ cycle'.todo = cycle.todo
      BY <1>2, <2>1 DEF IInv, CycleInv
    <3> QED
      BY <1>2, <3>1 DEF PlaceInv, TodoInv
  <2>2. CASE cycle' = Done("prompt")
    BY <1>2, <2>2, TodoDone DEF PlaceInv
  <2> QED
    BY <1>1, <2>1, <2>2
<1>11. RoomInv'
  <2>1. Retained(mem) \subseteq Reserved /\ Busy(native') \subseteq Reserved /\ p \in Reserved
    BY <1>1, <1>2 DEF PlaceInv, RoomInv, Holding, Reserved
  <2> QED
    BY <1>2, <1>7, <1>8, <1>10, <2>1, RoomEdit DEF PlaceInv
<1> QED
  BY <1>9, <1>10, <1>11 DEF PlaceInv


LEMMA AttemptPromptPlaces ==
  ASSUME IInv, PlaceInv, NEW p \in Packets, AttemptPrompt(p)
  PROVE  PlaceInv'
<1> DEFINE ps == [mem[p] EXCEPT !.pending.attempt = cycle.at]
           j == [mem EXCEPT ![p].pending.attempt = cycle.at]
<1>1. /\ Serving("attempt", p) /\ mem' = j /\ UNCHANGED <<native, sent, wire>>
      /\ \/ disk' = j /\ cycle' = [cycle EXCEPT !.step = "post"]
         \/ disk' \in {disk, j} /\ cycle' = Done("prompt")
  BY Zenon DEF AttemptPrompt, Persist, PersistFails
<1>2. /\ cycle # None /\ cycle.step = "attempt" /\ cycle.todo # <<>> /\ p = Head(cycle.todo)
      /\ p \in Range(cycle.selected)
  BY <1>1, ServingOwner DEF PlaceInv
<1>3. mem \in [Packets -> PacketStates] /\ mem[p] \in PacketStates
  BY Types
<1>4. mem[p].pending # None /\ mem[p].pending \in PendingInputs
  BY <1>2, <1>3 DEF IInv, CycleInv, PacketStates
<1>5. /\ ps.pending = [mem[p].pending EXCEPT !.attempt = cycle.at]
      /\ ps.compaction = mem[p].compaction
  BY <1>3 DEF PacketStates
<1>6. ps.pending # None /\ ps.pending.body = mem[p].pending.body
  <2>1. cycle.at \in Nat
    BY <1>2 DEF IInv, CycleInv
  <2>2. [mem[p].pending EXCEPT !.attempt = cycle.at] \in PendingInputs
    BY <1>4, <2>1 DEF PendingInputs
  <2>3. [mem[p].pending EXCEPT !.attempt = cycle.at].body = mem[p].pending.body
    BY <1>4 DEF PendingInputs
  <2> QED
    BY <1>5, <2>2, <2>3, NoneAssumption
<1>7. j = [mem EXCEPT ![p] = ps]
  OBVIOUS
<1> HIDE DEF ps, j
<1>8. Succeeds(mem, j, native) /\ Retained(j) \subseteq Retained(mem) \cup {p}
  BY <1>3, <1>5, <1>6, <1>7, SucceedsEdit, RetainedEdit
<1>9. mem' \in {mem, disk, j} /\ disk' \in {mem, disk, j}
  BY <1>1
<1>10. AwaitInv'
  BY <1>1, <1>8, <1>9, AwaitEdit DEF PlaceInv
<1>11. TodoInv' /\ cycle'.seen = cycle.seen /\ cycle'.selected = cycle.selected
  <2>1. CASE cycle' = [cycle EXCEPT !.step = "post"]
    <3>1. /\ cycle'.step = "post" /\ cycle'.seen = cycle.seen
          /\ cycle'.selected = cycle.selected /\ cycle'.todo = cycle.todo
      BY <1>2, <2>1 DEF IInv, CycleInv
    <3> QED
      BY <1>2, <3>1 DEF PlaceInv, TodoInv
  <2>2. CASE cycle' = Done("prompt")
    BY <1>2, <2>2, TodoDone DEF PlaceInv
  <2> QED
    BY <1>1, <2>1, <2>2
<1>12. RoomInv'
  <2>1. Retained(mem) \subseteq Reserved /\ Busy(native') \subseteq Reserved /\ p \in Reserved
    BY <1>1, <1>2 DEF PlaceInv, RoomInv, Holding, Reserved
  <2> QED
    BY <1>2, <1>8, <1>9, <1>11, <2>1, RoomEdit DEF PlaceInv
<1> QED
  BY <1>10, <1>11, <1>12 DEF PlaceInv

\* What is posted is retained by both journals.
LEMMA PostPromptPlaces ==
  ASSUME IInv, PlaceInv, NEW p \in Packets, PostPrompt(p)
  PROVE  PlaceInv'
<1> DEFINE body == mem[p].pending.body
           request == [to |-> p, body |-> body, compaction |-> None]
<1>1. /\ Serving("post", p) /\ UNCHANGED <<mem, disk>>
      /\ sent' = sent \cup {body} /\ cycle' = Done("prompt")
      /\ \/ native' = Take(p, body) /\ UNCHANGED wire
         \/ UNCHANGED native /\ wire' \in {wire, wire \cup {request}}
  BY Zenon DEF PostPrompt, Send
<1>2. /\ cycle # None /\ cycle.step = "post" /\ cycle.todo # <<>> /\ p = Head(cycle.todo)
      /\ p \in Range(cycle.selected)
  BY <1>1, ServingOwner DEF PlaceInv
<1>3. /\ mem[p].pending # None /\ disk = mem
  BY <1>2 DEF IInv, CycleInv
<1>4. body \in Bodies /\ body.id.session = p
  <2>1. mem[p] \in PacketStates /\ Named(p, mem[p])
    BY DEF IInv, JournalInv, JournalOK
  <2>2. mem[p].pending \in PendingInputs
    BY <1>3, <2>1 DEF PacketStates
  <2> QED
    BY <1>3, <2>1, <2>2 DEF PendingInputs, Named
<1>5. TodoInv' /\ cycle'.seen = cycle.seen /\ cycle'.selected = cycle.selected
  BY <1>1, <1>2, TodoDone DEF PlaceInv
<1>6. /\ Later(native, native') /\ Busy(native') \subseteq Busy(native) \cup {p}
  <2>1. CASE native' = Take(p, body)
    BY <1>4, <2>1, Types, TakeLater
  <2>2. CASE UNCHANGED native
    BY <2>2 DEF Later
  <2> QED
    BY <1>1, <2>1, <2>2
<1>7. RoomInv'
  <2>1. Retained(mem) \subseteq Reserved /\ Busy(native') \subseteq Reserved
    BY <1>2, <1>6 DEF PlaceInv, RoomInv, Holding, Reserved
  <2> QED
    BY <1>1, <1>2, <1>5, <2>1, RoomEdit DEF PlaceInv
<1>8. Awaited(mem, sent', native') /\ Underway(mem, wire, native')
  <2>1. Awaited(mem, sent, native') /\ Underway(mem, wire, native')
    BY <1>6, Types, LaterKeeps DEF PlaceInv, AwaitInv
  <2> HIDE DEF body
  <2>2. Awaited(mem, {body}, native')
    BY <1>3, <1>4 DEF Awaited, body
  <2> QED
    BY <1>1, <2>1, <2>2 DEF Awaited
<1>9. /\ \A r \in wire' : r.body # None => r.body \in sent' /\ r.body.id.session = r.to
      /\ Underway(mem, wire', native')
  <2>1. request.body = body /\ request.to = p /\ body # None
    BY <1>4, NoneAssumption
  <2> HIDE DEF request, body
  <2>2. \A r \in wire : r.body # None => r.body \in sent' /\ r.body.id.session = r.to
    BY <1>1 DEF PlaceInv, AwaitInv
  <2>3. wire' \subseteq wire \cup {request}
    BY <1>1
  <2>4. body \in sent'
    BY <1>1
  <2> QED
    BY <1>4, <1>8, <2>1, <2>2, <2>3, <2>4 DEF Underway
<1>10. AwaitInv'
  <2>1. mem' = mem /\ disk' = mem
    BY <1>1, <1>3
  <2> QED
    BY <1>8, <1>9, <2>1, Zenon DEF AwaitInv
<1> QED
  BY <1>5, <1>7, <1>10 DEF PlaceInv

LEMMA RetainedSame ==
  ASSUME NEW j, NEW j2,
         \A p \in Packets : j2[p].pending = j[p].pending /\ j2[p].compaction = j[p].compaction
  PROVE  Retained(j2) = Retained(j)
BY DEF Retained

LEMMA SucceedsSame == ASSUME NEW j, NEW N PROVE Succeeds(j, j, N)
BY DEF Succeeds

LEMMA EndCyclePlaces == ASSUME IInv, PlaceInv, EndCycle PROVE PlaceInv'
<1>1. /\ mem' = mem /\ disk' \in {disk, mem} /\ UNCHANGED <<native, sent, wire>>
      /\ cycle # None /\ cycle' = None
  BY Zenon DEF EndCycle, Persist, PersistFails
<1>2. AwaitInv'
  BY <1>1, SucceedsSame, AwaitEdit DEF PlaceInv
<1>3. RoomInv'
  <2>1. Retained(mem) \subseteq Reserved /\ Busy(native') \subseteq Reserved
    BY <1>1 DEF PlaceInv, RoomInv, Holding
  <2> QED
    BY <1>1, <2>1, RoomEdit DEF PlaceInv
<1> QED
  BY <1>1, <1>2, <1>3 DEF PlaceInv, TodoInv

LEMMA RefreshPlaces ==
  ASSUME IInv, PlaceInv, NEW p \in Packets, Refresh(p)
  PROVE  PlaceInv'
<1>1. PICK v \in Versions : mem' = [mem EXCEPT ![p].version = v, ![p].obs = v]
  BY Zenon DEF Refresh
<1>2. UNCHANGED <<disk, native, sent, wire, cycle>> /\ cycle = None
  BY Zenon DEF Refresh
<1> DEFINE ps == [mem[p] EXCEPT !.version = v, !.obs = v]
<1>3. mem \in [Packets -> PacketStates] /\ mem[p] \in PacketStates
  BY Types
<1>4. mem' = [mem EXCEPT ![p] = ps]
  BY <1>1, <1>3
<1>5. ps.pending = mem[p].pending /\ ps.compaction = mem[p].compaction
  BY <1>3 DEF PacketStates
<1> HIDE DEF ps
<1>6. \A q \in Packets : mem'[q].pending = mem[q].pending /\ mem'[q].compaction = mem[q].compaction
  BY <1>3, <1>4, <1>5
<1>7. AwaitInv'
  <2>1. Succeeds(mem, mem', native)
    BY <1>6 DEF Succeeds
  <2> QED
    BY <1>2, <2>1, AwaitEdit DEF PlaceInv
<1>8. RoomInv'
  <2>1. Holding' = Busy(native') \cup Retained(mem') \cup Retained(disk')
    BY DEF Holding, Busy, Retained
  <2>2. Retained(mem') = Retained(mem)
    BY <1>6, RetainedSame
  <2>3. Holding' \subseteq Holding
    BY <1>2, <2>1, <2>2 DEF Holding
  <2> QED
    BY <1>2, <2>3, RoomIdle DEF PlaceInv
<1> QED
  BY <1>2, <1>7, <1>8 DEF PlaceInv, TodoInv

LEMMA CrashPlaces == ASSUME IInv, PlaceInv, Crash PROVE PlaceInv'
<1>1. mem' = disk /\ UNCHANGED <<disk, native, sent, wire>> /\ cycle' = None
  BY Zenon DEF Crash
<1>2. AwaitInv'
  BY <1>1, SucceedsSame, AwaitEdit DEF PlaceInv
<1>3. RoomInv'
  <2>1. CASE cycle = None
    <3>1. Holding' = Busy(native) \cup Retained(disk)
      BY <1>1 DEF Holding, Busy, Retained
    <3> QED
      BY <1>1, <2>1, <3>1, RoomIdle DEF Holding, PlaceInv
  <2>2. CASE cycle # None
    <3>1. Retained(disk) \subseteq Reserved /\ Busy(native') \subseteq Reserved
      BY <1>1, <2>2 DEF PlaceInv, RoomInv, Holding
    <3> QED
      BY <1>1, <2>2, <3>1, RoomEdit DEF PlaceInv
  <2> QED
    BY <2>1, <2>2
<1> QED
  BY <1>1, <1>2, <1>3 DEF PlaceInv, TodoInv

\* The sessions move on, by owners that hold a place.
LEMMA RoomNative ==
  ASSUME PlaceInv, UNCHANGED <<mem, disk, cycle>>, Busy(native') \subseteq Holding
  PROVE  TodoInv' /\ RoomInv'
<1>1. TodoInv'
  BY Zenon DEF PlaceInv, TodoInv
<1>2. CASE cycle = None
  <2>1. Holding' = Busy(native') \cup Retained(mem) \cup Retained(disk)
    BY DEF Holding, Busy, Retained
  <2>2. Holding' \subseteq Holding
    BY <2>1 DEF Holding
  <2> QED
    BY <1>1, <1>2, <2>2, RoomIdle DEF PlaceInv
<1>3. CASE cycle # None
  <2>1. Retained(mem) \subseteq Reserved /\ Busy(native') \subseteq Reserved
    BY <1>3 DEF PlaceInv, RoomInv, Holding
  <2> QED
    BY <1>1, <1>3, <2>1, RoomEdit DEF PlaceInv
<1> QED
  BY <1>2, <1>3, <1>1

\* What arrives late is known to its session already, or awaited.
LEMMA ArrivePlaces ==
  ASSUME IInv, PlaceInv, NEW request \in wire, Arrive(request)
  PROVE  PlaceInv'
<1> DEFINE p == request.to
           body == request.body
           c == request.compaction
<1>1. /\ UNCHANGED <<mem, disk, sent, cycle>> /\ wire' = wire \ {request}
      /\ body # None => native' = Take(p, body)
      /\ body = None => native' = TakeCompaction(p, c)
  BY Zenon DEF Arrive
<1>2. p \in Packets /\ body \in Bodies \cup {None} /\ native \in [Packets -> Sessions]
  <2>1. request \in Requests
    BY Types
  <2> QED
    BY <2>1, Types DEF Requests
<1>3. mem[p].pending # None \/ mem[p].compaction # None => p \in Holding
  BY <1>2 DEF Holding, Retained
<1>4. Later(native, native') /\ Busy(native') \subseteq Holding
  <2>1. CASE body # None
    <3>1. body \in sent /\ body.id.session = p
      BY <2>1 DEF PlaceInv, AwaitInv
    <3>2. \/ body \in native[p].inbox \cup native[p].log
          \/ mem[p].pending # None
      BY <3>1 DEF PlaceInv, AwaitInv, Awaited
    <3> HIDE DEF p, body
    <3>3. /\ Later(native, Take(p, body)) /\ Busy(Take(p, body)) \subseteq Busy(native) \cup {p}
          /\ body \in native[p].inbox \cup native[p].log => Take(p, body) = native
      BY <1>2, <2>1, TakeLater
    <3> QED
      BY <1>1, <1>3, <2>1, <3>2, <3>3 DEF Holding
  <2>2. CASE body = None
    <3>1. c \in Phys => native[p].compactions[c] # "none" \/ mem[p].compaction = c
      BY <2>2 DEF PlaceInv, AwaitInv, Underway
    <3>2. c \in Phys => c # None
      BY NoneAssumption DEF Phys
    <3> HIDE DEF p, body, c
    <3>3. /\ Later(native, TakeCompaction(p, c))
          /\ Busy(TakeCompaction(p, c)) \subseteq Busy(native) \cup {p}
          /\ c \in Phys /\ native[p].compactions[c] # "none" => TakeCompaction(p, c) = native
          /\ c \notin Phys => Busy(TakeCompaction(p, c)) \subseteq Busy(native)
      BY <1>2, TakeCompactionLater
    <3> QED
      BY <1>1, <1>3, <2>2, <3>1, <3>2, <3>3 DEF Holding
  <2> QED
    BY <2>1, <2>2
<1>5. AwaitInv'
  BY <1>1, <1>4, AwaitNative DEF PlaceInv
<1> QED
  BY <1>1, <1>4, <1>5, RoomNative DEF PlaceInv

\* A session that works had work before.
LEMMA SessionPlaces ==
  ASSUME IInv, PlaceInv, NEW p \in Packets, Session(p)
  PROVE  PlaceInv'
<1>1. native \in [Packets -> Sessions] /\ native[p] \in Sessions
  BY Types
<1>2. \E s : /\ Native(p, s) /\ Occupied(native[p])
             /\ native[p].inbox \cup native[p].log \subseteq s.inbox \cup s.log
             /\ \A c \in Phys : native[p].compactions[c] # "none" => s.compactions[c] # "none"
  <2>1. CASE Work(p)
    <3> DEFINE s == [native[p] EXCEPT !.active = TRUE, !.inbox = {},
                                      !.log = @ \cup native[p].inbox]
    <3>1. s.log = native[p].log \cup native[p].inbox /\ s.compactions = native[p].compactions
      BY <1>1 DEF Sessions
    <3>2. Native(p, s) /\ Occupied(native[p])
      BY <2>1, Zenon DEF Work, Occupied
    <3> HIDE DEF s
    <3> QED
      BY <3>1, <3>2
  <2>2. CASE EndTurn(p)
    <3>1. PICK high \in BOOLEAN :
            Native(p, [native[p] EXCEPT !.active = FALSE, !.phys = @ + 1, !.high = high])
      BY <2>2, Zenon DEF EndTurn
    <3> DEFINE s == [native[p] EXCEPT !.active = FALSE, !.phys = @ + 1, !.high = high]
    <3>2. /\ s.inbox = native[p].inbox /\ s.log = native[p].log
          /\ s.compactions = native[p].compactions
      BY <1>1 DEF Sessions
    <3>3. Occupied(native[p])
      BY <2>2, Zenon DEF EndTurn, Occupied
    <3>4. Native(p, s)
      BY <3>1
    <3> HIDE DEF s
    <3> QED
      BY <3>2, <3>3, <3>4
  <2>3. ASSUME NEW c \in Phys, NEW value, value # "none", NEW s,
               Native(p, s), native[p].compactions[c] \in {"inbox", "running"},
               s.inbox = native[p].inbox, s.log = native[p].log,
               s.compactions = [native[p].compactions EXCEPT ![c] = value]
        PROVE  /\ Native(p, s) /\ Occupied(native[p])
               /\ native[p].inbox \cup native[p].log \subseteq s.inbox \cup s.log
               /\ \A x \in Phys : native[p].compactions[x] # "none" => s.compactions[x] # "none"
    <3>1. Occupied(native[p])
      BY <2>3 DEF Occupied, CompactQueued, Compacting
    <3>2. DOMAIN native[p].compactions = Phys
      BY <1>1 DEF Sessions
    <3>3. ASSUME NEW f, DOMAIN f = Phys, NEW x \in Phys
          PROVE  [f EXCEPT ![c] = value][x] = IF x = c THEN value ELSE f[x]
      BY <3>3
    <3>4. \A x \in Phys : s.compactions[x] = IF x = c THEN value ELSE native[p].compactions[x]
      BY <2>3, <3>2, <3>3, Zenon
    <3> QED
      BY <2>3, <3>1, <3>4
  <2>4. CASE StartCompaction(p)
    <3>1. PICK c \in Phys : /\ native[p].compactions[c] = "inbox"
                            /\ Native(p, [native[p] EXCEPT !.compactions[c] = "running"])
      BY <2>4, Zenon DEF StartCompaction
    <3> DEFINE s == [native[p] EXCEPT !.compactions[c] = "running"]
    <3>2. /\ s.inbox = native[p].inbox /\ s.log = native[p].log
          /\ s.compactions = [native[p].compactions EXCEPT ![c] = "running"]
      BY <1>1 DEF Sessions
    <3>3. Native(p, s)
      BY <3>1
    <3> HIDE DEF s
    <3> QED
      BY <2>3, <3>1, <3>2, <3>3
  <2>5. CASE EndCompaction(p)
    <3>1. PICK c \in Phys :
            /\ native[p].compactions[c] = "running"
            /\ \/ Native(p, [native[p] EXCEPT !.compactions[c] = "completed", !.high = FALSE])
               \/ Native(p, [native[p] EXCEPT !.compactions[c] = "failed"])
      BY <2>5, Zenon DEF EndCompaction
    <3> DEFINE s == [native[p] EXCEPT !.compactions[c] = "completed", !.high = FALSE]
               f == [native[p] EXCEPT !.compactions[c] = "failed"]
    <3>2. /\ s.inbox = native[p].inbox /\ s.log = native[p].log
          /\ s.compactions = [native[p].compactions EXCEPT ![c] = "completed"]
      BY <1>1 DEF Sessions
    <3>3. /\ f.inbox = native[p].inbox /\ f.log = native[p].log
          /\ f.compactions = [native[p].compactions EXCEPT ![c] = "failed"]
      BY <1>1 DEF Sessions
    <3>4. Native(p, s) \/ Native(p, f)
      BY <3>1
    <3> HIDE DEF s, f
    <3> QED
      BY <2>3, <3>1, <3>2, <3>3, <3>4
  <2> QED
    BY <2>1, <2>2, <2>4, <2>5 DEF Session
<1>3. PICK s : /\ Native(p, s) /\ Occupied(native[p])
               /\ native[p].inbox \cup native[p].log \subseteq s.inbox \cup s.log
               /\ \A c \in Phys : native[p].compactions[c] # "none" => s.compactions[c] # "none"
  BY <1>2
<1>4. UNCHANGED <<mem, disk, sent, wire, cycle>> /\ native' = [native EXCEPT ![p] = s]
  BY <1>3, Zenon DEF Native
<1>5. native'[p] = s /\ \A q \in Packets \ {p} : native'[q] = native[q]
  BY <1>1, <1>4
<1>6. Later(native, native')
  BY <1>3, <1>5 DEF Later
<1>7. Busy(native') \subseteq Holding
  BY <1>3, <1>5 DEF Busy, Holding
<1>8. AwaitInv'
  BY <1>4, <1>6, AwaitNative DEF PlaceInv
<1> QED
  BY <1>4, <1>7, <1>8, RoomNative DEF PlaceInv

LEMMA PlaceStep == ASSUME IInv, PlaceInv, [Next]_vars PROVE PlaceInv'
<1>1. CASE UNCHANGED vars \/ LoseFence
  <2>1. UNCHANGED <<mem, disk, native, sent, wire, cycle>>
    BY <1>1, Zenon DEF vars, LoseFence
  <2>2. Busy(native') \subseteq Holding
    BY <2>1 DEF Holding
  <2> QED
    BY <2>1, <2>2, AwaitFrame, RoomNative DEF PlaceInv
<1>2. CASE Plan
  BY <1>2, PlanPlaces
<1>3. CASE StartPrompts
  BY <1>3, StartPromptsPlaces
<1>4. CASE EndCycle
  BY <1>4, EndCyclePlaces
<1>5. ASSUME NEW p \in Packets,
             \/ SkipCompaction(p) \/ AwaitCompaction(p) \/ AbortCycle(p)
             \/ SkipPrompt(p) \/ FailPrompt(p)
      PROVE  PlaceInv'
  BY <1>5, GoOnPlaces
<1>6. ASSUME NEW p \in Packets, PrepareCompaction(p) PROVE PlaceInv'
  BY <1>6, PrepareCompactionPlaces
<1>7. ASSUME NEW p \in Packets, AskCompaction(p) PROVE PlaceInv'
  BY <1>7, AskCompactionPlaces
<1>8. ASSUME NEW p \in Packets, PreparePrompt(p) PROVE PlaceInv'
  BY <1>8, PreparePromptPlaces
<1>9. ASSUME NEW p \in Packets, AttemptPrompt(p) PROVE PlaceInv'
  BY <1>9, AttemptPromptPlaces
<1>10. ASSUME NEW p \in Packets, PostPrompt(p) PROVE PlaceInv'
  BY <1>10, PostPromptPlaces
<1>11. ASSUME NEW p \in Packets, Refresh(p) PROVE PlaceInv'
  BY <1>11, RefreshPlaces
<1>12. ASSUME NEW p \in Packets, Session(p) PROVE PlaceInv'
  BY <1>12, SessionPlaces
<1>13. ASSUME NEW request \in wire, Arrive(request) PROVE PlaceInv'
  BY <1>13, ArrivePlaces
<1>14. CASE Crash
  BY <1>14, CrashPlaces
<1> QED
  BY <1>1, <1>2, <1>3, <1>4, <1>5, <1>6, <1>7, <1>8, <1>9, <1>10, <1>11, <1>12, <1>13,
     <1>14, Zenon DEF Next, Cycle, Environment

\* select() counts the sessions that are occupied and takes retained inputs first, so
\* whoever is at work, or may come to be by a late request, holds one of the places.
THEOREM WithinCapacity == Spec => []HostCapacity
<1>1. Spec => []PlaceInv
  BY InitPlaces, PlaceStep, Invariance, PTL DEF Spec
<1>2. IInv /\ PlaceInv => HostCapacity
  <2> SUFFICES ASSUME IInv, PlaceInv PROVE Within(Busy(native))
    BY DEF HostCapacity, Within, Busy
  <2>1. CASE cycle = None
    <3>1. Within(Holding) /\ Busy(native) \subseteq Holding
      BY <2>1 DEF PlaceInv, RoomInv, Holding
    <3> QED
      BY <3>1, HoldingOwners, WithinFewer
  <2>2. CASE cycle # None
    <3>1. Within(Reserved) /\ Busy(native) \subseteq Reserved
      BY <2>2 DEF PlaceInv, RoomInv, Holding
    <3> QED
      BY <2>2, <3>1, ReservedOwners, WithinFewer DEF PlaceInv
  <2> QED
    BY <2>1, <2>2
<1> QED
  BY <1>1, <1>2, Invariance, PTL

-----------------------------------------------------------------------------
(* Who is passed over.                                                     *)

\* A delivered packet has the instant its input was prepared.
Dated(j) == \A p \in Packets : j[p].delivered # None => j[p].deliveredPreparedAt \in Nat

\* The last delivery to p, if any, is of an input prepared before t.
ServedBefore(j, p, t) == j[p].delivered = None \/ j[p].deliveredPreparedAt < t

\* What q was sent last was prepared after what p was; p has nothing pending.
Overtaken(j, p, q) ==
    /\ j[p].pending = None
    /\ IF j[q].pending # None THEN ServedBefore(j, p, j[q].pending.preparedAt)
       ELSE j[q].delivered # None /\ ServedBefore(j, p, j[q].deliveredPreparedAt)

\* In both journals whoever passed another was served after it, and before the
\* cycle in progress, which gives no place to those that were passed.
FairInv ==
    /\ \A x \in passed : x \in Packets \X Packets /\ Host[x[1]] = Host[x[2]]
    /\ Dated(mem) /\ \A x \in passed : Overtaken(mem, x[1], x[2])
    /\ Dated(disk) /\ \A x \in passed : Overtaken(disk, x[1], x[2])
    /\ cycle # None =>
          /\ \A p \in Packets : ServedBefore(mem, p, cycle.at)
          /\ \A x \in passed : x[1] \notin Range(cycle.selected)

-----------------------------------------------------------------------------
(* The order of the selection.                                             *)

\* Before is the order of the classes, within one of the ages, then of the numbers.
LEMMA BeforeLex ==
  ASSUME NEW j \in [Packets -> PacketStates], Dated(j), NEW p \in Packets, NEW q \in Packets
  PROVE  /\ Class(p, j[p]) \in {0, 2, 4} /\ Age(p, j[p]) \in Nat /\ p \in Nat
         /\ Before(j, p, q) <=>
               \/ Class(p, j[p]) < Class(q, j[q])
               \/ /\ Class(p, j[p]) = Class(q, j[q])
                  /\ \/ Age(p, j[p]) < Age(q, j[q])
                     \/ Age(p, j[p]) = Age(q, j[q]) /\ p < q
<1> DEFINE a == <<Class(p, j[p]), Age(p, j[p]), p>>
           b == <<Class(q, j[q]), Age(q, j[q]), q>>
<1>1. \A r \in Packets : Class(r, j[r]) \in {0, 2, 4} /\ Age(r, j[r]) \in Nat /\ r \in Nat
  BY FinitePackets DEF Class, Age, Dated
<1>2. /\ a[1] = Class(p, j[p]) /\ a[2] = Age(p, j[p]) /\ a[3] = p
      /\ b[1] = Class(q, j[q]) /\ b[2] = Age(q, j[q]) /\ b[3] = q
  OBVIOUS
<1>3. Before(j, p, q) <=> \E i \in 1 .. 3 : a[i] < b[i] /\ \A k \in 1 .. i - 1 : a[k] = b[k]
  BY DEF Before
<1> HIDE DEF a, b
<1>4. (\E i \in 1 .. 3 : a[i] < b[i] /\ \A k \in 1 .. i - 1 : a[k] = b[k]) <=>
         \/ a[1] < b[1]
         \/ a[1] = b[1] /\ a[2] < b[2]
         \/ a[1] = b[1] /\ a[2] = b[2] /\ a[3] < b[3]
  <2> DEFINE At(i) == a[i] < b[i] /\ \A k \in 1 .. i - 1 : a[k] = b[k]
  <2>1. At(1) <=> a[1] < b[1]
    OBVIOUS
  <2>2. At(2) <=> a[1] = b[1] /\ a[2] < b[2]
    OBVIOUS
  <2>3. At(3) <=> a[1] = b[1] /\ a[2] = b[2] /\ a[3] < b[3]
    OBVIOUS
  <2>4. 1 .. 3 = {1, 2, 3}
    OBVIOUS
  <2> HIDE DEF At
  <2>5. (\E i \in 1 .. 3 : At(i)) <=> At(1) \/ At(2) \/ At(3)
    BY <2>4
  <2> QED
    BY <2>1, <2>2, <2>3, <2>5 DEF At
<1> QED
  BY <1>1, <1>2, <1>3, <1>4

\* So it is a strict order in which any two owners are compared.
LEMMA BeforeOrders ==
  ASSUME NEW j \in [Packets -> PacketStates], Dated(j)
  PROVE  /\ \A p \in Packets : ~Before(j, p, p)
         /\ \A p, q \in Packets : p # q => Before(j, p, q) \/ Before(j, q, p)
         /\ \A p, q, r \in Packets : Before(j, p, q) /\ Before(j, q, r) => Before(j, p, r)
<1> DEFINE Lex(c, g, m, d, h, n) ==
             \/ c < d
             \/ /\ c = d
                /\ \/ g < h
                   \/ g = h /\ m < n
<1>1. ASSUME NEW p \in Packets
      PROVE  Class(p, j[p]) \in Nat /\ Age(p, j[p]) \in Nat /\ p \in Nat
  BY BeforeLex
<1>2. ASSUME NEW p \in Packets, NEW q \in Packets
      PROVE  Before(j, p, q) <=>
                Lex(Class(p, j[p]), Age(p, j[p]), p, Class(q, j[q]), Age(q, j[q]), q)
  <2>1. Before(j, p, q) <=>
               \/ Class(p, j[p]) < Class(q, j[q])
               \/ /\ Class(p, j[p]) = Class(q, j[q])
                  /\ \/ Age(p, j[p]) < Age(q, j[q])
                     \/ Age(p, j[p]) = Age(q, j[q]) /\ p < q
    BY BeforeLex
  <2> QED
    BY <2>1, Zenon
<1>3. ASSUME NEW c \in Nat, NEW g \in Nat, NEW m \in Nat PROVE ~Lex(c, g, m, c, g, m)
  OBVIOUS
<1>7. ASSUME NEW c \in Nat, NEW g \in Nat, NEW m \in Nat,
             NEW d \in Nat, NEW h \in Nat, NEW n \in Nat, m # n
      PROVE  Lex(c, g, m, d, h, n) \/ Lex(d, h, n, c, g, m)
  BY <1>7
<1>8. ASSUME NEW c \in Nat, NEW g \in Nat, NEW m \in Nat, NEW d \in Nat, NEW h \in Nat,
             NEW n \in Nat, NEW e \in Nat, NEW i \in Nat, NEW o \in Nat,
             Lex(c, g, m, d, h, n), Lex(d, h, n, e, i, o)
      PROVE  Lex(c, g, m, e, i, o)
  BY <1>8
<1> HIDE DEF Lex
<1>4. ASSUME NEW p \in Packets PROVE ~Before(j, p, p)
  BY <1>1, <1>2, <1>3, Zenon
<1>5. ASSUME NEW p \in Packets, NEW q \in Packets, p # q
      PROVE  Before(j, p, q) \/ Before(j, q, p)
  BY <1>1, <1>2, <1>5, <1>7, Zenon
<1>6. ASSUME NEW p \in Packets, NEW q \in Packets, NEW r \in Packets,
             Before(j, p, q), Before(j, q, r)
      PROVE  Before(j, p, r)
  <2>1. /\ Lex(Class(p, j[p]), Age(p, j[p]), p, Class(q, j[q]), Age(q, j[q]), q)
        /\ Lex(Class(q, j[q]), Age(q, j[q]), q, Class(r, j[r]), Age(r, j[r]), r)
    BY <1>2, <1>6
  <2>2. Lex(Class(p, j[p]), Age(p, j[p]), p, Class(r, j[r]), Age(r, j[r]), r)
    BY <1>1, <1>8, <2>1
  <2> QED
    BY <1>2, <2>2
<1> QED
  BY <1>4, <1>5, <1>6

\* Ordered lists each owner once, at its rank.
LEMMA OrderedRanks ==
  ASSUME NEW j \in [Packets -> PacketStates], Dated(j)
  PROVE  \E rank \in [Packets -> 1 .. Cardinality(Packets)] :
            /\ \A p \in Packets : Ordered(j)[rank[p]] = p
            /\ \A i \in 1 .. Cardinality(Packets) : \E p \in Packets : rank[p] = i
            /\ \A p, q \in Packets : Before(j, p, q) => rank[p] < rank[q]
<1> DEFINE n == Cardinality(Packets)
           below == [p \in Packets |-> {q \in Packets : Before(j, q, p)}]
           rank == [p \in Packets |-> Cardinality(below[p]) + 1]
<1>1. IsFiniteSet(Packets) /\ n \in Nat
  BY FinitePackets, FS_CardinalityType, Zenon
<1>2. \A p \in Packets : /\ IsFiniteSet(below[p]) /\ Cardinality(below[p]) \in Nat
                         /\ p \notin below[p]
                         /\ Cardinality(below[p] \cup {p}) = Cardinality(below[p]) + 1
  <2> TAKE p \in Packets
  <2>1. below[p] \in SUBSET Packets
    OBVIOUS
  <2>2. IsFiniteSet(below[p])
    BY <1>1, <2>1, FS_Subset, Zenon
  <2>3. p \notin below[p]
    BY BeforeOrders
  <2> HIDE DEF below
  <2> QED
    BY <2>2, <2>3, FS_CardinalityType, FS_AddElement, Zenon
<1>3. \A p \in Packets : Cardinality(below[p]) + 1 \in 1 .. n
  <2> TAKE p \in Packets
  <2>1. below[p] \cup {p} \in SUBSET Packets
    OBVIOUS
  <2>2. Cardinality(below[p] \cup {p}) <= n
    BY <1>1, <2>1, FS_Subset, Zenon
  <2> HIDE DEF below
  <2> QED
    BY <1>1, <1>2, <2>2
<1>4. \A p, q \in Packets : Before(j, p, q) => Cardinality(below[p]) < Cardinality(below[q])
  <2> SUFFICES ASSUME NEW p \in Packets, NEW q \in Packets, Before(j, p, q)
               PROVE  Cardinality(below[p]) < Cardinality(below[q])
    OBVIOUS
  <2>1. below[p] \cup {p} \in SUBSET below[q]
    BY BeforeOrders
  <2>2. Cardinality(below[p] \cup {p}) <= Cardinality(below[q])
    BY <1>2, <2>1, FS_Subset, Zenon
  <2>3. /\ Cardinality(below[p] \cup {p}) = Cardinality(below[p]) + 1
        /\ Cardinality(below[p]) \in Nat /\ Cardinality(below[q]) \in Nat
    BY <1>2, Zenon
  <2> HIDE DEF below
  <2> QED
    BY <2>2, <2>3
<1>5. rank \in [Packets -> 1 .. n]
  BY <1>3
<1>6. \A p, q \in Packets : Before(j, p, q) => rank[p] < rank[q]
  <2> SUFFICES ASSUME NEW p \in Packets, NEW q \in Packets, Before(j, p, q)
               PROVE  rank[p] < rank[q]
    OBVIOUS
  <2>1. /\ Cardinality(below[p]) < Cardinality(below[q])
        /\ Cardinality(below[p]) \in Nat /\ Cardinality(below[q]) \in Nat
    BY <1>2, <1>4, Zenon
  <2>2. rank[p] = Cardinality(below[p]) + 1 /\ rank[q] = Cardinality(below[q]) + 1
    OBVIOUS
  <2> HIDE DEF below, rank
  <2> QED
    BY <2>1, <2>2
<1>7. \A p, q \in Packets : rank[p] = rank[q] => p = q
  <2> SUFFICES ASSUME NEW p \in Packets, NEW q \in Packets, rank[p] = rank[q], p # q
               PROVE  FALSE
    OBVIOUS
  <2>1. Before(j, p, q) \/ Before(j, q, p)
    BY BeforeOrders
  <2>2. rank[p] < rank[q] \/ rank[q] < rank[p]
    BY <1>6, <2>1
  <2> HIDE DEF rank
  <2> QED
    BY <1>5, <2>2
<1>8. \A p \in Packets : Ordered(j)[rank[p]] = p
  <2> TAKE p \in Packets
  <2>1. rank[p] \in 1 .. n
    BY <1>5
  <2>2. Ordered(j)[rank[p]] = CHOOSE r \in Packets : Cardinality(below[r]) = rank[p] - 1
    BY <2>1 DEF Ordered
  <2>3. \A r \in Packets : Cardinality(below[r]) = rank[p] - 1 <=> rank[r] = rank[p]
    <3> TAKE r \in Packets
    <3>1. rank[r] = Cardinality(below[r]) + 1 /\ rank[p] = Cardinality(below[p]) + 1
      OBVIOUS
    <3>2. Cardinality(below[r]) \in Nat /\ Cardinality(below[p]) \in Nat
      BY <1>2, Zenon
    <3> HIDE DEF below, rank
    <3> QED
      BY <3>1, <3>2
  <2> HIDE DEF rank, below
  <2>4. \A r \in Packets : Cardinality(below[r]) = rank[p] - 1 <=> r = p
    BY <1>7, <2>3
  <2> QED
    BY <2>2, <2>4
<1>9. \A i \in 1 .. n : \E p \in Packets : rank[p] = i
  <2>1. rank \in Injection(Packets, 1 .. n)
    <3> HIDE DEF rank
    <3> QED
      BY <1>5, <1>7 DEF Injection, IsInjective
  <2>2. IsFiniteSet(1 .. n) /\ Cardinality(1 .. n) = n
    BY <1>1, FS_Interval
  <2> HIDE DEF rank
  <2>3. rank \in Surjection(Packets, 1 .. n)
    BY <2>1, <2>2, FS_Injection, Zenon
  <2> QED
    BY <2>3 DEF Surjection
<1> HIDE DEF rank
<1> QED
  BY <1>5, <1>6, <1>8, <1>9

\* Nobody is selected for a new event while an owner of its host that comes before it,
\* is wanted and free, is left out.
LEMMA SelectedInOrder ==
  ASSUME NEW j \in [Packets -> PacketStates], Dated(j), NEW occupied \in SUBSET Packets,
         NEW p \in Packets, NEW q \in Packets, Host[p] = Host[q], Before(j, p, q),
         NeedsWake(j[p]), p \notin occupied, p \notin Range(Selected(j, occupied)),
         q \notin Retained(j)
  PROVE  q \notin Range(Selected(j, occupied))
<1> DEFINE order == Ordered(j)
           n == Cardinality(Packets)
           reserved == occupied \cup RetainedServed(j, occupied)
<1>1. Wanted(j) \in SUBSET Packets /\ p \in Wanted(j)
  BY DEF Wanted
<1>2. n \in Nat /\ DOMAIN order = 1 .. n
  BY Lengths
<1>4. RetainedServed(j, occupied) \subseteq Retained(j)
  BY SelectedRange
<1>6. reserved \in SUBSET Packets
  BY <1>4 DEF Retained
<1>8. FreshServed(j, occupied) = {order[i] : i \in Served(order, Wanted(j), reserved)}
  BY DEF FreshServed
<1>9. Range(Selected(j, occupied)) = RetainedServed(j, occupied) \cup FreshServed(j, occupied)
  BY SelectedRange
<1>10. p \notin reserved
  BY <1>9
<1> HIDE DEF reserved, order, n
<1>11. PICK rank \in [Packets -> 1 .. n] :
          /\ \A r \in Packets : order[rank[r]] = r
          /\ \A i \in 1 .. n : \E r \in Packets : rank[r] = i
          /\ \A r, s \in Packets : Before(j, r, s) => rank[r] < rank[s]
  BY OrderedRanks, Zenon DEF order, n
<1>12. \A i \in 1 .. n : order[i] = q => i = rank[q]
  BY <1>11
<1> SUFFICES ASSUME q \in Range(Selected(j, occupied)) PROVE FALSE
  OBVIOUS
<1>13. PICK k \in Served(order, Wanted(j), reserved) : order[k] = q
  BY <1>4, <1>8, <1>9
<1>14. k = rank[q] /\ k \in 1 .. n
  <2>1. k \in 1 .. n
    BY <1>2, <1>13 DEF Served
  <2> QED
    BY <1>12, <1>13, <2>1
<1> DEFINE i == rank[p]
           early == reserved \cup (Wanted(j) \cap {order[m] : m \in 1 .. i - 1})
           late == reserved \cup (Wanted(j) \cap {order[m] : m \in 1 .. k - 1})
<1>15. i \in 1 .. n /\ i < k /\ order[i] = p
  BY <1>11, <1>14
<1>16. Room(late, q)
  BY <1>13 DEF Served
<1>17. p \notin {order[m] : m \in 1 .. i - 1}
  <2> SUFFICES ASSUME NEW m \in 1 .. i - 1, order[m] = p PROVE FALSE
    OBVIOUS
  <2>1. m \in 1 .. n /\ m # i
    BY <1>2, <1>15
  <2>2. PICK r \in Packets : rank[r] = m
    BY <1>11, <2>1
  <2> QED
    BY <1>11, <2>1, <2>2
<1>18. ~Room(early, p)
  <2> SUFFICES ASSUME Room(early, p) PROVE FALSE
    OBVIOUS
  <2>1. i \in Served(order, Wanted(j), reserved)
    BY <1>1, <1>2, <1>10, <1>15, <1>17 DEF Served
  <2>2. p \in FreshServed(j, occupied)
    BY <1>8, <1>15, <2>1
  <2> QED
    BY <1>9, <2>2
<1>19. early \subseteq late /\ late \in SUBSET Packets
  <2>1. 1 .. i - 1 \subseteq 1 .. k - 1
    BY <1>2, <1>14, <1>15
  <2> QED
    BY <1>1, <1>6, <2>1
<1> HIDE DEF early, late
<1>20. Cardinality(OnHost(early, Host[q])) <= Cardinality(OnHost(late, Host[q]))
  BY <1>19, FewerOnHost
<1>21. /\ Cardinality(OnHost(early, Host[q])) \in Nat /\ Cardinality(OnHost(late, Host[q])) \in Nat
       /\ Capacity[Host[q]] \in Nat
  BY <1>19, FiniteOwners, CapacityType
<1> QED
  BY <1>16, <1>18, <1>20, <1>21 DEF Room

-----------------------------------------------------------------------------
(* The invariant of the owners that were passed.                           *)

\* ps2 says of deliveries and of the pending input what ps does.
SameInputs(ps, ps2) ==
    /\ ps2.delivered = ps.delivered /\ ps2.deliveredPreparedAt = ps.deliveredPreparedAt
    /\ ps2.pending = None <=> ps.pending = None
    /\ ps.pending # None => ps2.pending.preparedAt = ps.pending.preparedAt

LEMMA SameInputsKeep ==
  ASSUME NEW j, NEW j2, \A r \in Packets : SameInputs(j[r], j2[r])
  PROVE  /\ Dated(j) => Dated(j2)
         /\ \A p, q \in Packets : Overtaken(j, p, q) => Overtaken(j2, p, q)
         /\ \A p \in Packets, t \in Nat : ServedBefore(j, p, t) => ServedBefore(j2, p, t)
<1>1. Dated(j) => Dated(j2)
  BY DEF SameInputs, Dated
<1>2. \A p, q \in Packets : Overtaken(j, p, q) => Overtaken(j2, p, q)
  BY DEF SameInputs, Overtaken, ServedBefore
<1>3. \A p \in Packets, t \in Nat : ServedBefore(j, p, t) => ServedBefore(j2, p, t)
  BY DEF SameInputs, ServedBefore
<1> QED
  BY <1>1, <1>2, <1>3

\* Steps that change no delivery and no pending input, in the same cycle or at its end.
LEMMA FairFrame ==
  ASSUME FairInv, passed' = passed, NEW j, \A r \in Packets : SameInputs(mem[r], j[r]),
         mem' \in {mem, disk, j}, disk' \in {mem, disk, j},
         \/ cycle' = None
         \/ /\ cycle # None /\ cycle.at \in Nat /\ mem' \in {mem, j}
            /\ cycle'.at = cycle.at /\ cycle'.selected = cycle.selected
  PROVE  FairInv'
<1>1. /\ Dated(j)
      /\ \A p, q \in Packets : Overtaken(mem, p, q) => Overtaken(j, p, q)
      /\ \A p \in Packets, t \in Nat : ServedBefore(mem, p, t) => ServedBefore(j, p, t)
  BY SameInputsKeep DEF FairInv
<1>2. \A x \in passed : /\ x \in Packets \X Packets /\ Host[x[1]] = Host[x[2]]
                        /\ x[1] \in Packets /\ x[2] \in Packets
                        /\ Overtaken(mem, x[1], x[2]) /\ Overtaken(disk, x[1], x[2])
  BY DEF FairInv
<1>3. \A k \in {mem, disk, j} : Dated(k) /\ \A x \in passed : Overtaken(k, x[1], x[2])
  BY <1>1, <1>2 DEF FairInv
<1>4. /\ Dated(mem') /\ \A x \in passed : Overtaken(mem', x[1], x[2])
      /\ Dated(disk') /\ \A x \in passed : Overtaken(disk', x[1], x[2])
  BY <1>3
<1>5. cycle' # None =>
        /\ \A p \in Packets : ServedBefore(mem', p, cycle'.at)
        /\ \A x \in passed : x[1] \notin Range(cycle'.selected)
  BY <1>1 DEF FairInv
<1>6. /\ Dated(mem)' = Dated(mem') /\ Dated(disk)' = Dated(disk')
      /\ \A p, q : /\ Overtaken(mem, p, q)' = Overtaken(mem', p, q)
                   /\ Overtaken(disk, p, q)' = Overtaken(disk', p, q)
      /\ \A p : ServedBefore(mem, p, cycle.at)' = ServedBefore(mem', p, cycle'.at)
  BY DEF Dated, Overtaken, ServedBefore
<1> QED
  BY <1>2, <1>4, <1>5, Zenon DEF FairInv

\* What the steps of a cycle leave of it.
LEMMA CycleKept ==
  ASSUME CycleInv, cycle # None, NEW p, NEW step,
         cycle' \in {cycle, [cycle EXCEPT !.step = step], Done(step), Blocked(p)}
  PROVE  cycle.at \in Nat /\ cycle'.at = cycle.at /\ cycle'.selected = cycle.selected
<1>1. DOMAIN cycle = {"step", "todo", "compacting", "selected", "seen", "at"} /\ cycle.at \in Nat
  BY DEF CycleInv
<1>2. CASE cycle' \in {cycle, [cycle EXCEPT !.step = step], Done(step)}
  BY <1>1, <1>2 DEF Done
<1>3. CASE cycle' = Blocked(p)
  <2>1. /\ DOMAIN Done("compact") = DOMAIN cycle
        /\ Done("compact").at = cycle.at /\ Done("compact").selected = cycle.selected
    BY <1>1 DEF Done
  <2> QED
    BY <1>1, <1>3, <2>1 DEF Blocked
<1> QED
  BY <1>2, <1>3

\* A reconciled input becomes the last delivery, with its instant.
LEMMA ReconciledFair ==
  ASSUME IInv, Dated(mem)
  PROVE  LET next == [p \in Packets |-> Reconciled(p)]
         IN  /\ Dated(next)
             /\ \A p, q \in Packets : Overtaken(mem, p, q) => Overtaken(next, p, q)
<1> DEFINE next == [p \in Packets |-> Reconciled(p)]
<1>1. \A p \in Packets :
        \/ next[p] = mem[p]
        \/ /\ mem[p].pending # None /\ next[p].pending = None
           /\ next[p].delivered # None
           /\ next[p].deliveredPreparedAt = mem[p].pending.preparedAt
           /\ next[p].deliveredPreparedAt \in Nat
  <2> TAKE p \in Packets
  <2>1. mem[p] \in PacketStates
    BY Types
  <2>2. CASE mem[p].pending # None /\ Receipts(native[p], mem[p].pending.body.id) # {}
    <3>1. next[p] = Acknowledge(mem[p])
      BY <2>2 DEF Reconciled
    <3>2. mem[p].pending.version \in Versions /\ mem[p].pending.preparedAt \in Nat
      BY <2>1, <2>2 DEF PacketStates, PendingInputs
    <3>3. /\ next[p].pending = None /\ next[p].delivered = mem[p].pending.version
          /\ next[p].deliveredPreparedAt = mem[p].pending.preparedAt
      BY <2>1, <3>1 DEF Acknowledge, PacketStates
    <3> QED
      BY <2>2, <3>2, <3>3, DriverAssumption
  <2>3. CASE ~(mem[p].pending # None /\ Receipts(native[p], mem[p].pending.body.id) # {})
    <3>1. next[p] = mem[p]
      BY <2>3, Zenon DEF Reconciled
    <3> QED
      BY <3>1
  <2> QED
    BY <2>2, <2>3
<1> HIDE DEF next
<1>2. Dated(next)
  BY <1>1 DEF Dated
<1>3. ASSUME NEW p \in Packets, NEW q \in Packets, Overtaken(mem, p, q)
      PROVE  Overtaken(next, p, q)
  <2>1. next[p] = mem[p]
    BY <1>1, <1>3 DEF Overtaken
  <2> QED
    BY <1>1, <1>3, <2>1 DEF Overtaken, ServedBefore
<1> QED
  BY <1>2, <1>3 DEF next

LEMMA InitFair == Init => FairInv
<1> SUFFICES ASSUME Init PROVE FairInv
  OBVIOUS
<1>1. passed = {} /\ cycle = None /\ disk = mem
  BY DEF Init
<1>2. \A p \in Packets : mem[p].delivered = None
  BY DEF Init, NewJournal
<1> QED
  BY <1>1, <1>2 DEF FairInv, Dated

\* Whoever still waits in the new cycle has no place in it.
LEMMA PlanFair == ASSUME IInv, FairInv, Plan PROVE FairInv'
<1> DEFINE next == [p \in Packets |-> Reconciled(p)]
<1>1. next \in [Packets -> PacketStates]
  <2>1. ASSUME NEW p \in Packets PROVE Reconciled(p) \in PacketStates
    <3>1. mem[p] \in PacketStates
      BY Types
    <3>2. CASE mem[p].pending # None
      <4>1. mem[p].pending \in PendingInputs
        BY <3>1, <3>2 DEF PacketStates
      <4>2. Acknowledge(mem[p]) \in PacketStates
        BY <3>1, <4>1 DEF PacketStates, PendingInputs, Acknowledge
      <4> QED
        BY <3>1, <4>2 DEF Reconciled
    <3>3. CASE mem[p].pending = None
      BY <3>1, <3>3 DEF Reconciled
    <3> QED
      BY <3>2, <3>3
  <2> QED
    BY <2>1
<1>2. /\ Dated(next)
      /\ \A p, q \in Packets : Overtaken(mem, p, q) => Overtaken(next, p, q)
  BY ReconciledFair DEF FairInv
<1>3. \/ /\ mem' = next /\ disk' = next
         /\ \E selected : cycle' = [step |-> "compact", todo |-> Manifest, compacting |-> {},
                                    selected |-> selected, seen |-> native, at |-> Now(next)]
         /\ passed' = {x \in passed : Waiting(x[1])'}
      \/ mem' = mem /\ disk' \in {disk, next} /\ cycle' = None /\ passed' = passed
  BY Zenon DEF Plan, Persist, PersistFails, Observation
<1> HIDE DEF next
<1>4. passed' \subseteq passed
  BY <1>3
<1>5. \A x \in passed : /\ x \in Packets \X Packets /\ Host[x[1]] = Host[x[2]]
                        /\ x[1] \in Packets /\ x[2] \in Packets
                        /\ Overtaken(mem, x[1], x[2]) /\ Overtaken(disk, x[1], x[2])
                        /\ Overtaken(next, x[1], x[2])
  BY <1>2 DEF FairInv
<1>6. mem' \in {mem, next} /\ disk' \in {disk, next}
  BY <1>3
<1>7. /\ Dated(mem') /\ \A x \in passed : Overtaken(mem', x[1], x[2])
      /\ Dated(disk') /\ \A x \in passed : Overtaken(disk', x[1], x[2])
  BY <1>2, <1>5, <1>6 DEF FairInv
<1>8. cycle' # None =>
        /\ \A p \in Packets : ServedBefore(mem', p, cycle'.at)
        /\ \A x \in passed' : x[1] \notin Range(cycle'.selected)
  <2> SUFFICES ASSUME cycle' # None
               PROVE  /\ \A p \in Packets : ServedBefore(mem', p, cycle'.at)
                      /\ \A x \in passed' : x[1] \notin Range(cycle'.selected)
    OBVIOUS
  <2>1. mem' = next /\ cycle'.at = Now(next) /\ passed' = {x \in passed : Waiting(x[1])'}
    BY <1>3
  <2>2. \A p \in Packets : next[p].delivered # None => next[p].deliveredPreparedAt < Now(next)
    BY <1>1, <1>2, NowType DEF Dated
  <2>3. \A p \in Packets : ServedBefore(mem', p, cycle'.at)
    BY <2>1, <2>2 DEF ServedBefore
  <2>4. \A x \in passed' : x[1] \notin Range(cycle'.selected)
    BY <2>1 DEF Waiting
  <2> QED
    BY <2>3, <2>4
<1>9. /\ Dated(mem)' = Dated(mem') /\ Dated(disk)' = Dated(disk')
      /\ \A p, q : /\ Overtaken(mem, p, q)' = Overtaken(mem', p, q)
                   /\ Overtaken(disk, p, q)' = Overtaken(disk', p, q)
      /\ \A p : ServedBefore(mem, p, cycle.at)' = ServedBefore(mem', p, cycle'.at)
  BY DEF Dated, Overtaken, ServedBefore
<1> QED
  BY <1>4, <1>5, <1>7, <1>8, <1>9, Zenon DEF FairInv

\* A fresh input is prepared for an owner with a place, later than all deliveries.
LEMMA PreparePromptFair ==
  ASSUME IInv, PlaceInv, FairInv, NEW p \in Packets, PreparePrompt(p)
  PROVE  FairInv'
<1>1. PICK text \in Texts : mem' = [mem EXCEPT ![p] = Prepare(p, @, text, cycle.at)]
  BY Zenon DEF PreparePrompt
<1> DEFINE ps == Prepare(p, mem[p], text, cycle.at)
           j == [mem EXCEPT ![p] = ps]
<1>2. /\ cycle # None /\ Serving("prompt", p) /\ passed' = passed
      /\ mem' = j /\ disk' \in {disk, j}
      /\ cycle' \in {[cycle EXCEPT !.step = "attempt"], Done("prompt")}
  BY <1>1, Zenon DEF PreparePrompt, Serving, Persist, PersistFails
<1>3. p \in Range(cycle.selected)
  BY <1>2, ServingOwner DEF PlaceInv
<1>4. mem \in [Packets -> PacketStates] /\ mem[p] \in PacketStates
  BY Types
<1>5. cycle.at \in Nat /\ cycle'.at = cycle.at /\ cycle'.selected = cycle.selected
  <2>1. CASE cycle' = [cycle EXCEPT !.step = "attempt"]
    BY <1>2, <2>1, CycleKept DEF IInv
  <2>2. CASE cycle' = Done("prompt")
    BY <1>2, <2>2, CycleKept DEF IInv
  <2> QED
    BY <1>2, <2>1, <2>2
<1>6. /\ ps.delivered = mem[p].delivered
      /\ ps.deliveredPreparedAt = mem[p].deliveredPreparedAt
      /\ mem[p].pending # None => ps.pending = mem[p].pending
      /\ mem[p].pending = None => ps.pending.preparedAt = cycle.at
  BY <1>4 DEF Prepare, Fresh, PacketStates
<1>7. ps.pending # None
  <2>1. PacketOK(p, mem[p], sent, native[p]) /\ sent \subseteq Bodies
    BY JournalPackets DEF IInv, JournalInv
  <2> QED
    BY <1>5, <2>1, PrepareOK
<1> HIDE DEF ps
<1>8. j[p] = ps /\ \A r \in Packets : r # p => j[r] = mem[r]
  BY <1>4
<1> HIDE DEF j
<1>9. Dated(j)
  BY <1>6, <1>8 DEF FairInv, Dated
<1>10. \A r \in Packets : ServedBefore(j, r, cycle.at)
  BY <1>2, <1>6, <1>8 DEF FairInv, ServedBefore
<1>11. ASSUME NEW x \in passed PROVE Overtaken(j, x[1], x[2])
  <2>1. /\ x[1] \in Packets /\ x[2] \in Packets /\ Overtaken(mem, x[1], x[2])
        /\ x[1] \notin Range(cycle.selected)
    BY <1>2 DEF FairInv
  <2>2. x[1] # p /\ j[x[1]] = mem[x[1]]
    BY <1>3, <1>8, <2>1
  <2>3. CASE x[2] # p
    BY <1>8, <2>1, <2>2, <2>3 DEF Overtaken, ServedBefore
  <2>4. CASE x[2] = p /\ mem[p].pending # None
    BY <1>6, <1>7, <1>8, <2>1, <2>2, <2>4 DEF Overtaken, ServedBefore
  <2>5. CASE x[2] = p /\ mem[p].pending = None
    <3>1. ServedBefore(j, x[1], j[p].pending.preparedAt)
      BY <1>6, <1>8, <1>10, <2>1, <2>5
    <3> QED
      BY <1>7, <1>8, <2>1, <2>2, <2>5, <3>1 DEF Overtaken
  <2> QED
    BY <2>3, <2>4, <2>5
<1>12. /\ Dated(disk') /\ \A x \in passed : Overtaken(disk', x[1], x[2])
  BY <1>2, <1>9, <1>11 DEF FairInv
<1>13. /\ Dated(mem)' = Dated(mem') /\ Dated(disk)' = Dated(disk')
       /\ \A r, q : /\ Overtaken(mem, r, q)' = Overtaken(mem', r, q)
                    /\ Overtaken(disk, r, q)' = Overtaken(disk', r, q)
       /\ \A r : ServedBefore(mem, r, cycle.at)' = ServedBefore(mem', r, cycle'.at)
  BY DEF Dated, Overtaken, ServedBefore
<1>14. /\ \A x \in passed' : x \in Packets \X Packets /\ Host[x[1]] = Host[x[2]]
       /\ \A x \in passed' : x[1] \notin Range(cycle'.selected)
  BY <1>2, <1>5 DEF FairInv
<1> QED
  BY <1>2, <1>5, <1>9, <1>10, <1>11, <1>12, <1>13, <1>14, Zenon DEF FairInv

\* Whoever waits while a fresh input is sent was served before that was prepared.
LEMMA PostPromptFair ==
  ASSUME IInv, FairInv, NEW p \in Packets, PostPrompt(p)
  PROVE  FairInv'
<1> DEFINE new == {<<q, p>> : q \in {q \in OnHost(Packets, Host[p]) : FixedNow(p) /\ Waiting(q)}}
<1>1. /\ cycle # None /\ cycle.step = "post" /\ p = Head(cycle.todo)
      /\ mem' = mem /\ disk' = disk /\ cycle' = Done("prompt") /\ passed' = passed \cup new
  BY Zenon DEF PostPrompt, Serving
<1>2. cycle.at \in Nat /\ cycle'.at = cycle.at /\ cycle'.selected = cycle.selected
  BY <1>1, CycleKept DEF IInv
<1>3. disk = mem /\ mem[p].pending # None
  BY <1>1 DEF IInv, CycleInv
<1>4. ASSUME NEW x \in new
      PROVE  /\ x \in Packets \X Packets /\ Host[x[1]] = Host[x[2]]
             /\ Overtaken(mem, x[1], x[2]) /\ x[1] \notin Range(cycle.selected)
  <2>1. PICK q \in Packets : x = <<q, p>> /\ Host[q] = Host[p] /\ FixedNow(p) /\ Waiting(q)
    BY DEF OnHost
  <2>2. x[1] = q /\ x[2] = p
    BY <2>1
  <2>3. mem[q].pending = None /\ q \notin Range(cycle.selected)
    BY <2>1 DEF Waiting, NeedsWake
  <2>4. ServedBefore(mem, q, mem[p].pending.preparedAt)
    BY <1>1, <2>1 DEF FairInv, FixedNow
  <2>5. Overtaken(mem, q, p)
    BY <1>3, <2>3, <2>4 DEF Overtaken
  <2> QED
    BY <2>1, <2>2, <2>3, <2>5
<1> HIDE DEF new
<1>5. \A x \in passed' : /\ x \in Packets \X Packets /\ Host[x[1]] = Host[x[2]]
                         /\ Overtaken(mem, x[1], x[2]) /\ x[1] \notin Range(cycle.selected)
  BY <1>1, <1>4 DEF FairInv
<1>6. Dated(mem) /\ \A q \in Packets : ServedBefore(mem, q, cycle.at)
  BY <1>1 DEF FairInv
<1>7. /\ Dated(mem)' = Dated(mem') /\ Dated(disk)' = Dated(disk')
      /\ \A r, q : /\ Overtaken(mem, r, q)' = Overtaken(mem', r, q)
                   /\ Overtaken(disk, r, q)' = Overtaken(disk', r, q)
      /\ \A r : ServedBefore(mem, r, cycle.at)' = ServedBefore(mem', r, cycle'.at)
  BY DEF Dated, Overtaken, ServedBefore
<1> QED
  BY <1>1, <1>2, <1>3, <1>5, <1>6, <1>7, Zenon DEF FairInv

LEMMA SameInputsSame == ASSUME NEW j PROVE \A r \in Packets : SameInputs(j[r], j[r])
BY DEF SameInputs

\* Steps that change other fields of the journals, or none.
LEMMA OtherFair ==
  ASSUME IInv, PlaceInv, FairInv, NEW p \in Packets,
         \/ SkipCompaction(p) \/ AwaitCompaction(p) \/ AbortCycle(p)
         \/ SkipPrompt(p) \/ FailPrompt(p)
         \/ PrepareCompaction(p) \/ AskCompaction(p) \/ AttemptPrompt(p)
  PROVE  FairInv'
<1>1. /\ cycle # None /\ passed' = passed
      /\ \/ cycle' = None
         \/ cycle' \in {cycle, Blocked(p), Done("compact"), Done("prompt"),
                        [cycle EXCEPT !.step = "post"]}
  BY Zenon DEF SkipCompaction, AwaitCompaction, AbortCycle, SkipPrompt, FailPrompt,
               PrepareCompaction, AskCompaction, AttemptPrompt, Serving
<1>2. \/ cycle' = None
      \/ cycle.at \in Nat /\ cycle'.at = cycle.at /\ cycle'.selected = cycle.selected
  <2>1. CASE cycle' \in {cycle, Blocked(p), Done("compact")}
    BY <1>1, <2>1, CycleKept DEF IInv
  <2>2. CASE cycle' = Done("prompt")
    BY <1>1, <2>2, CycleKept DEF IInv
  <2>3. CASE cycle' = [cycle EXCEPT !.step = "post"]
    BY <1>1, <2>3, CycleKept DEF IInv
  <2> QED
    BY <1>1, <2>1, <2>2, <2>3
<1>3. mem \in [Packets -> PacketStates] /\ mem[p] \in PacketStates
  BY Types
<1>4. CASE mem' = mem /\ disk' = disk
  BY <1>1, <1>2, <1>4, SameInputsSame, FairFrame
<1>5. ASSUME NEW c, mem' = [mem EXCEPT ![p].compaction = c], disk' \in {disk, mem'}
      PROVE  FairInv'
  <2> DEFINE j == [mem EXCEPT ![p].compaction = c]
  <2>1. \A r \in Packets : SameInputs(mem[r], j[r])
    BY <1>3 DEF SameInputs, PacketStates
  <2> HIDE DEF j
  <2>2. mem' = j
    BY <1>5 DEF j
  <2> QED
    BY <1>1, <1>2, <1>5, <2>1, <2>2, FairFrame
<1>6. CASE AttemptPrompt(p)
  <2> DEFINE j == [mem EXCEPT ![p].pending.attempt = cycle.at]
  <2>1. mem' = j /\ disk' \in {disk, mem'} /\ cycle.step = "attempt" /\ p = Head(cycle.todo)
    BY <1>6, Zenon DEF AttemptPrompt, Serving, Persist, PersistFails
  <2>2. mem[p].pending # None /\ cycle.at \in Nat
    BY <1>1, <2>1 DEF IInv, CycleInv
  <2>3. mem[p].pending \in PendingInputs
    BY <1>3, <2>2 DEF PacketStates
  <2>4. /\ j[p].delivered = mem[p].delivered
        /\ j[p].deliveredPreparedAt = mem[p].deliveredPreparedAt
        /\ j[p].pending = [mem[p].pending EXCEPT !.attempt = cycle.at]
        /\ j[p].pending.preparedAt = mem[p].pending.preparedAt
        /\ \A r \in Packets : r # p => j[r] = mem[r]
    BY <1>3, <2>3 DEF PacketStates, PendingInputs
  <2>5. j[p].pending # None
    <3>1. j[p].pending \in PendingInputs
      BY <2>2, <2>3, <2>4 DEF PendingInputs
    <3> QED
      BY <3>1, NoneAssumption
  <2> HIDE DEF j
  <2>6. \A r \in Packets : SameInputs(mem[r], j[r])
    BY <2>2, <2>4, <2>5 DEF SameInputs
  <2> QED
    BY <1>1, <1>2, <2>1, <2>6, FairFrame
<1>7. CASE PrepareCompaction(p)
  <2>1. /\ mem' = [mem EXCEPT ![p].compaction = cycle.seen[p].phys]
        /\ disk' \in {disk, mem'}
    BY <1>7, Zenon DEF PrepareCompaction, Persist, PersistFails
  <2> QED
    BY <1>5, <2>1
<1>8. CASE AskCompaction(p)
  <2>1. \/ mem' = mem /\ disk' = disk
        \/ mem' = [mem EXCEPT ![p].compaction = None] /\ disk' \in {disk, mem'}
    BY <1>8, Zenon DEF AskCompaction, Persist, PersistFails
  <2> QED
    BY <1>4, <1>5, <2>1
<1>9. CASE \/ SkipCompaction(p) \/ AwaitCompaction(p) \/ AbortCycle(p)
           \/ SkipPrompt(p) \/ FailPrompt(p)
  <2>1. mem' = mem /\ disk' = disk
    BY <1>9, Zenon DEF SkipCompaction, AwaitCompaction, AbortCycle, SkipPrompt, FailPrompt
  <2> QED
    BY <1>4, <2>1
<1> QED
  BY <1>6, <1>7, <1>8, <1>9

LEMMA FairStep == ASSUME IInv, PlaceInv, FairInv, [Next]_vars PROVE FairInv'
<1>1. CASE Plan
  BY <1>1, PlanFair
<1>2. CASE UNCHANGED vars \/ LoseFence \/ (\E p \in Packets : Session(p)) \/ \E r \in wire : Arrive(r)
  <2>1. UNCHANGED <<mem, disk, cycle, passed>>
    BY <1>2, Zenon DEF vars, LoseFence, Session, Work, EndTurn, StartCompaction, EndCompaction,
                       Native, Arrive
  <2>2. cycle' = None \/ cycle.at \in Nat
    BY <2>1 DEF IInv, CycleInv
  <2> QED
    BY <2>1, <2>2, SameInputsSame, FairFrame
<1>3. CASE StartPrompts
  <2>1. /\ cycle # None /\ UNCHANGED <<mem, disk, passed>>
        /\ cycle' = [cycle EXCEPT !.step = "prompt", !.todo = cycle.selected]
    BY <1>3, Zenon DEF StartPrompts
  <2>2. cycle.at \in Nat /\ cycle'.at = cycle.at /\ cycle'.selected = cycle.selected
    BY <2>1 DEF IInv, CycleInv
  <2> QED
    BY <2>1, <2>2, SameInputsSame, FairFrame
<1>4. CASE EndCycle \/ Crash
  <2>1. cycle' = None /\ passed' = passed /\ mem' \in {mem, disk} /\ disk' \in {mem, disk}
    BY <1>4, Zenon DEF EndCycle, Crash, Persist, PersistFails
  <2> QED
    BY <2>1, SameInputsSame, FairFrame
<1>5. ASSUME NEW p \in Packets, Refresh(p) PROVE FairInv'
  <2>1. PICK v \in Versions : mem' = [mem EXCEPT ![p].version = v, ![p].obs = v]
    BY <1>5, Zenon DEF Refresh
  <2>2. cycle' = None /\ passed' = passed /\ disk' = disk
    BY <1>5, Zenon DEF Refresh
  <2>3. mem \in [Packets -> PacketStates]
    BY Types
  <2>4. \A r \in Packets : SameInputs(mem[r], mem'[r])
    BY <2>1, <2>3 DEF SameInputs, PacketStates
  <2> QED
    BY <2>2, <2>4, FairFrame
<1>6. ASSUME NEW p \in Packets,
             \/ SkipCompaction(p) \/ AwaitCompaction(p) \/ AbortCycle(p)
             \/ SkipPrompt(p) \/ FailPrompt(p)
             \/ PrepareCompaction(p) \/ AskCompaction(p) \/ AttemptPrompt(p)
      PROVE  FairInv'
  BY <1>6, OtherFair
<1>7. ASSUME NEW p \in Packets, PreparePrompt(p) PROVE FairInv'
  BY <1>7, PreparePromptFair
<1>8. ASSUME NEW p \in Packets, PostPrompt(p) PROVE FairInv'
  BY <1>8, PostPromptFair
<1> QED
  BY <1>1, <1>2, <1>3, <1>4, <1>5, <1>6, <1>7, <1>8, Zenon DEF Next, Cycle, Environment

\* Only the first half of a cycle begins one.
LEMMA OnlyPlanBegins == ASSUME [Next]_vars, cycle = None, cycle' # None PROVE Plan
<1>1. ASSUME NEW p \in Packets
      PROVE  /\ ~SkipCompaction(p) /\ ~AwaitCompaction(p) /\ ~AbortCycle(p)
             /\ ~PrepareCompaction(p) /\ ~AskCompaction(p) /\ ~SkipPrompt(p)
             /\ ~PreparePrompt(p) /\ ~AttemptPrompt(p) /\ ~PostPrompt(p) /\ ~FailPrompt(p)
  BY Zenon DEF SkipCompaction, AwaitCompaction, AbortCycle, PrepareCompaction, AskCompaction,
               SkipPrompt, PreparePrompt, AttemptPrompt, PostPrompt, FailPrompt, Serving
<1>2. ~StartPrompts /\ ~EndCycle
  BY Zenon DEF StartPrompts, EndCycle
<1>3. ASSUME NEW p \in Packets PROVE ~Refresh(p) /\ ~Session(p)
  BY Zenon DEF Refresh, Session, Work, EndTurn, StartCompaction, EndCompaction, Native
<1>4. ASSUME NEW request \in wire PROVE ~Arrive(request)
  BY Zenon DEF Arrive
<1>5. ~Crash /\ ~LoseFence /\ ~UNCHANGED vars
  BY Zenon DEF Crash, LoseFence, vars
<1> QED
  BY <1>1, <1>2, <1>3, <1>4, <1>5, Zenon DEF Next, Cycle, Environment

\* select() orders first turns before later ones and the later ones by the instant of
\* the last delivery: an owner that waits comes before whoever was sent a new event past
\* it, and so gets the next place that is free on the host.
THEOREM NobodyPassedTwice == Spec => FairAdmission
<1>1. Spec => []PlaceInv
  BY InitPlaces, PlaceStep, Invariance, PTL DEF Spec
<1>2. Spec => []FairInv
  BY <1>1, InitFair, FairStep, Invariance, PTL DEF Spec
<1> DEFINE A == \A p, q \in Packets :
                   /\ cycle = None /\ cycle' # None
                   /\ <<p, q>> \in passed' /\ q \in Range(cycle'.selected)
                   => q \in Producers \cup Retained(mem')
<1>3. ASSUME IInv, FairInv, [Next]_vars PROVE A
  <2> SUFFICES ASSUME NEW p \in Packets, NEW q \in Packets, cycle = None, cycle' # None,
                      <<p, q>> \in passed', q \in Range(cycle'.selected),
                      q \notin Producers, q \notin Retained(mem')
               PROVE  FALSE
    OBVIOUS
  <2>1. Plan
    BY <1>3, OnlyPlanBegins
  <2> DEFINE next == [r \in Packets |-> Reconciled(r)]
             occupied == {r \in Packets : Occupied(native[r])}
  <2>2. /\ mem' = next /\ cycle'.selected = Selected(next, occupied) /\ cycle'.seen = native
        /\ passed' = {x \in passed : Waiting(x[1])'}
    <3>1. /\ mem' = next
          /\ cycle' = [step |-> "compact", todo |-> Manifest, compacting |-> {},
                       selected |-> Selected(next, occupied), seen |-> native, at |-> Now(next)]
          /\ passed' = {x \in passed : Waiting(x[1])'}
      BY <2>1, Zenon DEF Plan, Persist, PersistFails, Observation
    <3> QED
      BY <3>1
  <2>3. FairInv'
    BY <1>3, <2>1, PlanFair
  <2>4. /\ Dated(mem') /\ Overtaken(mem', p, q) /\ Host[p] = Host[q]
    <3>1. \A x \in passed' : Overtaken(mem', x[1], x[2]) /\ Host[x[1]] = Host[x[2]]
      BY <2>3 DEF FairInv, Overtaken, ServedBefore
    <3>2. Dated(mem')
      BY <2>3 DEF FairInv, Dated
    <3> QED
      BY <3>1, <3>2
  <2>5. NeedsWake(mem'[p]) /\ ~Occupied(native[p]) /\ p \notin Range(cycle'.selected)
    BY <2>2 DEF Waiting
  <2>6. next \in [Packets -> PacketStates]
    <3>1. IInv'
      BY <1>3, <2>1, PlanStep
    <3>2. mem' \in [Packets -> PacketStates]
      BY <3>1 DEF IInv, JournalInv, JournalOK
    <3> QED
      BY <2>2, <3>2
  <2> HIDE DEF next
  <2>7. next[q].pending = None
    BY <2>2 DEF Retained
  <2>8. Before(next, p, q)
    <3>1. next[q].delivered # None /\ ServedBefore(next, p, next[q].deliveredPreparedAt)
      BY <2>2, <2>4, <2>7 DEF Overtaken
    <3>2. Class(q, next[q]) = 4 /\ Age(q, next[q]) = next[q].deliveredPreparedAt
      BY <3>1 DEF Class, Age
    <3>3. CASE p \in Producers \/ next[p].delivered = None
      <4>1. Class(p, next[p]) \in {0, 2}
        BY <3>3 DEF Class
      <4>2. Class(p, next[p]) < Class(q, next[q])
        BY <3>2, <4>1
      <4> QED
        BY <2>2, <2>4, <2>6, <4>2, BeforeLex
    <3>4. CASE p \notin Producers /\ next[p].delivered # None
      <4>1. Class(p, next[p]) = 4 /\ Age(p, next[p]) = next[p].deliveredPreparedAt
        BY <3>4 DEF Class, Age
      <4>2. Age(p, next[p]) < Age(q, next[q])
        BY <3>1, <3>2, <3>4, <4>1 DEF ServedBefore
      <4> QED
        BY <2>2, <2>4, <2>6, <3>2, <4>1, <4>2, BeforeLex
    <3> QED
      BY <3>3, <3>4
  <2>9. occupied \in SUBSET Packets /\ p \notin occupied
    BY <2>5
  <2> HIDE DEF occupied
  <2>10. q \notin Range(Selected(next, occupied))
    BY <2>2, <2>4, <2>5, <2>6, <2>8, <2>9, SelectedInOrder
  <2> QED
    BY <2>2, <2>10
<1>4. A => [A]_vars
  OBVIOUS
<1> HIDE DEF A
<1>5. IInv /\ FairInv /\ [Next]_vars => [A]_vars
  BY <1>3, <1>4
<1>6. Spec => [][A]_vars
  BY <1>2, <1>5, Invariance, PTL DEF Spec
<1> QED
  BY <1>6 DEF FairAdmission, A

=============================================================================
