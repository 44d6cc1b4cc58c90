--------------------------- MODULE CampaignDriver ---------------------------
(***************************************************************************)
(* One writer's cycles over all packets (src/orchestration/driver.rs): a   *)
(* fenced observation, the reconciliation of pending inputs, the selection *)
(* within the hosts' capacity, compactions, and the admission of prompts,  *)
(* each journalled before it is sent.                                      *)
(*                                                                         *)
(* mem is the journal the process works on, disk the last one that reached *)
(* stable storage; a failed persist may have reached it.  The observation  *)
(* and everything up to the first persist happen under the native fence on *)
(* a private copy, so they are one action.  native is the session server,  *)
(* external to this repository: it knows an input by the id the client     *)
(* chose and takes it once, acts only while nobody else holds the fence,   *)
(* and may receive a request long after its sender gave up on it.          *)
(*                                                                         *)
(* Left out: sessions used by anybody else, mirrors (any activity there    *)
(* fails the observation), the 300,000 token ceiling (likewise), owners    *)
(* expedited or not yet on the current goal, and the idle recovery and     *)
(* recheck of CampaignAudit, which change the version as Refresh does.     *)
(***************************************************************************)
EXTENDS CampaignJournal, FiniteSets, SequencesExt

CONSTANTS
    Manifest,    \* the packets in manifest order, numbers in that order
    Host,        \* the owner host of each packet
    Capacity,    \* max_active_per_host
    Producers,   \* the packets the policy puts first
    Versions,    \* versions a refresh may compute
    Texts,       \* continuations the adapter may return
    FailingCompactions, \* a native compaction may fail
    MaxEvents,   \* bound: refreshes that change a version
    MaxFaults    \* bound: crashes, save errors, lost fences and bad requests

Packets == Range(Manifest)

ASSUME DriverAssumption ==
    /\ Manifest \in Seq(Nat)
    /\ \A i, k \in DOMAIN Manifest : Manifest[i] = Manifest[k] => i = k
    /\ \A p \in Packets : Capacity[Host[p]] \in Nat \ {0}
    /\ Producers \subseteq Packets
    /\ None \notin Versions
    /\ MaxEvents \in Nat /\ MaxFaults \in Nat

VARIABLES
    mem,     \* the journal of the process
    disk,    \* the journal that was persisted
    native,  \* the owner sessions
    wire,    \* requests that may still arrive
    fence,   \* "free", "held" by the cycle, or "lost" by it
    cycle,   \* the cycle in progress, None between cycles
    used,    \* events and faults so far
    sent,    \* every prompt body sent
    passed   \* <<p, q>>: a new event was sent to q while p waited, as it still does

vars == <<mem, disk, native, wire, fence, cycle, used, sent, passed>>

Phys == 0 .. MaxEvents + Cardinality(Packets)

NewJournal(v) ==
    [version |-> v, obs |-> v, progress |-> None, recovery |-> None, recheck |-> None,
     pending |-> None, generation |-> 0, terminal |-> FALSE,
     delivered |-> None, deliveredObs |-> None, deliveredProgress |-> None,
     deliveredPreparedAt |-> None, deliveredAttempt |-> None, compaction |-> None]

Init ==
    /\ mem \in [Packets -> {NewJournal(v) : v \in Versions}]
    /\ disk = mem
    /\ native \in [Packets -> [active : {FALSE}, inbox : {{}}, log : {{}}, high : BOOLEAN,
                               phys : {0}, compactions : {[c \in Phys |-> "none"]}]]
    /\ wire = {} /\ fence = "free" /\ cycle = None
    /\ used = [events |-> 0, faults |-> 0]
    /\ sent = {} /\ passed = {}

-----------------------------------------------------------------------------
\* The observation: every session as it is while the fence is held.
Observation == native

\* The last physical message, not reset since, holds 180,000 tokens or more.
High(s) == s.high

\* One session in it.
Compacting(s) == \E c \in Phys : s.compactions[c] = "running"
CompactQueued(s) == \E c \in Phys : s.compactions[c] = "inbox"

Occupied(s) == s.active \/ s.inbox # {} \/ CompactQueued(s) \/ Compacting(s)

\* Where the id of an input is found: the inbox, or a message of the transcript.
Receipts(s, id) == {b \in s.inbox \cup s.log : b.id = id}

\* Mutant: an attempt that was recorded counts as received.
ReconciledOnAttempt(p) ==
    IF mem[p].pending # None /\ mem[p].pending.attempt # None
    THEN Acknowledge(mem[p])
    ELSE mem[p]

Reconciled(p) ==
    IF mem[p].pending # None /\ Receipts(native[p], mem[p].pending.body.id) # {}
    THEN Acknowledge(mem[p])
    ELSE mem[p]

\* A receipt with another body is an error of the whole cycle.
ReceiptsMatch ==
    \A p \in Packets :
        mem[p].pending # None =>
            Receipts(native[p], mem[p].pending.body.id) \subseteq {mem[p].pending.body}

\* Mutant: first turns are not preferred, and nor are old ones.
ClassIgnored(p, ps) == IF p \in Producers THEN 0 ELSE 2

\* The classes of select for owners that are all on the current goal.
Class(p, ps) ==
    IF p \in Producers THEN 0 ELSE IF ps.delivered = None THEN 2 ELSE 4

\* Within the last class the oldest admission goes first.
Age(p, ps) == IF Class(p, ps) = 4 THEN ps.deliveredPreparedAt ELSE 0

Before(j, p, q) ==
    LET a == <<Class(p, j[p]), Age(p, j[p]), p>>
        b == <<Class(q, j[q]), Age(q, j[q]), q>>
    IN  \E i \in 1 .. 3 : a[i] < b[i] /\ \A k \in 1 .. i - 1 : a[k] = b[k]

Ordered(j) ==
    [i \in 1 .. Cardinality(Packets) |->
        CHOOSE p \in Packets : Cardinality({q \in Packets : Before(j, q, p)}) = i - 1]

OnHost(S, h) == {p \in S : Host[p] = h}

\* Mutant: the limit is compared after the owner was let in.
RoomInclusive(S, p) == Cardinality(OnHost(S, Host[p])) <= Capacity[Host[p]]

Room(S, p) == Cardinality(OnHost(S, Host[p])) < Capacity[Host[p]]

\* The positions of the wanted owners that get a place: there is room next to those
\* that have one and all wanted before.  Admitting one after the other comes to the
\* same, as an owner that is refused leaves its host full.
Served(order, wanted, reserved) ==
    {i \in DOMAIN order :
        LET earlier == {order[k] : k \in 1 .. i - 1}
        IN  /\ order[i] \in wanted \ (reserved \cup earlier)
            /\ Room(reserved \cup (wanted \cap earlier), order[i])}

\* Those at the positions I, in order.
InOrder(order, I) ==
    [n \in 1 .. Cardinality(I) |->
        order[CHOOSE i \in I : Cardinality({k \in I : k < i}) = n - 1]]

Admitted(order, wanted, reserved) == InOrder(order, Served(order, wanted, reserved))

\* Mutant: only fresh events are given a place.
NothingRetained(j) == {}

\* Retained inputs and compactions come before new events.
Retained(j) == {p \in Packets : j[p].pending # None \/ j[p].compaction # None}

Selected(j, occupied) ==
    LET retained == Admitted(Manifest, Retained(j), occupied)
        fresh == Admitted(Ordered(j), {p \in Packets : NeedsWake(j[p])},
                          occupied \cup Range(retained))
    IN  retained \o fresh

\* The instant of a cycle: later than every instant the journal kept.
Now(j) ==
    LET kept == UNION {{j[p].deliveredPreparedAt,
                        IF j[p].pending = None THEN None ELSE j[p].pending.preparedAt} : p \in Packets}
    IN  1 + Max({0} \cup (kept \ {None}))

-----------------------------------------------------------------------------
Fault == used.faults < MaxFaults /\ used' = [used EXCEPT !.faults = @ + 1]
NoFault == UNCHANGED used

\* Persisting writes the whole journal.
Persist(j) == NoFault /\ disk' = j
PersistFails(j) == Fault /\ disk' \in {disk, j}

\* The owner has an event and is free, and gets no place in this cycle.
Waiting(p) == NeedsWake(mem[p]) /\ ~Occupied(cycle.seen[p]) /\ p \notin Range(cycle.selected)

\* The first half of a cycle: observe, reconcile, select, persist.
Plan ==
    /\ cycle = None /\ fence = "free"
    /\ ReceiptsMatch
    /\ LET next == [p \in Packets |-> Reconciled(p)]
           occupied == {p \in Packets : Occupied(Observation[p])}
       IN  \/ /\ Persist(next)
              /\ mem' = next
              /\ fence' = "held"
              /\ cycle' = [step |-> "compact", todo |-> Manifest, compacting |-> {},
                           selected |-> Selected(next, occupied), seen |-> Observation,
                           at |-> Now(next)]
              /\ passed' = {pair \in passed : Waiting(pair[1])'}
           \/ /\ PersistFails(next)
              /\ UNCHANGED <<mem, fence, cycle, passed>>
    /\ UNCHANGED <<native, wire, sent>>

\* The cycle is at this step of this packet.
Serving(step, p) ==
    /\ cycle # None /\ cycle.step = step
    /\ cycle.todo # <<>> /\ p = Head(cycle.todo)

\* The cycle goes on with the next packet.
Done(step) == [cycle EXCEPT !.todo = Tail(@), !.step = step]

Blocked(p) == [Done("compact") EXCEPT !.compacting = @ \cup {p}]

\* The packet has to be compacted, or already is on its way to be.
Pressed(p) ==
    LET admitted == cycle.seen[p].active \/ p \in Range(cycle.selected)
        pending == mem[p].compaction
    IN  \/ /\ pending # None
           /\ admitted \/ cycle.seen[p].compactions[pending] = "inbox"
        \/ admitted /\ High(cycle.seen[p])

SkipCompaction(p) ==
    /\ Serving("compact", p) /\ ~Pressed(p)
    /\ cycle' = Done("compact")
    /\ UNCHANGED <<mem, disk, native, wire, fence, used, sent, passed>>

\* A compaction was seen in progress or in the inbox.
AwaitCompaction(p) ==
    /\ Serving("compact", p) /\ Pressed(p) /\ fence = "held"
    /\ LET s == cycle.seen[p]
           pending == mem[p].compaction
       IN  Compacting(s) \/ (IF pending = None THEN CompactQueued(s)
                             ELSE s.compactions[pending] = "inbox")
    /\ cycle' = Blocked(p)
    /\ UNCHANGED <<mem, disk, native, wire, fence, used, sent, passed>>

PrepareCompaction(p) ==
    /\ Serving("compact", p) /\ Pressed(p) /\ fence = "held"
    /\ mem[p].compaction = None
    /\ ~Compacting(cycle.seen[p]) /\ ~CompactQueued(cycle.seen[p])
    /\ mem' = [mem EXCEPT ![p].compaction = cycle.seen[p].phys]
    /\ \/ Persist(mem') /\ cycle' = cycle
       \/ PersistFails(mem') /\ cycle' = Blocked(p)
    /\ UNCHANGED <<native, wire, fence, sent, passed>>

\* A request arrives now, or is lost, or is given up and may still arrive.
Send(request, arrived) ==
    \/ native' = arrived /\ NoFault /\ UNCHANGED wire
    \/ Fault /\ wire' \in {wire, wire \cup {request}} /\ UNCHANGED native

\* The server knows every id it took.
Take(p, body) ==
    IF Receipts(native[p], body.id) # {} THEN native
    ELSE [native EXCEPT ![p].inbox = @ \cup {body}]

TakeCompaction(p, c) ==
    IF native[p].compactions[c] # "none" THEN native
    ELSE [native EXCEPT ![p].compactions[c] = "inbox"]

\* The pending compaction is not in the inbox that was seen: its message decides.
AskCompaction(p) ==
    /\ Serving("compact", p) /\ Pressed(p) /\ fence = "held"
    /\ mem[p].compaction # None
    /\ ~Compacting(cycle.seen[p])
    /\ cycle.seen[p].compactions[mem[p].compaction] # "inbox"
    /\ LET c == mem[p].compaction
           status == native[p].compactions[c]
       IN  \/ /\ status \in {"running", "failed"}
              /\ cycle' = Blocked(p)
              /\ UNCHANGED <<mem, disk, native, wire, used>>
           \/ /\ status = "completed"
              /\ mem' = [mem EXCEPT ![p].compaction = None]
              /\ \/ /\ Persist(mem')
                    /\ cycle' = IF c # cycle.seen[p].phys /\ cycle.seen[p].high
                                THEN Blocked(p) ELSE Done("compact")
                 \/ PersistFails(mem') /\ cycle' = Blocked(p)
              /\ UNCHANGED <<native, wire>>
           \/ /\ status \in {"none", "inbox"}
              /\ Send([to |-> p, body |-> None, compaction |-> c], TakeCompaction(p, c))
              /\ cycle' = Blocked(p)
              /\ UNCHANGED <<mem, disk>>
    /\ UNCHANGED <<fence, sent, passed>>

\* A lost fence ends the cycle before the next compaction.
AbortCycle(p) ==
    /\ Serving("compact", p) /\ Pressed(p) /\ fence = "lost"
    /\ cycle' = None /\ fence' = "free"
    /\ UNCHANGED <<mem, disk, native, wire, used, sent, passed>>

StartPrompts ==
    /\ cycle # None /\ cycle.step = "compact" /\ cycle.todo = <<>>
    /\ cycle' = [cycle EXCEPT !.step = "prompt", !.todo = cycle.selected]
    /\ UNCHANGED <<mem, disk, native, wire, fence, used, sent, passed>>

-----------------------------------------------------------------------------
Idle(p) == mem[p].pending = None /\ ~NeedsWake(mem[p])

SkipPrompt(p) ==
    /\ Serving("prompt", p)
    /\ p \in cycle.compacting \/ Idle(p)
    /\ cycle' = Done("prompt")
    /\ UNCHANGED <<mem, disk, native, wire, fence, used, sent, passed>>

\* The exact input is fixed, or the retained one kept, and persisted.
PreparePrompt(p) ==
    /\ Serving("prompt", p) /\ fence = "held"
    /\ p \notin cycle.compacting /\ ~Idle(p)
    /\ \E text \in Texts :
          mem' = [mem EXCEPT ![p] = Prepare(p, @, text, cycle.at)]
    /\ \/ Persist(mem') /\ cycle' = [cycle EXCEPT !.step = "attempt"]
       \/ PersistFails(mem') /\ cycle' = Done("prompt")
    /\ UNCHANGED <<native, wire, fence, sent, passed>>

\* Mutant: the attempt is only remembered.
AttemptUnsaved(p) ==
    /\ Serving("attempt", p)
    /\ mem' = [mem EXCEPT ![p].pending.attempt = cycle.at]
    /\ cycle' = [cycle EXCEPT !.step = "post"]
    /\ UNCHANGED <<disk, native, wire, fence, used, sent, passed>>

\* The attempt is bound to the pending input and persisted.
AttemptPrompt(p) ==
    /\ Serving("attempt", p)
    /\ mem' = [mem EXCEPT ![p].pending.attempt = cycle.at]
    /\ \/ Persist(mem') /\ cycle' = [cycle EXCEPT !.step = "post"]
       \/ PersistFails(mem') /\ cycle' = Done("prompt")
    /\ UNCHANGED <<native, wire, fence, sent, passed>>

\* The input was fixed in this cycle and not kept from an earlier one.
FixedNow(p) == mem[p].pending.preparedAt = cycle.at

PostPrompt(p) ==
    /\ Serving("post", p) /\ fence = "held"
    /\ LET body == mem[p].pending.body
       IN  /\ Send([to |-> p, body |-> body, compaction |-> None], Take(p, body))
           /\ sent' = sent \cup {body}
           /\ passed' = passed \cup
                  {<<q, p>> : q \in {q \in OnHost(Packets, Host[p]) : FixedNow(p) /\ Waiting(q)}}
    /\ cycle' = Done("prompt")
    /\ UNCHANGED <<mem, disk, fence>>

\* No continuation, another identity, a lost fence: the owner's error is
\* reported and the next one is served.
FailPrompt(p) ==
    /\ Serving("prompt", p) \/ Serving("attempt", p) \/ Serving("post", p)
    /\ p \notin cycle.compacting /\ ~Idle(p)
    /\ IF fence = "lost" /\ ~Serving("attempt", p) THEN NoFault ELSE Fault
    /\ cycle' = Done("prompt")
    /\ UNCHANGED <<mem, disk, native, wire, fence, sent, passed>>

EndCycle ==
    /\ cycle # None /\ cycle.step = "prompt" /\ cycle.todo = <<>>
    /\ Persist(mem) \/ PersistFails(mem)
    /\ cycle' = None /\ fence' = "free"
    /\ UNCHANGED <<mem, native, wire, sent, passed>>

-----------------------------------------------------------------------------
\* Between cycles the caller refreshes the journal; a version may come back.
Refresh(p) ==
    /\ cycle = None
    /\ used.events < MaxEvents
    /\ used' = [used EXCEPT !.events = @ + 1]
    /\ \E v \in Versions \ {mem[p].version} :
          mem' = [mem EXCEPT ![p].version = v, ![p].obs = v]
    /\ UNCHANGED <<disk, native, wire, fence, cycle, sent, passed>>

Crash ==
    /\ Fault
    /\ mem' = disk /\ cycle' = None /\ fence' = "free"
    /\ UNCHANGED <<disk, native, wire, sent, passed>>

LoseFence ==
    /\ fence = "held" /\ Fault
    /\ fence' = "lost"
    /\ UNCHANGED <<mem, disk, native, wire, cycle, sent, passed>>

\* A request that was given up arrives.
Arrive(request) ==
    /\ wire' = wire \ {request}
    /\ native' = IF request.body # None THEN Take(request.to, request.body)
                 ELSE TakeCompaction(request.to, request.compaction)
    /\ UNCHANGED <<mem, disk, fence, cycle, used, sent, passed>>

Native(p, s) ==
    /\ fence # "held"
    /\ native' = [native EXCEPT ![p] = s]
    /\ UNCHANGED <<mem, disk, wire, fence, cycle, sent, passed>>

\* The session takes its input and works on it.
Work(p) ==
    /\ native[p].inbox # {} /\ ~Compacting(native[p])
    /\ NoFault
    /\ Native(p, [native[p] EXCEPT !.active = TRUE, !.inbox = {},
                                   !.log = @ \cup native[p].inbox])

EndTurn(p) ==
    /\ native[p].active
    /\ NoFault
    /\ \E high \in BOOLEAN :
          Native(p, [native[p] EXCEPT !.active = FALSE, !.phys = @ + 1, !.high = high])

StartCompaction(p) ==
    /\ ~native[p].active /\ ~Compacting(native[p])
    /\ NoFault
    /\ \E c \in Phys :
          /\ native[p].compactions[c] = "inbox"
          /\ Native(p, [native[p] EXCEPT !.compactions[c] = "running"])

EndCompaction(p) ==
    \E c \in Phys :
        /\ native[p].compactions[c] = "running"
        /\ \/ /\ NoFault
              /\ Native(p, [native[p] EXCEPT !.compactions[c] = "completed", !.high = FALSE])
           \/ /\ FailingCompactions /\ Fault
              /\ Native(p, [native[p] EXCEPT !.compactions[c] = "failed"])

Cycle ==
    \/ Plan \/ StartPrompts \/ EndCycle
    \/ \E p \in Packets :
          \/ SkipCompaction(p) \/ AwaitCompaction(p) \/ PrepareCompaction(p)
          \/ AskCompaction(p) \/ AbortCycle(p)
          \/ SkipPrompt(p) \/ PreparePrompt(p) \/ AttemptPrompt(p) \/ PostPrompt(p)
          \/ FailPrompt(p)

Session(p) == Work(p) \/ EndTurn(p) \/ StartCompaction(p) \/ EndCompaction(p)

Environment ==
    \/ \E p \in Packets : Refresh(p) \/ Session(p)
    \/ \E request \in wire : Arrive(request)
    \/ Crash \/ LoseFence

Next == Cycle \/ Environment

Spec == Init /\ [][Next]_vars

-----------------------------------------------------------------------------
\* The values of the journals, sessions and requests; instants are numbers.
Bodies == [id : [session : Packets, version : Versions, generation : Nat], text : Texts]

PendingInputs ==
    [body : Bodies, version : Versions, obs : Versions, progress : {None},
     preparedAt : Nat, attempt : Nat \cup {None}]

\* An optional field that is present is not the absent one.
ASSUME NoneAssumption == None \notin Nat /\ None \notin Bodies /\ None \notin PendingInputs

PacketStates ==
    [version : Versions, obs : Versions, progress : {None}, recovery : {None},
     recheck : {None}, pending : PendingInputs \cup {None}, generation : Nat,
     terminal : {FALSE}, delivered : Versions \cup {None},
     deliveredObs : Versions \cup {None}, deliveredProgress : {None},
     deliveredPreparedAt : Nat \cup {None}, deliveredAttempt : Nat \cup {None},
     compaction : Nat \cup {None}]

Sessions ==
    [active : BOOLEAN, inbox : SUBSET Bodies, log : SUBSET Bodies, high : BOOLEAN,
     phys : Nat,
     compactions : [Phys -> {"none", "inbox", "running", "completed", "failed"}]]

Requests == [to : Packets, body : Bodies \cup {None}, compaction : Nat \cup {None}]

Inputs(p) == native[p].inbox \cup native[p].log
Pending(j) == {j[p].pending : p \in Packets} \ {None}

\* An identity that was sent, or is retained, never names another body: no
\* sequence of crashes, failed saves and retries prepares it again with other
\* text.
NoIdRebinding ==
    LET bodies == sent \cup {i.body : i \in Pending(mem) \cup Pending(disk)}
    IN  \A a \in sent, c \in bodies : a.id = c.id => a = c

\* What was sent can be reconciled after any crash: the stable journal holds the
\* input with its attempt until it is acknowledged.
SentIsJournalled ==
    \A body \in sent :
        LET ps == disk[body.id.session]
        IN  /\ body.id.generation <= ps.generation
            /\ ps.pending # None /\ ps.pending.body.id = body.id => ps.pending.attempt # None

\* Every input the stable journal does not hold as pending has really arrived:
\* an ambiguous submission is never taken for a delivery.
NothingLost ==
    \A p \in Packets :
        LET open == IF disk[p].pending = None THEN {} ELSE {disk[p].pending.body.id.generation}
        IN  (1 .. disk[p].generation) \ open \subseteq {b.id.generation : b \in Inputs(p)}

\* The sessions at work on a host, with queued inputs and compactions, never
\* exceed its limit, late requests included.
HostCapacity ==
    \A p \in Packets :
        Cardinality(OnHost({q \in Packets : Occupied(native[q])}, Host[p])) <= Capacity[Host[p]]

\* An owner that waits is passed over once: while it does, an owner of its host
\* that was sent a new event gets no place for another one, unless it is a
\* producer.  The place of a retained input or compaction is not a new one.
FairAdmission ==
    [][\A p, q \in Packets :
          /\ cycle = None /\ cycle' # None
          /\ <<p, q>> \in passed' /\ q \in Range(cycle'.selected)
          => q \in Producers \cup Retained(mem')]_vars

\* The process runs cycle after cycle; between cycles, which are minutes apart,
\* the fence is free and the sessions get on with their work.
Fairness == WF_vars(Cycle) /\ \A p \in Packets : SF_vars(Session(p))
FairSpec == Spec /\ Fairness

\* A compaction that failed keeps its receipt, and so its place on the host, until
\* a person recovers it.
HeldByFailure(h) ==
    \E p \in Packets :
        /\ Host[p] = h /\ mem[p].compaction # None
        /\ native[p].compactions[mem[p].compaction] = "failed"

\* Every event is delivered in the end, or replaced by one that was, unless a
\* compaction that failed holds a place of the owner's host.
EventuallyDelivered ==
    \A p \in Packets :
        []<>(\/ mem[p].version = mem[p].delivered /\ mem[p].pending = None
            \/ HeldByFailure(Host[p]))
=============================================================================
