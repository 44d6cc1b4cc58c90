------------------------ MODULE DirectNetwork_proofs ------------------------
(***************************************************************************)
(* Proofs about DirectNetwork, for any uplinks, workloads and bounds.      *)
(*                                                                         *)
(* A switch touches the table it fills and the rules of one family.  The   *)
(* inductive invariant says at which of its steps that table has no rule   *)
(* (it may be emptied and filled), at which its fallback is in place (it   *)
(* may be given rules), and which rule keeps the exception in force while  *)
(* others are deleted.  A second one says what the daemon remembers of the *)
(* slices and the resolver when it answers those who asked.                *)
(***************************************************************************)
EXTENDS DirectNetwork, TLAPS

Entries == Uplinks \cup {None, "odd", "foreign", "fallback"}

\* Control states by what they rely on.
Emptied == {"clear", "flush", "route", "fallback", "direct"}
Switched == {"local", "old"}
Switching == {"choose", "stale"} \cup Emptied \cup Switched

TypesD ==
    /\ DOMAIN d = {"pc", "fam", "table", "old", "plan", "cgroups", "present", "seen", "batch", "ok"}
    /\ d.plan \in Uplinks \cup {None}
    /\ d.old \subseteq Tables
    /\ d.pc \in Switching => d.fam \in Families
    /\ d.pc \in Switching \ {"choose"} => d.table \in Tables

TypesK ==
    /\ table \in [Families -> [Tables -> SUBSET Entries]]
    /\ direct \in [Families -> SUBSET Tables]
    /\ local \in [Families -> SUBSET Tables]
    /\ oldest \in [Families -> Tables \cup {None}]
    /\ uplink \in Uplinks \cup {None, "odd"}

Types == TypesD /\ TypesK

\* The oldest rule of a family is one of its rules.
OldestLive == \A f \in Families : direct[f] # {} => oldest[f] \in direct[f]

\* What the switch relies on at each of its steps.
Control ==
    /\ d.pc = "stale" /\ direct[d.fam] # {} => d.table # oldest[d.fam]
    /\ d.pc \in Emptied => d.table \notin direct[d.fam] \cup local[d.fam]
    /\ d.pc \in {"direct"} \cup Switched => "fallback" \in table[d.fam][d.table]
    /\ d.pc \in Switched => d.table \in direct[d.fam] /\ d.table \notin d.old

IInv == Types /\ OldestLive /\ Control /\ LiveTablesComplete /\ OthersKept

-----------------------------------------------------------------------------
\* Of two tables, the other one is the only other one.
LEMMA OtherTable ==
    \A t \in Tables : /\ Other(t) \in Tables /\ Other(t) # t
                      /\ \A u \in Tables : u = t \/ u = Other(t)
BY NetworkAssumption, SMT DEF Other

\* Names of routes are kept apart.
LEMMA Apart ==
    /\ "foreign" \notin Uplinks \cup {None, "odd"}
    /\ "fallback" \notin Uplinks \cup {None, "odd"}
    /\ "odd" \notin Uplinks \cup {None}
BY NetworkAssumption, SMT

\* Nothing is in force, and nothing is filled, at first.
LEMMA InitInv == Init => IInv
<1> SUFFICES ASSUME Init PROVE IInv OBVIOUS
<1>1. TypesD BY SMT DEF Init, Down, TypesD, Switching, Emptied, Switched
<1>2. TypesK BY SMT DEF Init, TypesK, Families, Entries
<1>3. OldestLive BY SMT DEF Init, OldestLive
<1>4. Control BY SMT DEF Init, Down, Control, Emptied, Switched
<1>5. LiveTablesComplete BY SMT DEF Init, LiveTablesComplete
<1>6. OthersKept BY SMT DEF Init, OthersKept, Families
<1> QED BY <1>1, <1>2, <1>3, <1>4, <1>5, <1>6 DEF IInv, Types

-----------------------------------------------------------------------------
\* What a step outside a switch does to the daemon's state.
QuietD ==
    /\ DOMAIN d' = DOMAIN d
    /\ d'.pc \notin Switching \ {"choose"}
    /\ d'.pc = "choose" => d'.fam \in Families
    /\ d'.plan \in Uplinks \cup {None}
    /\ d'.old \subseteq Tables

\* Steps that leave the kernel and the foreign routes alone.
Quiet ==
    /\ UNCHANGED <<kernel, foreign>>
    /\ uplink' = uplink
    /\ \/ UNCHANGED <<d.pc, d.fam, d.table, d.old, d.plan, DOMAIN d>>
       \/ QuietD

\* A quiet step preserves the invariant.
LEMMA QuietInv == ASSUME IInv, Quiet PROVE IInv'
<1>1. TypesD'
  BY SMT DEF IInv, Types, TypesD, Quiet, QuietD, Switching
<1>2. TypesK' BY SMT DEF IInv, Types, TypesK, Quiet, kernel
<1>3. OldestLive' BY SMT DEF IInv, OldestLive, Quiet, kernel
<1>4. Control' BY SMT DEF IInv, Control, Quiet, QuietD, kernel, Switching, Emptied, Switched
<1>5. LiveTablesComplete' BY SMT DEF IInv, LiveTablesComplete, Quiet, kernel
<1>6. OthersKept'
  <2>1. table' = table /\ foreign' = foreign BY SMT DEF Quiet, kernel
  <2> QED BY <2>1 DEF IInv, OthersKept
<1> QED BY <1>1, <1>2, <1>3, <1>4, <1>5, <1>6 DEF IInv, Types

\* It goes on to another such step, or to the answer.
LEMMA Onward ==
    ASSUME IInv, NEW pc, pc \notin Switching, d' = [d EXCEPT !.pc = pc]
    PROVE  QuietD
BY SMT DEF IInv, Types, TypesD, QuietD, Switching

LEMMA Answered ==
    ASSUME IInv, NEW ok, d' = [d EXCEPT !.pc = "answer", !.ok = ok]
    PROVE  QuietD
BY SMT DEF IInv, Types, TypesD, QuietD, Switching, Emptied, Switched

LEMMA Planned ==
    ASSUME IInv, uplink # "odd",
           NEW pc \in {"choose", "cgroups"},
           d' = [d EXCEPT !.plan = uplink, !.fam = "v4", !.pc = pc]
    PROVE  QuietD
BY SMT DEF IInv, Types, TypesD, TypesK, QuietD, Switching, Emptied, Switched, Families

LEMMA Seen ==
    ASSUME IInv, NEW seen, d' = [d EXCEPT !.seen = seen, !.pc = "hup"]
    PROVE  QuietD
BY SMT DEF IInv, Types, TypesD, QuietD, Switching, Emptied, Switched

\* A daemon that is down, or was just started or served everyone, keeps nothing.
LEMMA Forgotten ==
    ASSUME IInv, NEW pc, pc \notin Switching, d' = [Down EXCEPT !.pc = pc]
    PROVE  QuietD
<1>1. DOMAIN d' = DOMAIN d BY SMT DEF IInv, Types, TypesD, Down
<1>2. d'.pc = pc /\ d'.plan = None /\ d'.old = {} BY SMT DEF Down
<1> QED BY <1>1, <1>2, SMT DEF QuietD, Switching

\* The daemon's steps outside a switch, and everything around the daemon that is
\* not a route, are quiet.
LEMMA QuietSteps ==
    ASSUME IInv,
           \/ Accept \/ Plan \/ ReadCgroups \/ Enroll \/ WriteServers \/ Observe
           \/ Signal \/ Confirm \/ Answer \/ CommandFails \/ StartDaemon \/ DaemonCrash
           \/ ResolverStart \/ ResolverListens \/ Reload \/ ResolverDies \/ NftFlushed
           \/ \E c \in Clients : ClientStart(c) \/ Ask(c) \/ GiveUp(c) \/ ClientStop(c)
    PROVE  Quiet
<1> DEFINE Same == UNCHANGED <<table, direct, oldest, local, foreign, uplink>>
<1>0. ASSUME QuietD, Same PROVE Quiet BY <1>0, SMT DEF QuietD, Quiet, kernel
<1>1. CASE Accept
  <2>1. Same BY <1>1 DEF Accept, kernel, others
  <2>2. QuietD
    BY <1>1, SMT DEF Accept, IInv, Types, TypesD, Switching, Emptied, Switched, QuietD
  <2> QED BY <2>1, <2>2, <1>0
<1>2. CASE Plan
  <2>1. Same BY <1>2 DEF Plan, kernel, others
  <2>2. CASE Answerable(FALSE) BY <2>1, <2>2, <1>0, Answered DEF Answerable
  <2>3. CASE /\ uplink # "odd"
             /\ \E pc \in {"choose", "cgroups"} :
                   d' = [d EXCEPT !.plan = uplink, !.fam = "v4", !.pc = pc]
    BY <2>1, <2>3, <1>0, Planned
  <2>4. Answerable(FALSE) \/ uplink # "odd" BY <1>2 DEF Plan, Refused, Fails
  <2>5. Answerable(FALSE) \/ \E pc \in {"choose", "cgroups"} :
                                d' = [d EXCEPT !.plan = uplink, !.fam = "v4", !.pc = pc]
    BY <1>2 DEF Plan, Selected, Fails
  <2> QED BY <2>2, <2>3, <2>4, <2>5
<1>3. CASE ReadCgroups
  <2>1. Same BY <1>3 DEF ReadCgroups, kernel, others
  <2>2. QuietD
    BY <1>3, SMT DEF ReadCgroups, IInv, Types, TypesD, Switching, Emptied, Switched, QuietD
  <2> QED BY <2>1, <2>2, <1>0
<1>4. CASE Enroll
  <2>1. Same BY <1>4 DEF Enroll, kernel, others
  <2>2. To("servers") \/ Answerable(FALSE) BY <1>4 DEF Enroll, Fails
  <2>3. "servers" \notin Switching BY DEF Switching, Emptied, Switched
  <2> QED BY <2>1, <2>2, <2>3, <1>0, Onward, Answered DEF To, Answerable
<1>5. CASE WriteServers
  <2>1. Same BY <1>5 DEF WriteServers, kernel, others
  <2>2. "observe" \notin Switching BY DEF Switching, Emptied, Switched
  <2> QED BY <1>5, <2>1, <2>2, <1>0, Onward DEF To, WriteServers
<1>6. CASE Observe
  <2>1. Same BY <1>6 DEF Observe, kernel, others
  <2>2. Answerable(TRUE) \/ d' = [d EXCEPT !.seen = Observed, !.pc = "hup"]
    BY <1>6 DEF Observe
  <2> QED BY <2>1, <2>2, <1>0, Answered, Seen DEF Answerable
<1>7. CASE Signal
  <2>1. Same BY <1>7 DEF Signal, kernel
  <2>2. To("confirm") \/ Answerable(FALSE) BY <1>7 DEF Signal, Fails
  <2>3. "confirm" \notin Switching BY DEF Switching, Emptied, Switched
  <2> QED BY <2>1, <2>2, <2>3, <1>0, Onward, Answered DEF To, Answerable
<1>8. CASE Confirm
  <2>1. Same BY <1>8 DEF Confirm, kernel, others
  <2>2. Answerable(TRUE) \/ Answerable(FALSE) BY <1>8 DEF Confirm, Fails
  <2> QED BY <2>1, <2>2, <1>0, Answered DEF Answerable
<1>9. CASE CommandFails
  <2>1. Same BY <1>9 DEF CommandFails, kernel, others
  <2> QED BY <1>9, <2>1, <1>0, Answered DEF CommandFails, Fails, Answerable
<1>10. CASE Answer \/ StartDaemon \/ DaemonCrash
  <2>1. Same BY <1>10 DEF Answer, StartDaemon, DaemonCrash, kernel, others
  <2>2. d' = [Down EXCEPT !.pc = "serve"] \/ d' = Down
    BY <1>10 DEF Answer, StartDaemon, DaemonCrash
  <2>3. "serve" \notin Switching BY DEF Switching, Emptied, Switched
  <2>4. CASE d' = Down
    <3>1. DOMAIN d' = DOMAIN d BY <2>4, SMT DEF IInv, Types, TypesD, Down
    <3>2. d'.pc = "down" /\ d'.plan = None /\ d'.old = {} BY <2>4, SMT DEF Down
    <3>3. QuietD BY <3>1, <3>2, SMT DEF QuietD, Switching, Emptied, Switched
    <3> QED BY <2>1, <3>3, <1>0
  <2> QED BY <2>1, <2>2, <2>3, <2>4, <1>0, Forgotten
<1>11. CASE ResolverStart \/ ResolverListens \/ Reload \/ ResolverDies \/ NftFlushed
  BY <1>11 DEF ResolverStart, ResolverListens, Reload, ResolverDies, NftFlushed, Quiet,
               kernel, others
<1>12. ASSUME NEW c \in Clients, ClientStart(c) \/ Ask(c) \/ ClientStop(c) PROVE Quiet
  BY <1>12 DEF ClientStart, Ask, ClientStop, Quiet, kernel
<1>13. ASSUME NEW c \in Clients, GiveUp(c) PROVE Quiet
  BY <1>13, SMT DEF GiveUp, IInv, Types, TypesD, Quiet, kernel
<1> QED BY <1>1, <1>2, <1>3, <1>4, <1>5, <1>6, <1>7, <1>8, <1>9, <1>10, <1>11, <1>12,
           <1>13

-----------------------------------------------------------------------------
\* What no step may do: take the exception of a family out of force.
Protected == \A f \in Families : direct[f] # {} => direct[f]' # {}

\* A quiet step changes no rule.
LEMMA QuietProtected == ASSUME Quiet PROVE Protected
BY DEF Quiet, kernel, Protected

\* A step that only answers is quiet.
LEMMA FailsQuiet ==
    ASSUME IInv, Answerable(FALSE), UNCHANGED <<table, direct, oldest, local, foreign, uplink>>
    PROVE  IInv' /\ Protected
<1>1. QuietD BY Answered DEF Answerable
<1>2. Quiet BY <1>1 DEF Quiet, kernel
<1> QED BY <1>2, QuietInv, QuietProtected

\* The daemon goes on and keeps what it works with.
LEMMA Moves ==
    ASSUME IInv, NEW pc, d' = [d EXCEPT !.pc = pc]
    PROVE  /\ DOMAIN d' = DOMAIN d /\ d'.pc = pc
           /\ d'.fam = d.fam /\ d'.table = d.table /\ d'.old = d.old /\ d'.plan = d.plan
BY SMT DEF IInv, Types, TypesD

\* The types of a switch that goes on.
LEMMA MovesTypes ==
    ASSUME IInv, d.pc \in Switching \ {"choose"}, NEW pc, d' = [d EXCEPT !.pc = pc]
    PROVE  TypesD'
<1>1. /\ DOMAIN d' = DOMAIN d /\ d'.pc = pc
      /\ d'.fam = d.fam /\ d'.table = d.table /\ d'.old = d.old /\ d'.plan = d.plan
  BY Moves
<1> QED BY <1>1, SMT DEF IInv, Types, TypesD, Switching

\* The table that is not in force is taken, unless the namespace is taken.
LEMMA ChooseInv == ASSUME IInv, Choose PROVE IInv' /\ Protected
<1>1. CASE Answerable(FALSE) BY <1>1, FailsQuiet DEF Choose, kernel, others
<1>2. CASE d' = [d EXCEPT !.table = Inactive(d.fam), !.pc = "stale"]
  <2>1. UNCHANGED <<table, direct, oldest, local, foreign, uplink>> /\ d.pc = "choose"
    BY DEF Choose, kernel, others
  <2>2. d.fam \in Families BY <2>1, SMT DEF IInv, Types, TypesD, Switching
  <2>3. Live(d.fam) => /\ oldest[d.fam] \in Tables
                       /\ Inactive(d.fam) = Other(oldest[d.fam])
    BY <2>2, SMT DEF IInv, Types, TypesK, OldestLive, Live, Inactive
  <2>4. Inactive(d.fam) \in Tables
    <3>1. CASE Live(d.fam) BY <3>1, <2>3, OtherTable
    <3>2. CASE ~Live(d.fam) BY <3>2, NetworkAssumption DEF Inactive
    <3> QED BY <3>1, <3>2
  <2>5. Live(d.fam) => Inactive(d.fam) # oldest[d.fam] BY <2>3, OtherTable
  <2>6. /\ DOMAIN d' = DOMAIN d /\ d'.pc = "stale" /\ d'.fam = d.fam
        /\ d'.table = Inactive(d.fam) /\ d'.old = d.old /\ d'.plan = d.plan
    BY <1>2, SMT DEF IInv, Types, TypesD
  <2>7. TypesD' BY <2>2, <2>4, <2>6, SMT DEF IInv, Types, TypesD
  <2>8. TypesK' /\ OldestLive' /\ LiveTablesComplete' /\ OthersKept'
    BY <2>1 DEF IInv, Types, TypesK, OldestLive, LiveTablesComplete, OthersKept
  <2>9. Control' BY <2>1, <2>5, <2>6, SMT DEF Control, Live, Emptied, Switched
  <2> QED BY <2>1, <2>7, <2>8, <2>9 DEF IInv, Types, Protected
<1> QED BY <1>1, <1>2 DEF Choose, Fails

-----------------------------------------------------------------------------
\* A rule goes while another one is in force, or none was: what is left is live,
\* complete, and led by its oldest rule.
LEMMA Deleted ==
    ASSUME IInv, NEW f \in Families, NEW t \in Tables, DeleteRule(f, t),
           direct[f] \ {t} # {} \/ direct[f] = {},
           UNCHANGED <<table, foreign, uplink>>
    PROVE  /\ TypesK' /\ OldestLive' /\ LiveTablesComplete' /\ OthersKept' /\ Protected
           /\ direct'[f] \in SUBSET direct[f] /\ direct[f] \ {t} \subseteq direct'[f]
           /\ local'[f] \in SUBSET local[f]
           /\ oldest[f] # t /\ direct'[f] # {} => oldest'[f] = oldest[f]
<1> USE DEF IInv, Types
<1>1. OthersKept' BY DEF OthersKept
<1>2. CASE t \in local[f]
  <2>1. local' = [local EXCEPT ![f] = @ \ {t}] /\ direct' = direct /\ oldest' = oldest
    BY <1>2 DEF DeleteRule
  <2>2. TypesK' BY <2>1, SMT DEF TypesK
  <2>3. OldestLive' /\ Protected BY <2>1 DEF OldestLive, Protected
  <2>4. LiveTablesComplete' BY <2>1, SMT DEF TypesK, LiveTablesComplete
  <2> QED BY <1>1, <2>1, <2>2, <2>3, <2>4, SMT DEF TypesK
<1>3. CASE t \notin local[f]
  <2>1. /\ direct' = [direct EXCEPT ![f] = @ \ {t}] /\ local' = local
        /\ oldest' = [oldest EXCEPT ![f] = IF direct[f] \ {t} = {} THEN None
                                           ELSE IF @ = t THEN Other(t) ELSE @]
    BY <1>3 DEF DeleteRule
  <2>2. Other(t) \in Tables /\ \A u \in Tables : u = t \/ u = Other(t) BY OtherTable
  <2>3. TypesK' BY <2>1, <2>2, SMT DEF TypesK
  <2>4. direct'[f] = direct[f] \ {t} BY <2>1, SMT DEF TypesK
  <2>5. Protected BY <2>1, <2>4, SMT DEF TypesK, Protected
  <2>6. OldestLive'
    <3> SUFFICES ASSUME NEW g \in Families, direct'[g] # {} PROVE oldest'[g] \in direct'[g]
      BY DEF OldestLive
    <3>1. CASE g # f BY <3>1, <2>1, SMT DEF TypesK, OldestLive
    <3>2. CASE g = f /\ oldest[f] = t
      <4>1. oldest'[f] = Other(t) BY <3>2, <2>1, <2>4, SMT DEF TypesK
      <4>2. Other(t) \in direct[f] \ {t} BY <3>2, <2>2, <2>4, SMT DEF TypesK
      <4> QED BY <3>2, <4>1, <4>2, <2>4
    <3>3. CASE g = f /\ oldest[f] # t
      <4>1. oldest'[f] = oldest[f] BY <3>3, <2>1, <2>4, SMT DEF TypesK
      <4>2. oldest[f] \in direct[f] BY <3>3, <2>4, SMT DEF OldestLive
      <4> QED BY <3>3, <4>1, <4>2, <2>4
    <3> QED BY <3>1, <3>2, <3>3
  <2>7. LiveTablesComplete' BY <2>1, SMT DEF TypesK, LiveTablesComplete
  <2>8. oldest[f] # t /\ direct'[f] # {} => oldest'[f] = oldest[f]
    BY <2>1, <2>4, SMT DEF TypesK
  <2> QED BY <1>1, <2>1, <2>3, <2>4, <2>5, <2>6, <2>7, <2>8
<1> QED BY <1>2, <1>3

\* A rule that was left on the table to be filled is never the oldest.
LEMMA DeleteStaleInv == ASSUME IInv, DeleteStale PROVE IInv' /\ Protected
<1>1. /\ d.pc = "stale" /\ UNCHANGED <<table, foreign, uplink>>
      /\ d.fam \in Families /\ d.table \in Tables
  BY SMT DEF DeleteStale, others, IInv, Types, TypesD, Switching
<1>2. CASE d.table \in direct[d.fam] \cup local[d.fam]
  <2>1. DeleteRule(d.fam, d.table) /\ d' = d BY <1>2 DEF DeleteStale
  <2>2. direct[d.fam] # {} =>
           /\ oldest[d.fam] \in direct[d.fam] \ {d.table} /\ d.table # oldest[d.fam]
    BY <1>1, SMT DEF IInv, Control, OldestLive
  <2>3. direct[d.fam] \ {d.table} # {} \/ direct[d.fam] = {} BY <2>2
  <2>4. /\ TypesK' /\ OldestLive' /\ LiveTablesComplete' /\ OthersKept' /\ Protected
        /\ direct'[d.fam] \in SUBSET direct[d.fam]
        /\ oldest[d.fam] # d.table /\ direct'[d.fam] # {} => oldest'[d.fam] = oldest[d.fam]
    BY <1>1, <2>1, <2>3, Deleted
  <2>5. TypesD' BY <2>1 DEF IInv, Types, TypesD
  <2>6. Control'
    <3>1. direct'[d.fam] # {} => d.table # oldest'[d.fam] BY <2>2, <2>4
    <3> QED BY <3>1, <1>1, <2>1, SMT DEF Control, Emptied, Switched
  <2> QED BY <2>4, <2>5, <2>6 DEF IInv, Types
<1>3. CASE d.table \notin direct[d.fam] \cup local[d.fam]
  <2>1. d' = [d EXCEPT !.pc = "clear"] /\ UNCHANGED <<direct, oldest, local>>
    BY <1>3 DEF DeleteStale, To
  <2>2. d'.pc = "clear" /\ d'.fam = d.fam /\ d'.table = d.table BY <2>1, Moves
  <2>3. TypesD' BY <1>1, <2>1, MovesTypes, SMT DEF Switching, Emptied, Switched
  <2>4. Control' BY <1>3, <2>1, <2>2, SMT DEF Control, Emptied, Switched
  <2>5. TypesK' /\ OldestLive' /\ LiveTablesComplete' /\ OthersKept' /\ Protected
    BY <1>1, <2>1 DEF IInv, Types, TypesK, OldestLive, LiveTablesComplete, OthersKept, Protected
  <2> QED BY <2>3, <2>4, <2>5 DEF IInv, Types
<1> QED BY <1>2, <1>3

-----------------------------------------------------------------------------
\* What may be put into the table being filled: no rule names it.
LEMMA FilledInv ==
    ASSUME IInv, d.pc \in Emptied, NEW routes \in SUBSET Entries, SetTable(routes),
           "foreign" \in routes <=> "foreign" \in Filled,
           UNCHANGED <<direct, oldest, local, foreign, uplink>>
    PROVE  /\ TypesK' /\ OldestLive' /\ LiveTablesComplete' /\ OthersKept' /\ Protected
           /\ table'[d.fam][d.table] = routes
<1>1. d.fam \in Families /\ d.table \in Tables
  BY SMT DEF IInv, Types, TypesD, Switching, Emptied, Switched
<1>2. d.table \notin direct[d.fam] \cup local[d.fam] BY DEF IInv, Control
<1>3. table' = [table EXCEPT ![d.fam][d.table] = routes] BY DEF SetTable
<1>4. table'[d.fam][d.table] = routes BY <1>1, <1>3, SMT DEF IInv, Types, TypesK
<1>5. \A f \in Families, t \in Tables :
         f # d.fam \/ t # d.table => table'[f][t] = table[f][t]
  BY <1>1, <1>3, SMT DEF IInv, Types, TypesK
<1>6. TypesK' BY <1>1, <1>3, SMT DEF IInv, Types, TypesK
<1>7. OldestLive' /\ Protected BY DEF IInv, OldestLive, Protected
<1>8. LiveTablesComplete'
  <2> SUFFICES ASSUME NEW f \in Families, NEW t \in direct[f] \cup local[f]
               PROVE  "fallback" \in table'[f][t]
    BY DEF LiveTablesComplete
  <2>1. t \in Tables /\ "fallback" \in table[f][t]
    BY SMT DEF IInv, Types, TypesK, LiveTablesComplete
  <2>2. table'[f][t] = table[f][t] BY <2>1, <1>2, <1>5
  <2> QED BY <2>1, <2>2
<1>9. OthersKept' BY <1>1, <1>4, <1>5 DEF IInv, OthersKept, Filled
<1> QED BY <1>4, <1>6, <1>7, <1>8, <1>9

\* The table's own routes, for the steps that change them.
LEMMA FilledType ==
    ASSUME IInv, d.pc \in Emptied
    PROVE  Filled \in SUBSET Entries /\ d.plan \in Uplinks \cup {None}
BY SMT DEF IInv, Types, TypesD, TypesK, Filled, Switching, Emptied, Switched

\* A step of the fill that stays away from "direct" relies on nothing more.
LEMMA FillGoesOn ==
    ASSUME IInv, d.pc \in Emptied, NEW pc \in Emptied, d' = [d EXCEPT !.pc = pc],
           UNCHANGED <<direct, local>>,
           pc = "direct" => "fallback" \in table'[d.fam][d.table]
    PROVE  TypesD' /\ Control'
<1>1. d'.pc = pc /\ d'.fam = d.fam /\ d'.table = d.table BY Moves
<1>2. TypesD' BY MovesTypes, SMT DEF Switching, Emptied, Switched
<1>3. d.table \notin direct[d.fam] \cup local[d.fam] BY DEF IInv, Control
<1>4. Control' BY <1>1, <1>3, SMT DEF Control, Emptied, Switched
<1> QED BY <1>2, <1>4

LEMMA ClearInv == ASSUME IInv, Clear PROVE IInv' /\ Protected
<1>0. /\ d.pc \in Emptied /\ "flush" \in Emptied /\ "flush" # "direct"
      /\ UNCHANGED <<direct, oldest, local, foreign, uplink>>
  BY DEF Clear, others, Emptied
<1>1. CASE Answerable(FALSE) /\ UNCHANGED table BY <1>0, <1>1, FailsQuiet
<1>2. CASE SetTable(Filled \ Retained(d.fam)) /\ To("flush")
  <2>1. /\ Filled \ Retained(d.fam) \in SUBSET Entries
        /\ "foreign" \in Filled \ Retained(d.fam) <=> "foreign" \in Filled
    BY <1>0, FilledType, SMT DEF Retained
  <2>2. TypesK' /\ OldestLive' /\ LiveTablesComplete' /\ OthersKept' /\ Protected
    BY <1>0, <1>2, <2>1, FilledInv
  <2>3. TypesD' /\ Control' BY <1>0, <1>2, FillGoesOn DEF To
  <2> QED BY <2>2, <2>3 DEF IInv, Types
<1> QED BY <1>1, <1>2 DEF Clear, Fails

LEMMA FlushInv == ASSUME IInv, Flush PROVE IInv' /\ Protected
<1> DEFINE kept == {"foreign"} \cup (IF d.fam = "v6" THEN {"fallback"} ELSE {})
<1>0. /\ d.pc \in Emptied /\ "route" \in Emptied /\ "route" # "direct"
      /\ UNCHANGED <<direct, oldest, local, foreign, uplink>>
  BY DEF Flush, others, Emptied
<1>1. Filled \cap kept \in SUBSET Entries /\ "foreign" \in kept BY <1>0, FilledType
<1>2. TypesK' /\ OldestLive' /\ LiveTablesComplete' /\ OthersKept' /\ Protected
  BY <1>0, <1>1, FilledInv DEF Flush
<1>3. TypesD' /\ Control' BY <1>0, FillGoesOn DEF Flush, To
<1> QED BY <1>2, <1>3 DEF IInv, Types

LEMMA AddRouteInv == ASSUME IInv, AddRoute PROVE IInv' /\ Protected
<1>0. /\ d.pc \in Emptied /\ "fallback" \in Emptied /\ "fallback" # "direct"
      /\ UNCHANGED <<direct, oldest, local, foreign, uplink>>
  BY DEF AddRoute, others, Emptied
<1>1. CASE Answerable(FALSE) /\ UNCHANGED table BY <1>0, <1>1, FailsQuiet
<1>2. CASE UNCHANGED table /\ To("fallback")
  <2>1. TypesK' /\ OldestLive' /\ LiveTablesComplete' /\ OthersKept' /\ Protected
    BY <1>0, <1>2 DEF IInv, Types, TypesK, OldestLive, LiveTablesComplete, OthersKept, Protected
  <2>2. TypesD' /\ Control' BY <1>0, <1>2, FillGoesOn DEF To
  <2> QED BY <2>1, <2>2 DEF IInv, Types
<1>3. CASE SetTable(Filled \cup {d.plan}) /\ To("fallback")
  <2>1. /\ Filled \cup {d.plan} \in SUBSET Entries
        /\ "foreign" \in Filled \cup {d.plan} <=> "foreign" \in Filled
    BY <1>0, FilledType, Apart, SMT DEF Entries
  <2>2. TypesK' /\ OldestLive' /\ LiveTablesComplete' /\ OthersKept' /\ Protected
    BY <1>0, <1>3, <2>1, FilledInv
  <2>3. TypesD' /\ Control' BY <1>0, <1>3, FillGoesOn DEF To
  <2> QED BY <2>2, <2>3 DEF IInv, Types
<1> QED BY <1>1, <1>2, <1>3 DEF AddRoute, Fails

\* From here on the table is complete.
LEMMA AddFallbackInv == ASSUME IInv, AddFallback PROVE IInv' /\ Protected
<1>0. /\ d.pc \in Emptied /\ "direct" \in Emptied
      /\ UNCHANGED <<direct, oldest, local, foreign, uplink>>
  BY DEF AddFallback, others, Emptied
<1>1. CASE Answerable(FALSE) /\ UNCHANGED table BY <1>0, <1>1, FailsQuiet
<1>2. CASE SetTable(Filled \cup {"fallback"}) /\ To("direct")
  <2>1. /\ Filled \cup {"fallback"} \in SUBSET Entries
        /\ "foreign" \in Filled \cup {"fallback"} <=> "foreign" \in Filled
    BY <1>0, FilledType, SMT DEF Entries
  <2>2. /\ TypesK' /\ OldestLive' /\ LiveTablesComplete' /\ OthersKept' /\ Protected
        /\ table'[d.fam][d.table] = Filled \cup {"fallback"}
    BY <1>0, <1>2, <2>1, FilledInv
  <2>3. TypesD' /\ Control' BY <1>0, <1>2, <2>2, FillGoesOn DEF To
  <2> QED BY <2>2, <2>3 DEF IInv, Types
<1> QED BY <1>1, <1>2 DEF AddFallback, Fails

-----------------------------------------------------------------------------
\* The complete table joins the rules in force.
LEMMA AddDirectInv == ASSUME IInv, AddDirect PROVE IInv' /\ Protected
<1>0. /\ d.pc = "direct" /\ d.fam \in Families /\ d.table \in Tables
      /\ UNCHANGED <<table, local, foreign, uplink>>
  BY SMT DEF AddDirect, others, IInv, Types, TypesD, Switching, Emptied
<1>1. CASE Answerable(FALSE) /\ UNCHANGED <<direct, oldest>>
  BY <1>0, <1>1, FailsQuiet
<1>2. CASE /\ d' = [d EXCEPT !.old = direct[d.fam] \cup local[d.fam], !.pc = "local"]
           /\ direct' = [direct EXCEPT ![d.fam] = @ \cup {d.table}]
           /\ oldest' = [oldest EXCEPT ![d.fam] = IF direct[d.fam] = {} THEN d.table ELSE @]
  <2>1. /\ DOMAIN d' = DOMAIN d /\ d'.pc = "local" /\ d'.fam = d.fam
        /\ d'.table = d.table /\ d'.old = direct[d.fam] \cup local[d.fam] /\ d'.plan = d.plan
    BY <1>2, SMT DEF IInv, Types, TypesD
  <2>2. direct[d.fam] \cup local[d.fam] \subseteq Tables
    BY <1>0, SMT DEF IInv, Types, TypesK
  <2>3. TypesD' BY <1>0, <2>1, <2>2, SMT DEF IInv, Types, TypesD
  <2>4. TypesK' BY <1>0, <1>2, SMT DEF IInv, Types, TypesK
  <2>5. direct'[d.fam] = direct[d.fam] \cup {d.table}
    BY <1>0, <1>2, SMT DEF IInv, Types, TypesK
  <2>6. d.table \notin direct[d.fam] \cup local[d.fam] /\ "fallback" \in table[d.fam][d.table]
    BY <1>0, SMT DEF IInv, Control, Emptied
  <2>7. \A f \in Families : f # d.fam => direct'[f] = direct[f] /\ oldest'[f] = oldest[f]
    BY <1>0, <1>2, SMT DEF IInv, Types, TypesK
  <2>8. oldest'[d.fam] = IF direct[d.fam] = {} THEN d.table ELSE oldest[d.fam]
    BY <1>0, <1>2, SMT DEF IInv, Types, TypesK
  <2>9. OldestLive' /\ Protected
    BY <1>0, <2>5, <2>7, <2>8, SMT DEF IInv, OldestLive, Protected
  <2>10. Control' BY <1>0, <2>1, <2>5, <2>6, SMT DEF Control, Emptied, Switched
  <2>11. LiveTablesComplete'
    BY <1>0, <2>5, <2>6, <2>7, SMT DEF IInv, LiveTablesComplete
  <2>12. OthersKept' BY <1>0 DEF IInv, OthersKept
  <2> QED BY <2>3, <2>4, <2>9, <2>10, <2>11, <2>12 DEF IInv, Types
<1> QED BY <1>1, <1>2 DEF AddDirect, Fails

\* Its local routes come before the host's own rules.
LEMMA AddLocalInv == ASSUME IInv, AddLocal PROVE IInv' /\ Protected
<1>1. /\ d.pc = "local" /\ d.fam \in Families /\ d.table \in Tables
      /\ d' = [d EXCEPT !.pc = "old"]
      /\ UNCHANGED <<table, direct, oldest, foreign, uplink>>
  BY SMT DEF AddLocal, To, others, IInv, Types, TypesD, Switching, Switched
<1>2. local' = local \/ local' = [local EXCEPT ![d.fam] = @ \cup {d.table}]
  BY DEF AddLocal
<1>3. d'.pc = "old" /\ d'.fam = d.fam /\ d'.table = d.table /\ d'.old = d.old
  BY <1>1, Moves
<1>4. TypesD' BY <1>1, MovesTypes, SMT DEF Switching, Switched
<1>5. TypesK' BY <1>1, <1>2, SMT DEF IInv, Types, TypesK
<1>6. OldestLive' /\ OthersKept' /\ Protected BY <1>1 DEF IInv, OldestLive, OthersKept, Protected
<1>7. /\ "fallback" \in table[d.fam][d.table]
      /\ d.table \in direct[d.fam] /\ d.table \notin d.old
  BY <1>1, SMT DEF IInv, Control, Switched
<1>8. Control' BY <1>1, <1>3, <1>7, SMT DEF Control, Emptied, Switched
<1>9. LiveTablesComplete'
  BY <1>1, <1>2, <1>7, SMT DEF IInv, Types, TypesK, LiveTablesComplete
<1> QED BY <1>4, <1>5, <1>6, <1>8, <1>9 DEF IInv, Types

\* Only rules that were noted go, and the new table is not among them.
LEMMA DeleteOldInv == ASSUME IInv, DeleteOld PROVE IInv' /\ Protected
<1>1. /\ d.pc = "old" /\ d.fam \in Families /\ d.table \in Tables /\ d.old \subseteq Tables
      /\ UNCHANGED <<table, foreign, uplink>>
  BY SMT DEF DeleteOld, others, IInv, Types, TypesD, Switching, Switched
<1>2. /\ "fallback" \in table[d.fam][d.table]
      /\ d.table \in direct[d.fam] /\ d.table \notin d.old
  BY <1>1, SMT DEF IInv, Control, Switched
<1>3. ASSUME NEW t \in d.old, DeleteRule(d.fam, t), UNCHANGED d
      PROVE  IInv' /\ Protected
  <2>1. t \in Tables /\ d.table \in direct[d.fam] \ {t} BY <1>1, <1>2, <1>3
  <2>2. direct[d.fam] \ {t} # {} BY <2>1
  <2>3. /\ TypesK' /\ OldestLive' /\ LiveTablesComplete' /\ OthersKept' /\ Protected
        /\ direct[d.fam] \ {t} \subseteq direct'[d.fam]
    BY <1>1, <1>3, <2>1, <2>2, Deleted
  <2>4. TypesD' BY <1>3 DEF IInv, Types, TypesD
  <2>5. Control' BY <1>1, <1>2, <1>3, <2>1, <2>3, SMT DEF Control, Emptied, Switched
  <2> QED BY <2>3, <2>4, <2>5 DEF IInv, Types
<1>4. ASSUME UNCHANGED <<direct, oldest, local>>,
             \/ d' = [d EXCEPT !.fam = "v6", !.pc = "choose"]
             \/ To("cgroups")
      PROVE  IInv' /\ Protected
  <2>1. QuietD
    <3>1. CASE To("cgroups")
      <4>1. "cgroups" \notin Switching BY DEF Switching, Emptied, Switched
      <4> QED BY <3>1, <4>1, Onward DEF To
    <3>2. CASE d' = [d EXCEPT !.fam = "v6", !.pc = "choose"]
      BY <3>2, SMT DEF IInv, Types, TypesD, QuietD, Families
    <3> QED BY <1>4, <3>1, <3>2
  <2>2. Quiet BY <1>1, <1>4, <2>1 DEF Quiet, kernel
  <2> QED BY <2>2, QuietInv, QuietProtected
<1> QED BY <1>3, <1>4 DEF DeleteOld

-----------------------------------------------------------------------------
\* What happens to the tables from outside leaves every fallback in place.
LEMMA OutsideInv ==
    ASSUME IInv, UNCHANGED <<direct, oldest, local, d>>,
           TypesK', OthersKept',
           \A f \in Families, t \in Tables :
              "fallback" \in table[f][t] => "fallback" \in table'[f][t]
    PROVE  IInv' /\ Protected
<1>1. TypesD' /\ OldestLive' /\ Protected BY DEF IInv, Types, TypesD, OldestLive, Protected
<1>2. LiveTablesComplete' BY SMT DEF IInv, Types, TypesK, LiveTablesComplete
<1>3. Control' BY SMT DEF IInv, Types, TypesD, Control, Switching, Emptied, Switched
<1> QED BY <1>1, <1>2, <1>3 DEF IInv, Types

LEMMA UplinkMovesInv == ASSUME IInv, UplinkMoves PROVE IInv' /\ Protected
<1>1. /\ table' = [f \in Families |-> [t \in Tables |-> table[f][t] \ {uplink}]]
      /\ uplink' \in Uplinks \cup {None, "odd"}
      /\ UNCHANGED <<direct, oldest, local, d, foreign>>
  BY DEF UplinkMoves
<1>2. uplink \in Uplinks \cup {None, "odd"} BY DEF IInv, Types, TypesK
<1>3. "fallback" # uplink /\ "foreign" # uplink BY <1>2, Apart
<1>4. \A f \in Families, t \in Tables : table'[f][t] = table[f][t] \ {uplink} BY <1>1
<1>5. TypesK' BY <1>1, SMT DEF IInv, Types, TypesK
<1>6. OthersKept' BY <1>1, <1>3, <1>4 DEF IInv, OthersKept
<1> QED BY <1>1, <1>3, <1>4, <1>5, <1>6, OutsideInv

LEMMA ForeignInv == ASSUME IInv, ForeignComes \/ ForeignLeaves PROVE IInv' /\ Protected
<1>1. UNCHANGED <<direct, oldest, local, d, uplink>> BY DEF ForeignComes, ForeignLeaves
<1>2. ASSUME NEW g \in Families, NEW u \in Tables,
             foreign' = foreign \cup {<<g, u>>},
             table' = [table EXCEPT ![g][u] = @ \cup {"foreign"}]
      PROVE  IInv' /\ Protected
  <2>1. \A f \in Families, t \in Tables :
           table'[f][t] = IF f = g /\ t = u THEN table[f][t] \cup {"foreign"} ELSE table[f][t]
    <3> DEFINE routes == table[g][u] \cup {"foreign"}
    <3>1. table' = [table EXCEPT ![g][u] = routes] BY <1>2
    <3>2. \A f \in Families, t \in Tables :
             table'[f][t] = IF f = g /\ t = u THEN routes ELSE table[f][t]
      <4> HIDE DEF routes
      <4> QED BY <3>1, SMT DEF IInv, Types, TypesK
    <3> QED BY <3>2
  <2>2. TypesK'
    <3> DEFINE routes == table[g][u] \cup {"foreign"}
    <3>1. routes \in SUBSET Entries BY SMT DEF IInv, Types, TypesK, Entries
    <3>2. table' = [table EXCEPT ![g][u] = routes] BY <1>2
    <3> HIDE DEF routes
    <3> QED BY <1>1, <3>1, <3>2, SMT DEF IInv, Types, TypesK
  <2>3. OthersKept'
    <3> SUFFICES ASSUME NEW f \in Families, NEW t \in Tables
                 PROVE  <<f, t>> \in foreign' <=> "foreign" \in table'[f][t]
      BY DEF OthersKept
    <3>1. <<f, t>> \in foreign <=> "foreign" \in table[f][t] BY DEF IInv, OthersKept
    <3> QED BY <1>2, <2>1, <3>1
  <2> QED BY <1>1, <2>1, <2>2, <2>3, OutsideInv
<1>3. ASSUME NEW g \in Families, NEW u \in Tables,
             foreign' = foreign \ {<<g, u>>},
             table' = [table EXCEPT ![g][u] = @ \ {"foreign"}]
      PROVE  IInv' /\ Protected
  <2>1. \A f \in Families, t \in Tables :
           table'[f][t] = IF f = g /\ t = u THEN table[f][t] \ {"foreign"} ELSE table[f][t]
    <3> DEFINE routes == table[g][u] \ {"foreign"}
    <3>1. table' = [table EXCEPT ![g][u] = routes] BY <1>3
    <3>2. \A f \in Families, t \in Tables :
             table'[f][t] = IF f = g /\ t = u THEN routes ELSE table[f][t]
      <4> HIDE DEF routes
      <4> QED BY <3>1, SMT DEF IInv, Types, TypesK
    <3> QED BY <3>2
  <2>2. TypesK'
    <3> DEFINE routes == table[g][u] \ {"foreign"}
    <3>1. routes \in SUBSET Entries BY SMT DEF IInv, Types, TypesK, Entries
    <3>2. table' = [table EXCEPT ![g][u] = routes] BY <1>3
    <3> HIDE DEF routes
    <3> QED BY <1>1, <3>1, <3>2, SMT DEF IInv, Types, TypesK
  <2>3. OthersKept'
    <3> SUFFICES ASSUME NEW f \in Families, NEW t \in Tables
                 PROVE  <<f, t>> \in foreign' <=> "foreign" \in table'[f][t]
      BY DEF OthersKept
    <3>1. <<f, t>> \in foreign <=> "foreign" \in table[f][t] BY DEF IInv, OthersKept
    <3> QED BY <1>3, <2>1, <3>1
  <2>4. "fallback" # "foreign" OBVIOUS
  <2> QED BY <1>1, <2>1, <2>2, <2>3, <2>4, OutsideInv
<1> QED BY <1>2, <1>3 DEF ForeignComes, ForeignLeaves

-----------------------------------------------------------------------------
\* Every step keeps the invariant and every exception that is in force.
LEMMA StepInv == ASSUME IInv, Next PROVE IInv' /\ Protected
<1>1. CASE \/ Choose \/ DeleteStale \/ Clear \/ Flush \/ AddRoute \/ AddFallback
           \/ AddDirect \/ AddLocal \/ DeleteOld
  BY <1>1, ChooseInv, DeleteStaleInv, ClearInv, FlushInv, AddRouteInv, AddFallbackInv,
     AddDirectInv, AddLocalInv, DeleteOldInv
<1>2. CASE UplinkMoves \/ ForeignComes \/ ForeignLeaves
  BY <1>2, UplinkMovesInv, ForeignInv
<1>3. CASE \/ Accept \/ Plan \/ ReadCgroups \/ Enroll \/ WriteServers \/ Observe
           \/ Signal \/ Confirm \/ Answer \/ CommandFails \/ StartDaemon \/ DaemonCrash
           \/ ResolverStart \/ ResolverListens \/ Reload \/ ResolverDies \/ NftFlushed
           \/ \E c \in Clients : ClientStart(c) \/ Ask(c) \/ GiveUp(c) \/ ClientStop(c)
  <2>1. Quiet BY <1>3, QuietSteps
  <2> QED BY <2>1, QuietInv, QuietProtected
<1> QED BY <1>1, <1>2, <1>3 DEF Next, DaemonStep

LEMMA StutterInv == ASSUME IInv, UNCHANGED vars PROVE IInv' /\ Protected
<1>1. UNCHANGED <<table, direct, oldest, local, foreign, uplink, d>>
  BY DEF vars, kernel, others
<1> QED BY <1>1 DEF IInv, Types, TypesD, TypesK, OldestLive, Control, LiveTablesComplete,
                    OthersKept, Protected

\* The inductive invariant holds.
LEMMA Inductive == Spec => []IInv
<1>1. IInv /\ [Next]_vars => IInv' BY StepInv, StutterInv
<1> QED BY InitInv, <1>1, PTL DEF Spec

-----------------------------------------------------------------------------
\* No rule ever names a table whose unreachable default is missing, whatever
\* fails, crashes or changes while switch_routes (src/direct_network.rs) runs.
THEOREM TablesComplete == Spec => []LiveTablesComplete
<1>1. IInv => LiveTablesComplete BY DEF IInv
<1> QED BY Inductive, <1>1, PTL

\* Flushing and filling a table never costs another owner a route: the flush is by
\* protocol, and the fallback is removed by name.
THEOREM ForeignRoutesKept == Spec => []OthersKept
<1>1. IInv => OthersKept BY DEF IInv
<1> QED BY Inductive, <1>1, PTL

\* A family whose marked traffic has a rule is never again without one: new rules
\* come before old ones go, and recovery deletes only rules of the newer table.
THEOREM AlwaysProtected == Spec => NeverUnprotected
<1>1. IInv /\ [Next]_vars => Protected BY StepInv, StutterInv
<1>2. IInv /\ [Next]_vars =>
         [\A f \in Families : direct[f] # {} => direct[f]' # {}]_vars
  BY <1>1 DEF Protected
<1> QED BY Inductive, <1>2, PTL DEF Spec, NeverUnprotected
-----------------------------------------------------------------------------
(* What a workload may rely on when it is told that it is ready.  Between  *)
(* the reading of the cgroups and the answer, everybody who waits in the   *)
(* batch keeps its slice; inodes are never used twice, so what is          *)
(* remembered of a slice that was replaced never fits again; and a         *)
(* dispatch names the resolver that was signalled after the file was       *)
(* written, which reads it before it listens again.                        *)
Succeeded == d.pc = "answer" /\ d.ok
Late == d.pc \in {"servers", "observe", "hup", "confirm"} \/ Succeeded

TypesR ==
    /\ DOMAIN mem = {"snapshot", "cgroups", "devices", "dispatch"}
    /\ DOMAIN resolver = {"pc", "gen", "loaded", "hup"} /\ resolver.gen \in Nat
    /\ client \in [Clients -> {"absent", "waiting", "asking", "admitted"}]
    /\ slice \in [Clients -> Nat]
    /\ DOMAIN used = {"moves", "faults", "slices"} /\ used.slices \in Nat

\* Whoever is there has a slice, and whoever waits for the answer asked for it.
SliceInv ==
    \A c \in Clients : slice[c] <= used.slices /\ (client[c] # "absent" => slice[c] # 0)
BatchInv == \A c \in d.batch \cap Clients : client[c] = "asking"

\* A switch that is over, and the first half of one, left the exception in force.
LiveInv ==
    /\ d.pc \in {"cgroups", "enroll"} \/ Late => RulesLive
    /\ d.pc \in Switching /\ d.fam = "v6" => Live("v4")

Enrolling(cgroups) ==
    /\ DOMAIN cgroups \subseteq Clients \cup {"dns"}
    /\ cgroups \in [DOMAIN cgroups -> Nat]
    /\ \A c \in DOMAIN cgroups \cap Clients : cgroups[c] \in 1 .. used.slices
Covers(cgroups) == \A c \in d.batch \cap Clients : c \in DOMAIN cgroups /\ cgroups[c] = slice[c]
Current ==
    nft # None => \A c \in DOMAIN mem.cgroups \cap Clients :
                     mem.cgroups[c] = slice[c] => nft[c] = slice[c]
EnrolInv ==
    /\ mem.cgroups # None => Enrolling(mem.cgroups) /\ Current
    /\ d.pc = "enroll" => Enrolling(d.cgroups) /\ Covers(d.cgroups)
    /\ Late => mem.cgroups # None /\ Covers(mem.cgroups)

Informed == resolver.pc = "up" => resolver.hup \/ resolver.loaded = file
DispatchInv ==
    /\ d.pc \in {"hup", "confirm"} => d.seen # None /\ d.seen \in 0 .. resolver.gen
    /\ d.pc = "confirm" /\ d.seen = resolver.gen => Informed
    /\ mem.dispatch # None =>
          /\ mem.dispatch.resolver # None /\ mem.dispatch.resolver \in 0 .. resolver.gen
          /\ mem.dispatch.resolver = resolver.gen /\ mem.dispatch.servers = file => Informed

RInv == IInv /\ TypesR /\ SliceInv /\ BatchInv /\ LiveInv /\ EnrolInv /\ DispatchInv

\* The daemon stays where it is, or goes where it relies on no enrolment yet.
Early ==
    \/ /\ UNCHANGED <<d.pc, d.fam, d.ok, d.cgroups, d.seen>>
       /\ d'.batch \subseteq d.batch
    \/ d'.pc \in {"down", "serve", "plan"}
    \/ d'.pc = "answer" /\ ~d'.ok
    \/ d'.pc \in Switching /\ (d'.fam = "v6" => Live("v4"))
    \/ d'.pc = "cgroups" /\ RulesLive

LEMMA EarlyLive == ASSUME LiveInv, Early, Protected PROVE LiveInv'
BY SMT DEF LiveInv, Early, Protected, Late, Succeeded, Switching, Emptied, Switched,
           RulesLive, Live, Families

LEMMA EarlyEnrol ==
    ASSUME EnrolInv, Early, slice' = slice, used'.slices = used.slices,
           mem'.cgroups = mem.cgroups, nft' \in {nft, None}
    PROVE  EnrolInv'
<1>1. mem'.cgroups # None => Enrolling(mem.cgroups)' /\ Current'
  BY DEF EnrolInv, Enrolling, Current
<1>2. CASE /\ UNCHANGED <<d.pc, d.ok, d.cgroups>> /\ d'.batch \subseteq d.batch
  <2>1. d'.pc = "enroll" => Enrolling(d.cgroups)' /\ Covers(d.cgroups)'
    BY <1>2 DEF EnrolInv, Enrolling, Covers
  <2>2. Late' => mem'.cgroups # None /\ Covers(mem.cgroups)'
    BY <1>2 DEF EnrolInv, Covers, Late, Succeeded
  <2> QED BY <1>1, <2>1, <2>2 DEF EnrolInv
<1>3. CASE ~Late' /\ d'.pc # "enroll"
  BY <1>1, <1>3 DEF EnrolInv
<1>4. \/ UNCHANGED <<d.pc, d.ok, d.cgroups>> /\ d'.batch \subseteq d.batch
      \/ ~Late' /\ d'.pc # "enroll"
  BY SMT DEF Early, Late, Succeeded, Switching, Emptied, Switched
<1> QED BY <1>2, <1>3, <1>4

LEMMA EarlyDispatch ==
    ASSUME DispatchInv, Early, resolver' = resolver, file' = file, mem'.dispatch = mem.dispatch
    PROVE  DispatchInv'
<1>1. Informed' = Informed
  BY DEF Informed
<1>2. \/ UNCHANGED <<d.pc, d.seen>> \/ d'.pc \notin {"hup", "confirm"}
  BY SMT DEF Early, Switching, Emptied, Switched
<1> QED BY <1>1, <1>2 DEF DispatchInv
\* What the next four lemmas say of a step: it is early, and keeps the batch.
Onwards == Early /\ d'.batch \subseteq d.batch

LEMMA FailsEarly == ASSUME RInv, Fails PROVE Onwards
<1>1. DOMAIN d = {"pc", "fam", "table", "old", "plan", "cgroups", "present", "seen", "batch", "ok"}
  BY DEF RInv, IInv, Types, TypesD
<1>2. d'.pc = "answer" /\ ~d'.ok /\ d'.batch = d.batch
  BY <1>1, SMT DEF Fails, Answerable
<1> QED BY <1>2 DEF Early, Onwards

LEMMA ToSwitching ==
    ASSUME RInv, d.pc \in Switching, NEW pc \in Switching, To(pc) PROVE Onwards
<1>1. DOMAIN d = {"pc", "fam", "table", "old", "plan", "cgroups", "present", "seen", "batch", "ok"}
  BY DEF RInv, IInv, Types, TypesD
<1>2. d'.pc = pc /\ d'.fam = d.fam /\ d'.batch = d.batch
  BY <1>1, SMT DEF To
<1> QED BY <1>2 DEF Early, Onwards, RInv, LiveInv

LEMMA StaysEarly == ASSUME d' = d PROVE Onwards
BY DEF Early, Onwards

\* Every step of a switch.
LEMMA SwitchEarly ==
    ASSUME RInv,
           \/ Choose \/ DeleteStale \/ Clear \/ Flush \/ AddRoute \/ AddFallback
           \/ AddDirect \/ AddLocal \/ DeleteOld
    PROVE  Onwards
<1>0. DOMAIN d = {"pc", "fam", "table", "old", "plan", "cgroups", "present", "seen", "batch", "ok"}
  BY DEF RInv, IInv, Types, TypesD
<1>1. CASE Choose
  <2>1. CASE d' = [d EXCEPT !.table = Inactive(d.fam), !.pc = "stale"]
    <3>1. d.pc = "choose" BY <1>1 DEF Choose
    <3>2. d'.pc = "stale" /\ d'.fam = d.fam /\ d'.batch = d.batch BY <1>0, <2>1, SMT
    <3> QED BY <3>1, <3>2 DEF Early, Onwards, RInv, LiveInv, Switching
  <2> QED BY <1>1, <2>1, FailsEarly DEF Choose
<1>2. CASE DeleteStale \/ Clear \/ Flush \/ AddRoute \/ AddFallback \/ AddLocal
  <2>1. d.pc \in Switching
    BY <1>2 DEF DeleteStale, Clear, Flush, AddRoute, AddFallback, AddLocal, Switching, Emptied, Switched
  <2>2. Fails \/ d' = d \/ \E pc \in {"clear", "flush", "route", "fallback", "direct", "old"} : To(pc)
    BY <1>2 DEF DeleteStale, Clear, Flush, AddRoute, AddFallback, AddLocal
  <2>3. {"clear", "flush", "route", "fallback", "direct", "old"} \subseteq Switching
    BY DEF Switching, Emptied, Switched
  <2> QED BY <2>1, <2>2, <2>3, FailsEarly, ToSwitching, StaysEarly
<1>3. CASE AddDirect
  <2>1. CASE d' = [d EXCEPT !.old = direct[d.fam] \cup local[d.fam], !.pc = "local"]
    <3>1. d.pc = "direct" BY <1>3 DEF AddDirect
    <3>2. d'.pc = "local" /\ d'.fam = d.fam /\ d'.batch = d.batch BY <1>0, <2>1, SMT
    <3> QED BY <3>1, <3>2 DEF Early, Onwards, RInv, LiveInv, Switching, Emptied, Switched
  <2> QED BY <1>3, <2>1, FailsEarly DEF AddDirect
<1>4. CASE DeleteOld
  <2>1. /\ d.pc = "old" /\ d.fam \in Families
        /\ d.table \in direct[d.fam] /\ (d.fam = "v6" => Live("v4"))
    BY <1>4, SMT DEF DeleteOld, RInv, IInv, Types, TypesD, Control, LiveInv, Switching, Switched
  <2>2. CASE d' = d BY <2>2, StaysEarly
  <2>3. CASE d.fam = "v4" /\ d' = [d EXCEPT !.fam = "v6", !.pc = "choose"]
    <3>1. d'.pc = "choose" /\ d'.batch = d.batch BY <1>0, <2>3, SMT
    <3>2. Live("v4") BY <2>1, <2>3 DEF Live
    <3> QED BY <3>1, <3>2 DEF Early, Onwards, Switching
  <2>4. CASE d.fam # "v4" /\ To("cgroups")
    <3>1. d'.pc = "cgroups" /\ d'.batch = d.batch BY <1>0, <2>4, SMT DEF To
    <3>2. RulesLive BY <2>1, <2>4 DEF RulesLive, Live, Families
    <3> QED BY <3>1, <3>2 DEF Early, Onwards
  <2> QED BY <1>4, <2>2, <2>3, <2>4 DEF DeleteOld
<1> QED BY <1>1, <1>2, <1>3, <1>4

\* What the switch, the host around the daemon and a failed command leave alone.
Aside ==
    /\ UNCHANGED <<file, resolver, client, slice>> /\ nft' \in {nft, None}
    /\ DOMAIN mem' = DOMAIN mem /\ mem'.cgroups = mem.cgroups /\ mem'.dispatch = mem.dispatch
    /\ DOMAIN used' = DOMAIN used /\ used'.slices = used.slices

LEMMA AsideInv ==
    ASSUME RInv, IInv', Protected, Aside, Early, BatchInv' PROVE RInv'
<1>1. TypesR' BY DEF RInv, TypesR, Aside
<1>2. SliceInv' BY DEF RInv, SliceInv, Aside
<1>3. LiveInv' BY EarlyLive DEF RInv
<1>4. EnrolInv' BY EarlyEnrol DEF RInv, Aside
<1>5. DispatchInv' BY EarlyDispatch DEF RInv, Aside
<1> QED BY <1>1, <1>2, <1>3, <1>4, <1>5 DEF RInv

LEMMA Spends ==
    ASSUME RInv, Moved \/ Fault
    PROVE  DOMAIN used' = DOMAIN used /\ used'.slices = used.slices
BY SMT DEF RInv, TypesR, Moved, Fault

LEMMA AsideSteps ==
    ASSUME RInv, IInv', Protected,
           \/ Accept \/ Plan \/ Choose \/ DeleteStale \/ Clear \/ Flush \/ AddRoute
           \/ AddFallback \/ AddDirect \/ AddLocal \/ DeleteOld \/ CommandFails
           \/ UplinkMoves \/ ForeignComes \/ ForeignLeaves \/ NftFlushed
    PROVE  RInv'
<1>0. DOMAIN d = {"pc", "fam", "table", "old", "plan", "cgroups", "present", "seen", "batch", "ok"}
  BY DEF RInv, IInv, Types, TypesD
<1>1. Aside
  <2>1. CASE DeleteOld
    <3>1. mem' = mem \/ mem' = [mem EXCEPT !.snapshot = d.plan] BY <2>1 DEF DeleteOld
    <3>2. DOMAIN mem' = DOMAIN mem /\ mem'.cgroups = mem.cgroups /\ mem'.dispatch = mem.dispatch
      BY <3>1, SMT DEF RInv, TypesR
    <3> QED BY <2>1, <3>2 DEF DeleteOld, Aside, others
  <2>2. CASE CommandFails \/ UplinkMoves \/ ForeignComes \/ NftFlushed
    BY <2>2, Spends DEF CommandFails, UplinkMoves, ForeignComes, NftFlushed, Aside, others
  <2>3. CASE \/ Accept \/ Plan \/ Choose \/ DeleteStale \/ Clear \/ Flush \/ AddRoute
             \/ AddFallback \/ AddDirect \/ AddLocal \/ ForeignLeaves
    BY <2>3 DEF Accept, Plan, Choose, DeleteStale, Clear, Flush, AddRoute, AddFallback,
                AddDirect, AddLocal, ForeignLeaves, Aside, others
  <2> QED BY <2>1, <2>2, <2>3
<1>2. ASSUME d'.batch \subseteq d.batch PROVE BatchInv'
  BY <1>1, <1>2 DEF RInv, BatchInv, Aside
<1>3. CASE Accept
  <2>1. d'.pc = "plan" /\ d'.batch = Queue BY <1>0, <1>3, SMT DEF Accept
  <2>2. \A c \in Queue \cap Clients : client[c] = "asking"
    BY EnrolmentAssumption DEF Queue
  <2>3. BatchInv' BY <1>1, <2>1, <2>2 DEF BatchInv, Aside
  <2> QED BY <1>1, <2>1, <2>3, AsideInv DEF Early
<1>4. CASE Plan
  <2>1. CASE d' = [d EXCEPT !.plan = Selected, !.fam = "v4",
                            !.pc = IF mem.snapshot # Selected \/ ~RulesLive
                                   THEN "choose" ELSE "cgroups"]
    <3>1. /\ d'.pc = "choose" \/ (d'.pc = "cgroups" /\ RulesLive)
          /\ d'.fam = "v4" /\ d'.batch = d.batch
      BY <1>0, <2>1, SMT
    <3> QED BY <1>1, <1>2, <3>1, AsideInv DEF Early, Switching
  <2> QED BY <1>1, <1>2, <1>4, <2>1, FailsEarly, AsideInv DEF Plan, Onwards
<1>5. CASE \/ Choose \/ DeleteStale \/ Clear \/ Flush \/ AddRoute \/ AddFallback
           \/ AddDirect \/ AddLocal \/ DeleteOld
  BY <1>1, <1>2, <1>5, SwitchEarly, AsideInv DEF Onwards
<1>6. CASE CommandFails
  BY <1>1, <1>2, <1>6, FailsEarly, AsideInv DEF CommandFails, Onwards
<1>7. CASE UplinkMoves \/ ForeignComes \/ ForeignLeaves \/ NftFlushed
  <2>1. d' = d BY <1>7 DEF UplinkMoves, ForeignComes, ForeignLeaves, NftFlushed
  <2> QED BY <1>1, <1>2, <2>1, StaysEarly, AsideInv DEF Onwards
<1> QED BY <1>3, <1>4, <1>5, <1>6, <1>7
-----------------------------------------------------------------------------
(* The steps after the switch.                                             *)
LEMMA FieldsD ==
    ASSUME RInv
    PROVE  DOMAIN d = {"pc", "fam", "table", "old", "plan", "cgroups", "present", "seen", "batch", "ok"}
BY DEF RInv, IInv, Types, TypesD

\* A step that leaves the workloads alone keeps their types and the batch.
LEMMA ClientsKeep ==
    ASSUME RInv, UNCHANGED <<client, slice, used>>, d'.batch = d.batch
    PROVE  /\ SliceInv' /\ BatchInv'
           /\ DOMAIN mem' = DOMAIN mem /\ resolver' = resolver => TypesR'
BY DEF RInv, SliceInv, BatchInv, TypesR

\* Where the exception was in force, it is, wherever the daemon goes from there.
LEMMA LiveKeeps ==
    ASSUME RInv, Protected, d.pc \in {"cgroups", "enroll"} \/ Late, d'.pc \notin Switching
    PROVE  LiveInv'
BY SMT DEF RInv, LiveInv, Protected, RulesLive, Live, Families

\* What exists has an inode that was given out.
LEMMA ActiveEnrols ==
    ASSUME RInv
    PROVE  /\ Enrolling(ActiveCgroups) /\ Covers(ActiveCgroups) /\ ActiveCgroups # None
           /\ DOMAIN ActiveCgroups = Paths
<1>1. DOMAIN ActiveCgroups = Paths /\ Paths \subseteq Clients \cup {"dns"}
  BY DEF ActiveCgroups, Paths
<1>2. \A path \in Paths : ActiveCgroups[path] = Inode(path)
  BY DEF ActiveCgroups
<1>3. \A path \in Paths : Inode(path) \in Nat
  BY <1>1 DEF Inode, RInv, TypesR
<1>4. ActiveCgroups \in [Paths -> Nat]
  BY <1>3 DEF ActiveCgroups
<1>5. \A c \in Clients : Inode(c) = slice[c]
  BY EnrolmentAssumption DEF Inode
<1>6. \A c \in Paths \cap Clients : slice[c] \in 1 .. used.slices
  <2>1. \A c \in Paths \cap Clients : slice[c] # 0
    BY EnrolmentAssumption DEF Paths
  <2> QED BY <2>1, SMT DEF RInv, SliceInv, TypesR
<1>7. Enrolling(ActiveCgroups)
  BY <1>1, <1>2, <1>4, <1>5, <1>6 DEF Enrolling
<1>8. \A c \in d.batch \cap Clients : c \in Paths
  BY DEF RInv, BatchInv, SliceInv, Paths
<1>9. Covers(ActiveCgroups)
  BY <1>1, <1>2, <1>5, <1>8 DEF Covers
<1> QED BY <1>1, <1>4, <1>7, <1>9, EnrolmentAssumption

LEMMA ReadCgroupsStep == ASSUME RInv, IInv', Protected, ReadCgroups PROVE RInv'
<1> DEFINE same == nft # None /\ mem.cgroups = ActiveCgroups /\ mem.devices = d.plan
<1>1. /\ d.pc = "cgroups" /\ UNCHANGED <<nft, file, mem, resolver, client, slice, used>>
  BY DEF ReadCgroups, others
<1>2. /\ d'.cgroups = ActiveCgroups /\ d'.batch = d.batch
      /\ d'.pc = IF same THEN "servers" ELSE "enroll"
  BY FieldsD, SMT DEF ReadCgroups, Enrolled
<1>3. TypesR' /\ SliceInv' /\ BatchInv'
  BY <1>1, <1>2, ClientsKeep
<1>4. LiveInv'
  BY <1>1, <1>2, LiveKeeps DEF Switching, Emptied, Switched
<1>5. mem'.cgroups # None => Enrolling(mem.cgroups)' /\ Current'
  BY <1>1 DEF RInv, EnrolInv, Enrolling, Current
<1>6. CASE same
  <2>1. d'.pc = "servers" /\ mem'.cgroups # None /\ Covers(mem.cgroups)'
    BY <1>1, <1>2, <1>6, ActiveEnrols DEF Covers
  <2> QED BY <1>1, <1>3, <1>4, <1>5, <2>1 DEF RInv, EnrolInv, DispatchInv, Informed
<1>7. CASE ~same
  <2>1. d'.pc = "enroll" /\ Enrolling(d.cgroups)' /\ Covers(d.cgroups)'
    BY <1>1, <1>2, <1>7, ActiveEnrols DEF Covers, Enrolling
  <2>2. ~Late'
    BY <2>1 DEF Late, Succeeded
  <2> QED BY <1>1, <1>3, <1>4, <1>5, <2>1, <2>2 DEF RInv, EnrolInv, DispatchInv, Informed
<1> QED BY <1>6, <1>7

LEMMA EnrollStep == ASSUME RInv, IInv', Protected, Enroll PROVE RInv'
<1>1. d.pc = "enroll" /\ UNCHANGED <<file, resolver, client, slice, used>>
  BY DEF Enroll, others
<1>2. Enrolling(d.cgroups) /\ Covers(d.cgroups)
  BY <1>1 DEF RInv, EnrolInv
<1>3. CASE Fails /\ UNCHANGED <<nft, mem>>
  <2>1. Early /\ d'.batch \subseteq d.batch
    BY <1>3, FailsEarly DEF Onwards
  <2>2. Aside /\ BatchInv'
    BY <1>1, <1>3, <2>1 DEF Aside, RInv, BatchInv
  <2> QED BY <2>1, <2>2, AsideInv
<1>4. CASE /\ DOMAIN d.cgroups \subseteq Paths
           /\ nft' = Enrolment(DOMAIN d.cgroups)
           /\ mem' = [mem EXCEPT !.cgroups = d.cgroups, !.devices = d.plan]
           /\ To("servers")
  <2>1. d'.pc = "servers" /\ d'.batch = d.batch
    BY <1>4, FieldsD, SMT DEF To
  <2>2. DOMAIN mem' = DOMAIN mem /\ mem'.cgroups = d.cgroups /\ mem'.dispatch = mem.dispatch
    BY <1>4, SMT DEF RInv, TypesR
  <2>3. TypesR' /\ SliceInv' /\ BatchInv'
    BY <1>1, <2>1, <2>2, ClientsKeep
  <2>4. LiveInv'
    BY <1>1, <2>1, LiveKeeps DEF Switching, Emptied, Switched
  <2>5. \A c \in DOMAIN d.cgroups \cap Clients : nft'[c] = slice[c]
    BY <1>4, EnrolmentAssumption DEF Enrolment, Inode
  <2>6. Enrolling(mem.cgroups)' /\ Current'
    BY <1>1, <1>2, <2>2, <2>5 DEF Enrolling, Current
  <2>7. Covers(mem.cgroups)'
    BY <1>1, <1>2, <2>1, <2>2 DEF Covers
  <2>8. mem'.cgroups # None
    BY <1>2, <2>2, EnrolmentAssumption DEF Enrolling
  <2>9. EnrolInv'
    BY <2>1, <2>6, <2>7, <2>8 DEF EnrolInv
  <2>10. DispatchInv'
    BY <1>1, <2>1, <2>2 DEF RInv, DispatchInv, Informed
  <2> QED BY <2>3, <2>4, <2>9, <2>10 DEF RInv
<1> QED BY <1>3, <1>4 DEF Enroll

\* Going on with what is enrolled.
LEMMA LaterEnrol ==
    ASSUME RInv, Late, d'.pc # "enroll", d'.batch = d.batch,
           mem'.cgroups = mem.cgroups, UNCHANGED <<nft, slice, used>>
    PROVE  EnrolInv'
<1>1. mem.cgroups # None /\ Enrolling(mem.cgroups) /\ Current /\ Covers(mem.cgroups)
  BY DEF RInv, EnrolInv
<1>2. Enrolling(mem.cgroups)' /\ Current' /\ Covers(mem.cgroups)'
  BY <1>1 DEF Enrolling, Current, Covers
<1> QED BY <1>1, <1>2 DEF EnrolInv

LEMMA WriteServersStep == ASSUME RInv, IInv', Protected, WriteServers PROVE RInv'
<1>1. d.pc = "servers" /\ UNCHANGED <<nft, resolver, client, slice, used>>
  BY DEF WriteServers, others
<1>2. d'.pc = "observe" /\ d'.batch = d.batch
  BY FieldsD, SMT DEF WriteServers, To
<1>3. /\ DOMAIN mem' = DOMAIN mem /\ mem'.cgroups = mem.cgroups
      /\ \/ mem'.dispatch = None
         \/ mem'.dispatch = mem.dispatch /\ file' = file
  BY SMT DEF WriteServers, RInv, TypesR
<1>4. TypesR' /\ SliceInv' /\ BatchInv'
  BY <1>1, <1>2, <1>3, ClientsKeep
<1>5. LiveInv'
  BY <1>1, <1>2, LiveKeeps DEF Late, Switching, Emptied, Switched
<1>6. EnrolInv'
  BY <1>1, <1>2, <1>3, LaterEnrol DEF Late
<1>7. DispatchInv'
  BY <1>1, <1>2, <1>3 DEF RInv, DispatchInv, Informed
<1> QED BY <1>4, <1>5, <1>6, <1>7 DEF RInv

\* A resolver that is observed is the one that was enrolled, and listens.
LEMMA ObservedUp ==
    ASSUME Observed # None PROVE resolver.pc = "up" /\ Observed = resolver.gen
BY DEF Observed, Identified, Listening

LEMMA ObserveStep == ASSUME RInv, IInv', Protected, Observe PROVE RInv'
<1>1. d.pc = "observe" /\ UNCHANGED <<nft, file, resolver, client, slice, used>>
  BY DEF Observe, others
<1>2. /\ d'.batch = d.batch
      /\ \/ d'.pc = "answer"
         \/ d'.pc = "hup" /\ d'.seen = Observed /\ Observed # None
  <2>1. \/ Answerable(TRUE)
        \/ Observed # None /\ d' = [d EXCEPT !.seen = Observed, !.pc = "hup"]
    BY DEF Observe
  <2>2. CASE Answerable(TRUE)
    BY <2>2, FieldsD, SMT DEF Answerable
  <2>3. ASSUME NEW seen, d' = [d EXCEPT !.seen = seen, !.pc = "hup"]
        PROVE  d'.batch = d.batch /\ d'.pc = "hup" /\ d'.seen = seen
    BY <2>3, FieldsD, SMT
  <2> QED BY <2>1, <2>2, <2>3
<1>3. /\ DOMAIN mem' = DOMAIN mem /\ mem'.cgroups = mem.cgroups
      /\ mem'.dispatch = None \/ mem'.dispatch = mem.dispatch
  BY SMT DEF Observe, RInv, TypesR
<1>4. TypesR' /\ SliceInv' /\ BatchInv'
  BY <1>1, <1>2, <1>3, ClientsKeep
<1>5. LiveInv'
  BY <1>1, <1>2, LiveKeeps DEF Late, Switching, Emptied, Switched
<1>6. EnrolInv'
  BY <1>1, <1>2, <1>3, LaterEnrol DEF Late
<1>7. d'.pc = "hup" => d'.seen # None /\ d'.seen \in 0 .. resolver.gen
  BY <1>2, ObservedUp, SMT DEF RInv, TypesR
<1>8. DispatchInv'
  BY <1>1, <1>2, <1>3, <1>7 DEF RInv, DispatchInv, Informed
<1> QED BY <1>4, <1>5, <1>6, <1>8 DEF RInv

LEMMA SignalStep == ASSUME RInv, IInv', Protected, Signal PROVE RInv'
<1>1. d.pc = "hup" /\ UNCHANGED <<nft, file, mem, client, slice, used>>
  BY DEF Signal
<1>2. CASE Fails /\ UNCHANGED resolver
  <2>1. Early /\ d'.batch \subseteq d.batch
    BY <1>2, FailsEarly DEF Onwards
  <2>2. Aside /\ BatchInv'
    BY <1>1, <1>2, <2>1 DEF Aside, RInv, BatchInv
  <2> QED BY <2>1, <2>2, AsideInv
<1>3. CASE resolver' = [resolver EXCEPT !.hup = TRUE] /\ To("confirm")
  <2>1. d'.pc = "confirm" /\ d'.batch = d.batch /\ d'.seen = d.seen
    BY <1>3, FieldsD, SMT DEF To
  <2>2. DOMAIN resolver' = DOMAIN resolver /\ resolver'.gen = resolver.gen /\ resolver'.hup
    BY <1>3, SMT DEF RInv, TypesR
  <2>3. SliceInv' /\ BatchInv' /\ TypesR'
    BY <1>1, <2>1, <2>2, ClientsKeep DEF RInv, TypesR
  <2>4. LiveInv'
    BY <1>1, <2>1, LiveKeeps DEF Late, Switching, Emptied, Switched
  <2>5. EnrolInv'
    BY <1>1, <2>1, LaterEnrol DEF Late
  <2>6. Informed'
    BY <2>2 DEF Informed
  <2>7. DispatchInv'
    BY <1>1, <2>1, <2>2, <2>6 DEF RInv, DispatchInv
  <2> QED BY <2>3, <2>4, <2>5, <2>7 DEF RInv
<1> QED BY <1>2, <1>3 DEF Signal

LEMMA ConfirmStep == ASSUME RInv, IInv', Protected, Confirm PROVE RInv'
<1>1. d.pc = "confirm" /\ UNCHANGED <<nft, file, resolver, client, slice, used>>
  BY DEF Confirm, others
<1>2. CASE Fails /\ UNCHANGED mem
  <2>1. Early /\ d'.batch \subseteq d.batch
    BY <1>2, FailsEarly DEF Onwards
  <2>2. Aside /\ BatchInv'
    BY <1>1, <1>2, <2>1 DEF Aside, RInv, BatchInv
  <2> QED BY <2>1, <2>2, AsideInv
<1>3. CASE /\ Observed = d.seen
           /\ mem' = [mem EXCEPT !.dispatch = [servers |-> Servers, resolver |-> d.seen]]
           /\ Answerable(TRUE)
  <2>1. d'.pc = "answer" /\ d'.batch = d.batch
    BY <1>3, FieldsD, SMT DEF Answerable
  <2>2. /\ DOMAIN mem' = DOMAIN mem /\ mem'.cgroups = mem.cgroups
        /\ mem'.dispatch.resolver = d.seen
    BY <1>3, SMT DEF RInv, TypesR
  <2>3. TypesR' /\ SliceInv' /\ BatchInv'
    BY <1>1, <2>1, <2>2, ClientsKeep
  <2>4. LiveInv'
    BY <1>1, <2>1, LiveKeeps DEF Late, Switching, Emptied, Switched
  <2>5. EnrolInv'
    BY <1>1, <2>1, <2>2, LaterEnrol DEF Late
  <2>6. d.seen # None /\ d.seen \in 0 .. resolver.gen
    BY <1>1 DEF RInv, DispatchInv
  <2>7. Informed'
    BY <1>1, <1>3, <2>6, ObservedUp DEF RInv, DispatchInv, Informed
  <2>8. DispatchInv'
    BY <1>1, <2>1, <2>2, <2>6, <2>7 DEF DispatchInv
  <2> QED BY <2>3, <2>4, <2>5, <2>8 DEF RInv
<1> QED BY <1>2, <1>3 DEF Confirm
-----------------------------------------------------------------------------
(* Answers, restarts, and what the others do.                              *)
LEMMA AnswerStep == ASSUME RInv, IInv', Protected, Answer PROVE RInv'
<1>1. UNCHANGED <<nft, file, mem, slice, used>>
  BY DEF Answer
<1>2. d'.pc = "serve" /\ d'.batch = {}
  BY SMT DEF Answer, Down
<1>3. Early
  BY <1>2 DEF Early
<1>4. \A c \in Clients : client'[c] = client[c] \/ (c \in d.batch /\ client'[c] \in {"admitted", "waiting"})
  BY DEF Answer
<1>5. client' \in [Clients -> {"absent", "waiting", "asking", "admitted"}]
  BY DEF Answer, RInv, TypesR
<1>6. /\ DOMAIN resolver' = DOMAIN resolver /\ resolver'.gen = resolver.gen
      /\ resolver'.loaded = resolver.loaded /\ resolver'.hup = resolver.hup
      /\ resolver'.pc = "up" => resolver.pc = "up"
  BY SMT DEF Answer, RInv, TypesR
<1>7. TypesR'
  BY <1>1, <1>5, <1>6 DEF RInv, TypesR
<1>8. SliceInv'
  <2>1. \A c \in d.batch \cap Clients : client[c] # "absent"
    BY DEF RInv, BatchInv
  <2> QED BY <1>1, <1>4, <2>1 DEF RInv, SliceInv
<1>9. BatchInv'
  BY <1>2 DEF BatchInv
<1>10. LiveInv'
  BY <1>3, EarlyLive DEF RInv
<1>11. EnrolInv'
  BY <1>1, <1>3, EarlyEnrol DEF RInv
<1>12. DispatchInv'
  BY <1>1, <1>2, <1>6 DEF RInv, DispatchInv, Informed
<1> QED BY <1>7, <1>8, <1>9, <1>10, <1>11, <1>12 DEF RInv

LEMMA RestartStep == ASSUME RInv, IInv', Protected, StartDaemon \/ DaemonCrash PROVE RInv'
<1>1. nft' = nft /\ slice' = slice /\ mem' = Blank
  BY DEF StartDaemon, DaemonCrash, others
<1>2. d'.pc \in {"serve", "down"} /\ d'.batch = {}
  BY SMT DEF StartDaemon, DaemonCrash, Down
<1>3. DOMAIN mem' = DOMAIN mem /\ mem'.cgroups = None /\ mem'.dispatch = None
  BY <1>1 DEF Blank, RInv, TypesR
<1>4. DOMAIN used' = DOMAIN used /\ used'.slices = used.slices
  BY Spends DEF StartDaemon, DaemonCrash
<1>5. \/ client' = client
      \/ client' = [c \in Clients |-> IF client[c] = "asking" THEN "waiting" ELSE client[c]]
  BY DEF StartDaemon, DaemonCrash, others
<1>6. DOMAIN resolver' = DOMAIN resolver /\ resolver'.gen = resolver.gen
  BY SMT DEF StartDaemon, DaemonCrash, others, RInv, TypesR
<1>7. client' \in [Clients -> {"absent", "waiting", "asking", "admitted"}]
  BY <1>5 DEF RInv, TypesR
<1>8. TypesR'
  BY <1>1, <1>3, <1>4, <1>6, <1>7 DEF RInv, TypesR
<1>9. SliceInv'
  BY <1>1, <1>4, <1>5 DEF RInv, SliceInv
<1>10. BatchInv' /\ Early
  BY <1>2 DEF BatchInv, Early
<1>11. LiveInv'
  BY <1>10, EarlyLive DEF RInv
<1>12. EnrolInv'
  BY <1>2, <1>3 DEF EnrolInv, Late, Succeeded
<1>13. DispatchInv'
  BY <1>2, <1>3 DEF DispatchInv
<1> QED BY <1>8, <1>9, <1>10, <1>11, <1>12, <1>13 DEF RInv

\* The resolver is replaced, or knows no less of the file.
LEMMA ResolverStep ==
    ASSUME RInv, IInv', Protected, ResolverStart \/ ResolverListens \/ Reload \/ ResolverDies
    PROVE  RInv'
<1>1. UNCHANGED <<nft, file, d, mem, client, slice>>
  BY DEF ResolverStart, ResolverListens, Reload, ResolverDies
<1>2. DOMAIN used' = DOMAIN used /\ used'.slices = used.slices
  BY Spends DEF ResolverStart, ResolverListens, Reload, ResolverDies
<1>3. /\ DOMAIN resolver' = DOMAIN resolver
      /\ \/ resolver'.gen = resolver.gen + 1
         \/ resolver'.gen = resolver.gen /\ Informed'
  <2>1. DOMAIN resolver = {"pc", "gen", "loaded", "hup"}
    BY DEF RInv, TypesR
  <2>2. CASE resolver' = [pc |-> "starting", gen |-> resolver.gen + 1, loaded |-> None, hup |-> FALSE]
    BY <2>1, <2>2, SMT
  <2>3. CASE resolver' = [resolver EXCEPT !.pc = "asking"]
    BY <2>1, <2>3, SMT DEF Informed
  <2>4. CASE resolver' = [resolver EXCEPT !.pc = "up", !.loaded = file]
    BY <1>1, <2>1, <2>4, SMT DEF Informed
  <2>5. CASE resolver' = [resolver EXCEPT !.hup = FALSE, !.loaded = file]
    BY <1>1, <2>1, <2>5, SMT DEF Informed
  <2>6. CASE resolver' = [resolver EXCEPT !.pc = "down", !.hup = FALSE]
    BY <2>1, <2>6, SMT DEF Informed
  <2> QED BY <2>2, <2>3, <2>4, <2>5, <2>6 DEF ResolverStart, ResolverListens, Reload, ResolverDies
<1>4. resolver'.gen \in Nat /\ resolver'.gen >= resolver.gen
  BY <1>3, SMT DEF RInv, TypesR
<1>5. TypesR'
  BY <1>1, <1>2, <1>3, <1>4 DEF RInv, TypesR
<1>6. SliceInv' /\ BatchInv'
  BY <1>1, <1>2 DEF RInv, SliceInv, BatchInv
<1>7. Early
  BY <1>1, StaysEarly DEF Onwards
<1>8. LiveInv'
  BY <1>7, EarlyLive DEF RInv
<1>9. EnrolInv'
  BY <1>1, <1>2, <1>7, EarlyEnrol DEF RInv
<1>10. \A g \in 0 .. resolver.gen : g \in 0 .. resolver'.gen /\ (g = resolver'.gen => Informed')
  BY <1>3, <1>4, SMT DEF RInv, TypesR
<1>11. DispatchInv'
  BY <1>1, <1>10 DEF RInv, DispatchInv
<1> QED BY <1>5, <1>6, <1>8, <1>9, <1>11 DEF RInv

\* A slice that is new or gone was never enrolled, and nobody in the batch has it.
LEMMA SliceChanges ==
    ASSUME RInv, NEW c \in Clients, client[c] # "asking",
           NEW n \in Nat \ (1 .. used.slices), slice' = [slice EXCEPT ![c] = n],
           used'.slices \in Nat, used'.slices >= used.slices, UNCHANGED <<d, mem, nft>>
    PROVE  EnrolInv'
<1>1. \A k \in Clients : slice'[k] = IF k = c THEN n ELSE slice[k]
  BY DEF RInv, TypesR
<1>2. c \notin d.batch
  BY DEF RInv, BatchInv
<1>3. Covers(mem.cgroups) => Covers(mem.cgroups)'
  BY <1>1, <1>2 DEF Covers
<1>4. Covers(d.cgroups) => Covers(d.cgroups)'
  BY <1>1, <1>2 DEF Covers
<1>5. 1 .. used.slices \subseteq 1 .. used'.slices
  BY SMT DEF RInv, TypesR
<1>6. Enrolling(d.cgroups) => Enrolling(d.cgroups)'
  BY <1>5 DEF Enrolling
<1>7. Enrolling(mem.cgroups) => Enrolling(mem.cgroups)'
  BY <1>5 DEF Enrolling
<1>8. Enrolling(mem.cgroups) /\ Current => Current'
  BY <1>1 DEF Enrolling, Current
<1>9. Late' = Late
  BY DEF Late, Succeeded
<1> QED BY <1>3, <1>4, <1>6, <1>7, <1>8, <1>9 DEF RInv, EnrolInv

LEMMA ClientStep ==
    ASSUME RInv, IInv', Protected, NEW c \in Clients,
           ClientStart(c) \/ Ask(c) \/ GiveUp(c) \/ ClientStop(c)
    PROVE  RInv'
<1>1. UNCHANGED <<nft, file, mem, resolver>>
  BY DEF ClientStart, Ask, GiveUp, ClientStop
<1>2. /\ UNCHANGED <<d.pc, d.fam, d.ok, d.cgroups, d.seen>>
      /\ d'.batch \subseteq d.batch /\ (GiveUp(c) => c \notin d'.batch)
  BY FieldsD, SMT DEF ClientStart, Ask, GiveUp, ClientStop
<1>3. Early
  BY <1>2 DEF Early
<1>4. LiveInv' /\ DispatchInv'
  BY <1>1, <1>3, EarlyLive, EarlyDispatch DEF RInv
<1>5. PICK v \in {"absent", "waiting", "asking"} : client' = [client EXCEPT ![c] = v]
  BY DEF ClientStart, Ask, GiveUp, ClientStop
<1>6. \A k \in Clients : client'[k] = IF k = c THEN v ELSE client[k]
  BY <1>5 DEF RInv, TypesR
<1>7. client' \in [Clients -> {"absent", "waiting", "asking", "admitted"}]
  BY <1>5 DEF RInv, TypesR
<1>8. BatchInv'
  <2>1. CASE GiveUp(c)
    BY <1>2, <1>6, <2>1 DEF RInv, BatchInv
  <2>2. CASE ~GiveUp(c)
    <3>1. client[c] # "asking"
      BY <2>2, SMT DEF ClientStart, Ask, ClientStop
    <3> QED BY <1>2, <1>6, <3>1 DEF RInv, BatchInv
  <2> QED BY <2>1, <2>2
<1>9. CASE Ask(c) \/ GiveUp(c)
  <2>1. slice' = slice /\ v # "absent" /\ client[c] # "absent"
    BY <1>5, <1>9, SMT DEF Ask, GiveUp, RInv, TypesR
  <2>2. DOMAIN used' = DOMAIN used /\ used'.slices = used.slices
    BY <1>9, Spends DEF Ask, GiveUp
  <2>3. TypesR' /\ SliceInv'
    BY <1>1, <1>6, <1>7, <2>1, <2>2 DEF RInv, TypesR, SliceInv
  <2>4. EnrolInv'
    BY <1>1, <1>3, <2>1, <2>2, EarlyEnrol DEF RInv
  <2> QED BY <1>4, <1>8, <2>3, <2>4 DEF RInv
<1>10. CASE ClientStart(c)
  <2>1. /\ d' = d /\ client[c] = "absent" /\ slice' = [slice EXCEPT ![c] = used.slices + 1]
        /\ used' = [used EXCEPT !.slices = @ + 1]
    BY <1>10 DEF ClientStart
  <2>2. DOMAIN used' = DOMAIN used /\ used'.slices = used.slices + 1 /\ used.slices \in Nat
    BY <2>1, SMT DEF RInv, TypesR
  <2>3. /\ used.slices + 1 \in Nat \ (1 .. used.slices) /\ used.slices + 1 # 0
        /\ used'.slices \in Nat /\ used'.slices >= used.slices
    BY <2>2, SMT
  <2>4. EnrolInv'
    BY <1>1, <2>1, <2>3, SliceChanges
  <2>5. TypesR'
    BY <1>1, <1>7, <2>1, <2>2, <2>3 DEF RInv, TypesR
  <2>6. \A k \in Clients : slice'[k] = IF k = c THEN used.slices + 1 ELSE slice[k]
    BY <2>1 DEF RInv, TypesR
  <2>7. SliceInv'
    <3>1. \A k \in Clients : slice[k] \in Nat /\ slice[k] <= used.slices
      BY DEF RInv, TypesR, SliceInv
    <3> QED BY <1>6, <2>2, <2>6, <3>1, SMT DEF RInv, SliceInv
  <2> QED BY <1>4, <1>8, <2>4, <2>5, <2>7 DEF RInv
<1>11. CASE ClientStop(c)
  <2>1. /\ d' = d /\ client[c] # "asking" /\ slice' = [slice EXCEPT ![c] = 0] /\ v = "absent"
    BY <1>5, <1>6, <1>11, SMT DEF ClientStop, RInv, TypesR
  <2>2. DOMAIN used' = DOMAIN used /\ used'.slices = used.slices /\ used.slices \in Nat
    BY <1>11, Spends DEF ClientStop, RInv, TypesR
  <2>3. 0 \in Nat \ (1 .. used.slices) /\ used'.slices \in Nat /\ used'.slices >= used.slices
    BY <2>2, SMT
  <2>4. EnrolInv'
    BY <1>1, <2>1, <2>3, SliceChanges
  <2>5. TypesR'
    BY <1>1, <1>7, <2>1, <2>2 DEF RInv, TypesR
  <2>6. \A k \in Clients : slice'[k] = IF k = c THEN 0 ELSE slice[k]
    BY <2>1 DEF RInv, TypesR
  <2>7. SliceInv'
    BY <1>6, <2>1, <2>2, <2>6, SMT DEF RInv, SliceInv
  <2> QED BY <1>4, <1>8, <2>4, <2>5, <2>7 DEF RInv
<1> QED BY <1>9, <1>10, <1>11
-----------------------------------------------------------------------------
\* Nobody waits and nothing is enrolled at first.
LEMMA InitReady == Init => RInv
<1> SUFFICES ASSUME Init PROVE RInv OBVIOUS
<1>1. d.pc = "down" /\ d.batch = {} /\ mem = Blank
  BY SMT DEF Init, Down
<1>2. mem.cgroups = None /\ mem.dispatch = None
  BY <1>1 DEF Blank
<1>3. TypesR
  BY <1>1, SMT DEF Init, Blank, TypesR
<1>4. SliceInv
  BY SMT DEF Init, SliceInv
<1>5. BatchInv /\ LiveInv /\ EnrolInv /\ DispatchInv
  BY <1>1, <1>2, SMT DEF BatchInv, LiveInv, EnrolInv, DispatchInv, Late, Succeeded, Switching,
                         Emptied, Switched
<1> QED BY <1>3, <1>4, <1>5, InitInv DEF RInv

LEMMA StepReady == ASSUME RInv, [Next]_vars PROVE RInv'
<1>1. CASE Next
  <2>1. IInv' /\ Protected
    BY <1>1, StepInv DEF RInv
  <2>2. CASE DaemonStep
    BY <2>1, <2>2, AsideSteps, ReadCgroupsStep, EnrollStep, WriteServersStep, ObserveStep,
       SignalStep, ConfirmStep, AnswerStep DEF DaemonStep
  <2>3. CASE CommandFails \/ UplinkMoves \/ ForeignComes \/ ForeignLeaves \/ NftFlushed
    BY <2>1, <2>3, AsideSteps
  <2>4. CASE \/ StartDaemon \/ DaemonCrash
             \/ ResolverStart \/ ResolverListens \/ Reload \/ ResolverDies
             \/ \E c \in Clients : ClientStart(c) \/ Ask(c) \/ GiveUp(c) \/ ClientStop(c)
    BY <2>1, <2>4, RestartStep, ResolverStep, ClientStep
  <2> QED BY <1>1, <2>2, <2>3, <2>4 DEF Next
<1>2. CASE UNCHANGED vars
  <2>1. IInv' /\ Protected
    BY <1>2, StutterInv DEF RInv
  <2>2. Aside /\ Onwards
    BY <1>2, StaysEarly DEF vars, others, Aside
  <2>3. BatchInv'
    BY <1>2 DEF vars, others, RInv, BatchInv
  <2> QED BY <2>1, <2>2, <2>3, AsideInv DEF Onwards
<1> QED BY <1>1, <1>2

LEMMA ReadyInvariance == Spec => []RInv
BY InitReady, StepReady, PTL DEF Spec

\* Only answers admit.
LEMMA OnlyAnswers ==
    ASSUME RInv, [Next]_vars, NEW c \in Clients, client[c] = "asking", client'[c] = "admitted"
    PROVE  Answer
<1>1. ASSUME NEW k \in Clients, ClientStart(k) \/ Ask(k) \/ GiveUp(k) \/ ClientStop(k)
      PROVE  client'[c] # "admitted"
  <2>1. PICK v \in {"absent", "waiting", "asking"} : client' = [client EXCEPT ![k] = v]
    BY <1>1 DEF ClientStart, Ask, GiveUp, ClientStop
  <2> QED BY <2>1, SMT DEF RInv, TypesR
<1>2. ASSUME DaemonCrash PROVE client'[c] # "admitted"
  BY <1>2 DEF DaemonCrash
<1>3. ASSUME client' = client PROVE FALSE
  BY <1>3
<1>4. ASSUME DaemonStep PROVE client' = client \/ Answer
  BY <1>4 DEF DaemonStep, Accept, Plan, Choose, DeleteStale, Clear, Flush, AddRoute, AddFallback,
              AddDirect, AddLocal, DeleteOld, ReadCgroups, Enroll, WriteServers, Observe, Signal,
              Confirm, others
<1>5. ASSUME \/ CommandFails \/ StartDaemon \/ ResolverStart \/ ResolverListens \/ Reload
             \/ ResolverDies \/ UplinkMoves \/ ForeignComes \/ ForeignLeaves \/ NftFlushed
             \/ UNCHANGED vars
      PROVE  client' = client
  BY <1>5 DEF CommandFails, StartDaemon, ResolverStart, ResolverListens, Reload, ResolverDies,
              UplinkMoves, ForeignComes, ForeignLeaves, NftFlushed, vars, others
<1> QED BY <1>1, <1>2, <1>3, <1>4, <1>5 DEF Next

\* A workload that serve (src/direct_network.rs) tells that it is ready has its
\* slice enrolled as it is and the exception in force, and the resolver runs on
\* the servers file of now, whatever was restarted, replaced or failed while the
\* reconciliation ran.
THEOREM AdmittedIsReady == Spec => ReadyIsTrue
<1> DEFINE Admits(c) == client[c] = "asking" /\ client'[c] = "admitted"
           Warranted(c) ==
             /\ RulesLive
             /\ mem.cgroups[c] = slice[c] /\ (nft # None => nft[c] = slice[c])
             /\ resolver.pc = "up" /\ (resolver.hup \/ resolver.loaded = file)
<1>1. ASSUME RInv, [Next]_vars, NEW c \in Clients, Admits(c) PROVE Warranted(c)
  <2>1. Answer
    BY <1>1, OnlyAnswers
  <2>2. c \in d.batch /\ Ready
    BY <1>1, <2>1 DEF Answer
  <2>3. Late
    BY <2>1, <2>2 DEF Answer, Ready, Late, Succeeded
  <2>4. RulesLive
    BY <1>1, <2>3 DEF RInv, LiveInv
  <2>5. mem.cgroups # None /\ Covers(mem.cgroups) /\ Current
    BY <1>1, <2>3 DEF RInv, EnrolInv
  <2>6. mem.cgroups[c] = slice[c] /\ (nft # None => nft[c] = slice[c])
    BY <1>1, <2>2, <2>5 DEF Covers, Current
  <2>7. Observed # None /\ mem.dispatch.resolver = Observed /\ Informed
    BY <1>1, <2>2, ObservedUp DEF Ready, RInv, DispatchInv
  <2> QED BY <2>4, <2>6, <2>7, ObservedUp DEF Informed
<1>2. RInv /\ [Next]_vars => [\A c \in Clients : Admits(c) => Warranted(c)]_vars
  BY <1>1
<1> QED BY ReadyInvariance, <1>2, PTL DEF Spec, ReadyIsTrue
=============================================================================
