--------------------------- MODULE DirectNetwork ---------------------------
(***************************************************************************)
(* The direct-network daemon (src/direct_network.rs, src/direct_network/    *)
(* dns.rs) with the kernel state it owns, the resolver whose start waits   *)
(* for it, and the workloads whose start asks it for readiness.            *)
(*                                                                         *)
(* For each family the daemon keeps two tables and moves the policy rules  *)
(* from one to the other: it empties the one that is not in force, fills   *)
(* it line by line, and only then changes the rules, one command at a time.*)
(* A crash leaves the kernel as it is and forgets what the daemon knew.    *)
(*                                                                         *)
(* An uplink stands for its routes, of which one is local: entry u of a    *)
(* table is the route of uplink u.  Links and routes are read at once.     *)
(* Other owners may put a route of theirs into a table; their policy rules *)
(* are left out, and so are peers that may not ask.                        *)
(***************************************************************************)
EXTENDS Naturals, FiniteSets

CONSTANTS
    None,
    Tables,    \* the two reserved tables
    Uplinks,   \* links whose routes can be replayed
    Clients,   \* workloads, each in a slice of its own
    MaxMoves,  \* bound: changes of the uplink, foreign routes, restarted workloads
    MaxFaults  \* bound: crashes, failed commands, deaths of the resolver

ASSUME NetworkAssumption ==
    /\ MaxMoves \in Nat /\ MaxFaults \in Nat
    /\ \E a, b \in Tables : a # b /\ Tables = {a, b}
    /\ (Uplinks \cup {None}) \cap {"odd", "foreign", "fallback"} = {}

\* The resolver's cgroup is not a workload's slice, and no enrolment is the absent one.
ASSUME EnrolmentAssumption ==
    /\ "dns" \notin Clients
    /\ \A S \in SUBSET (Clients \cup {"dns"}) : None \notin [S -> Nat]

VARIABLES
    table,    \* of each family and table: its routes
    direct,   \* of each family: the tables with a live priority 50 rule
    oldest,   \* of each family: the table of the first of them
    local,    \* of each family: the tables with live priority 49 rules
    nft,      \* the enrolment in force: the inode of each path, or None
    file,     \* the servers file
    d,        \* what the daemon is doing
    mem,      \* what it remembers between reconciliations
    uplink,   \* the uplink of the main tables: none, supported or "odd"
    foreign,  \* the tables where another owner keeps a route
    resolver, \* the resolver's process
    client,   \* what each workload is doing
    slice,    \* the inode of the slice of each workload
    used      \* what was spent of the bounds

kernel == <<table, direct, oldest, local>>
others == <<uplink, foreign, resolver, client, slice>>
vars == <<kernel, nft, file, d, mem, others, used>>

Families == {"v4", "v6"}
Other(t) == CHOOSE u \in Tables : u # t

Down == [pc |-> "down", fam |-> None, table |-> None, old |-> {}, plan |-> None,
         cgroups |-> None, present |-> FALSE, seen |-> None, batch |-> {}, ok |-> FALSE]
Blank == [snapshot |-> "unset", cgroups |-> None, devices |-> "unset", dispatch |-> None]

Init ==
    /\ table = [f \in Families |-> [t \in Tables |-> {}]]
    /\ direct = [f \in Families |-> {}] /\ local = [f \in Families |-> {}]
    /\ oldest = [f \in Families |-> None]
    /\ nft = None /\ file = None /\ d = Down /\ mem = Blank
    /\ uplink \in Uplinks /\ foreign = {}
    /\ resolver = [pc |-> "down", gen |-> 0, loaded |-> None, hup |-> FALSE]
    /\ client = [c \in Clients |-> "absent"] /\ slice = [c \in Clients |-> 0]
    /\ used = [moves |-> 0, faults |-> 0, slices |-> 0]

Moved == used.moves < MaxMoves /\ used' = [used EXCEPT !.moves = @ + 1]
Fault == used.faults < MaxFaults /\ used' = [used EXCEPT !.faults = @ + 1]

-----------------------------------------------------------------------------
(* Reads.                                                                  *)

\* check_reservations: no route of another owner in either table of either family.
Reserved == \A f \in Families, t \in Tables : "foreign" \notin table[f][t]

\* active_cgroups: the paths that exist, with their inodes.
Paths == {c \in Clients : slice[c] # 0} \cup (IF resolver.pc = "down" THEN {} ELSE {"dns"})
Inode(path) == IF path = "dns" THEN resolver.gen ELSE slice[path]
ActiveCgroups == [path \in Paths |-> Inode(path)]

\* The unit has a main process, in the cgroup that was enrolled.
MainProcess == resolver.pc \in {"loading", "up"}
Identified ==
    /\ MainProcess /\ mem.cgroups # None
    /\ "dns" \in DOMAIN mem.cgroups /\ mem.cgroups["dns"] = resolver.gen

\* It owns its listeners only some time after it was started.
Listening == resolver.pc = "up"

\* observe: the identity of a resolver that can be relied on.
Observed == IF Identified /\ Listening THEN resolver.gen ELSE None

\* select_routes: what is replayed, or the refusal of everything.
Refused == uplink = "odd"
Selected == uplink

\* own_rule: a family's marked traffic has a live rule of the daemon's own.
Live(f) == direct[f] # {}

\* Mutant: the table of the newest rule is filled again.
InactiveNewest(f) == LET first == CHOOSE t \in Tables : TRUE
                     IN  IF Live(f) THEN oldest[f] ELSE first

\* own_rule, and the choice of the table to fill.
Inactive(f) == LET first == CHOOSE t \in Tables : TRUE
               IN  IF Live(f) THEN Other(oldest[f]) ELSE first

-----------------------------------------------------------------------------
(* One reconciliation.                                                     *)

To(pc) == d' = [d EXCEPT !.pc = pc]
Answerable(ok) == d' = [d EXCEPT !.pc = "answer", !.ok = ok]
Fails == Answerable(FALSE)

Queue == {c \in Clients : client[c] = "asking"}
         \cup (IF resolver.pc = "asking" THEN {"dns"} ELSE {})

\* serve: every queued request is accepted, then the state is reconciled once.
Accept ==
    /\ d.pc = "serve"
    /\ d' = [d EXCEPT !.pc = "plan", !.batch = Queue]
    /\ UNCHANGED <<kernel, nft, file, mem, others, used>>

RulesLive == \A f \in Families : Live(f)

\* reconcile: what the main tables say is selected, or refused as a whole.
Plan ==
    /\ d.pc = "plan"
    /\ IF Refused \/ ~Reserved THEN Fails
       ELSE d' = [d EXCEPT !.plan = Selected, !.fam = "v4",
                           !.pc = IF mem.snapshot # Selected \/ ~RulesLive
                                  THEN "choose" ELSE "cgroups"]
    /\ UNCHANGED <<kernel, nft, file, mem, others, used>>

\* switch_routes: the table that is not in force.
Choose ==
    /\ d.pc = "choose"
    /\ IF Reserved THEN d' = [d EXCEPT !.table = Inactive(d.fam), !.pc = "stale"] ELSE Fails
    /\ UNCHANGED <<kernel, nft, file, mem, others, used>>

\* delete_rule, for the rules of one table; those of priority 49 are listed first.
DeleteRule(f, t) ==
    IF t \in local[f]
    THEN local' = [local EXCEPT ![f] = @ \ {t}] /\ UNCHANGED <<direct, oldest>>
    ELSE /\ direct' = [direct EXCEPT ![f] = @ \ {t}]
         /\ oldest' = [oldest EXCEPT ![f] = IF direct[f] \ {t} = {} THEN None
                                            ELSE IF @ = t THEN Other(t) ELSE @]
         /\ UNCHANGED local

\* Mutant: only the direct rule is taken back.
DeleteStaleDirect ==
    /\ d.pc = "stale"
    /\ IF d.table \in direct[d.fam]
       THEN /\ direct' = [direct EXCEPT ![d.fam] = @ \ {d.table}]
            /\ oldest' = [oldest EXCEPT ![d.fam] = IF direct[d.fam] = {d.table} THEN None
                                                   ELSE Other(d.table)]
            /\ UNCHANGED <<d, local>>
       ELSE To("clear") /\ UNCHANGED <<direct, oldest, local>>
    /\ UNCHANGED <<table, nft, file, mem, others, used>>

\* Recovery of an interrupted switch: no rule is left on the table to be filled.
DeleteStale ==
    /\ d.pc = "stale"
    /\ IF d.table \in direct[d.fam] \cup local[d.fam]
       THEN DeleteRule(d.fam, d.table) /\ UNCHANGED d
       ELSE To("clear") /\ UNCHANGED <<direct, oldest, local>>
    /\ UNCHANGED <<table, nft, file, mem, others, used>>

SetTable(routes) == table' = [table EXCEPT ![d.fam][d.table] = routes]
Filled == table[d.fam][d.table]

\* Mutant: the fallback is left to the flush.
RetainedNone(f) == {}

\* remove_retained_fallback: a flush of IPv6 leaves the fallback, so it goes first.
Retained(f) == IF f = "v6" THEN {"fallback"} ELSE {}

Clear ==
    /\ d.pc = "clear"
    /\ IF Reserved THEN SetTable(Filled \ Retained(d.fam)) /\ To("flush")
       ELSE Fails /\ UNCHANGED table
    /\ UNCHANGED <<direct, oldest, local, nft, file, mem, others, used>>

\* Mutant: the table is flushed whatever the protocol.
FlushAll ==
    /\ d.pc = "flush" /\ SetTable({}) /\ To("route")
    /\ UNCHANGED <<direct, oldest, local, nft, file, mem, others, used>>

\* The batch of route_batch: only routes of the daemon's own protocol are flushed.
Flush ==
    /\ d.pc = "flush"
    /\ SetTable(Filled \cap ({"foreign"} \cup (IF d.fam = "v6" THEN {"fallback"} ELSE {})))
    /\ To("route")
    /\ UNCHANGED <<direct, oldest, local, nft, file, mem, others, used>>

\* A route of a link that went away cannot be added, and ends the batch.
AddRoute ==
    /\ d.pc = "route"
    /\ IF d.plan = None THEN To("fallback") /\ UNCHANGED table
       ELSE IF d.plan = uplink THEN SetTable(Filled \cup {d.plan}) /\ To("fallback")
       ELSE Fails /\ UNCHANGED table
    /\ UNCHANGED <<direct, oldest, local, nft, file, mem, others, used>>

\* The unreachable default is added last, and only where there is none.
AddFallback ==
    /\ d.pc = "fallback"
    /\ IF "fallback" \in Filled THEN Fails /\ UNCHANGED table
       ELSE SetTable(Filled \cup {"fallback"}) /\ To("direct")
    /\ UNCHANGED <<direct, oldest, local, nft, file, mem, others, used>>

\* The rules in force are noted and the new table joins them.
AddDirect ==
    /\ d.pc = "direct"
    /\ IF Reserved
       THEN /\ d' = [d EXCEPT !.old = direct[d.fam] \cup local[d.fam], !.pc = "local"]
            /\ direct' = [direct EXCEPT ![d.fam] = @ \cup {d.table}]
            /\ oldest' = [oldest EXCEPT ![d.fam] = IF direct[d.fam] = {} THEN d.table ELSE @]
       ELSE Fails /\ UNCHANGED <<direct, oldest>>
    /\ UNCHANGED <<table, local, nft, file, mem, others, used>>

AddLocal ==
    /\ d.pc = "local" /\ To("old")
    /\ local' = IF d.plan = None THEN local ELSE [local EXCEPT ![d.fam] = @ \cup {d.table}]
    /\ UNCHANGED <<table, direct, oldest, nft, file, mem, others, used>>

\* The rules that were noted are deleted; then the next family, or done.
DeleteOld ==
    /\ d.pc = "old"
    /\ \/ \E t \in d.old :
             /\ t \in direct[d.fam] \cup local[d.fam]
             /\ DeleteRule(d.fam, t)
             /\ UNCHANGED <<d, mem>>
       \/ /\ d.old \cap (direct[d.fam] \cup local[d.fam]) = {}
          /\ IF d.fam = "v4"
             THEN d' = [d EXCEPT !.fam = "v6", !.pc = "choose"] /\ UNCHANGED mem
             ELSE To("cgroups") /\ mem' = [mem EXCEPT !.snapshot = d.plan]
          /\ UNCHANGED <<direct, oldest, local>>
    /\ UNCHANGED <<table, nft, file, others, used>>

\* Mutant: only the paths are compared.
EnrolledPaths(cgroups) == mem.cgroups # None /\ DOMAIN mem.cgroups = DOMAIN cgroups

\* What is enrolled must be what exists, inode by inode.
Enrolled(cgroups) == mem.cgroups = cgroups

ReadCgroups ==
    /\ d.pc = "cgroups"
    /\ d' = [d EXCEPT !.cgroups = ActiveCgroups, !.present = nft # None,
                      !.pc = IF /\ nft # None /\ Enrolled(ActiveCgroups)
                                /\ mem.devices = d.plan
                             THEN "servers" ELSE "enroll"]
    /\ UNCHANGED <<kernel, nft, file, mem, others, used>>

\* nft_rules name paths; what the load enrols is what they are when it is made.
Enrolment(paths) == [path \in paths |-> Inode(path)]

\* Each path must still exist, and the old rules as they were found.
Enroll ==
    /\ d.pc = "enroll"
    /\ IF DOMAIN d.cgroups \subseteq Paths /\ d.present = (nft # None)
       THEN /\ nft' = Enrolment(DOMAIN d.cgroups)
            /\ mem' = [mem EXCEPT !.cgroups = d.cgroups, !.devices = d.plan]
            /\ To("servers")
       ELSE Fails /\ UNCHANGED <<nft, mem>>
    /\ UNCHANGED <<kernel, file, others, used>>

\* sync_dns_servers: the file follows the uplink's servers.
Servers == <<d.plan>>

WriteServers ==
    /\ d.pc = "servers"
    /\ IF file = Servers THEN UNCHANGED <<file, mem>>
       ELSE file' = Servers /\ mem' = [mem EXCEPT !.dispatch = None]
    /\ To("observe")
    /\ UNCHANGED <<kernel, nft, others, used>>

Dispatched(seen) == mem.dispatch = [servers |-> Servers, resolver |-> seen]

\* A resolver that is missing or starting does not fail the reconciliation.
Observe ==
    /\ d.pc = "observe"
    /\ LET seen == Observed
       IN  /\ mem' = IF seen # None /\ Dispatched(seen) THEN mem
                     ELSE [mem EXCEPT !.dispatch = None]
           /\ IF seen = None \/ Dispatched(seen) THEN Answerable(TRUE)
              ELSE d' = [d EXCEPT !.seen = seen, !.pc = "hup"]
    /\ UNCHANGED <<kernel, nft, file, others, used>>

\* The unit's main process, whichever it is by now, is signalled.
Signal ==
    /\ d.pc = "hup"
    /\ IF MainProcess
       THEN resolver' = [resolver EXCEPT !.hup = TRUE] /\ To("confirm")
       ELSE Fails /\ UNCHANGED resolver
    /\ UNCHANGED <<kernel, nft, file, mem, uplink, foreign, client, slice, used>>

Confirm ==
    /\ d.pc = "confirm"
    /\ IF Observed = d.seen
       THEN /\ mem' = [mem EXCEPT !.dispatch = [servers |-> Servers, resolver |-> d.seen]]
            /\ Answerable(TRUE)
       ELSE Fails /\ UNCHANGED mem
    /\ UNCHANGED <<kernel, nft, file, others, used>>

\* Routes are ready when the reconciliation succeeded; a workload is told so only
\* while the dispatch is to the file and the process that are there.
Ready ==
    /\ d.ok /\ mem.dispatch # None
    /\ file = mem.dispatch.servers /\ Observed = mem.dispatch.resolver

Answer ==
    /\ d.pc = "answer"
    /\ client' = [c \in Clients |->
                    IF c \notin d.batch THEN client[c]
                    ELSE IF Ready THEN "admitted" ELSE "waiting"]
    /\ resolver' = IF "dns" \notin d.batch THEN resolver
                   ELSE IF d.ok THEN [resolver EXCEPT !.pc = "loading"]
                   ELSE [resolver EXCEPT !.pc = "starting"]
    /\ d' = [Down EXCEPT !.pc = "serve"]
    /\ UNCHANGED <<kernel, nft, file, mem, uplink, foreign, slice, used>>

\* A command of the reconciliation fails.
CommandFails ==
    /\ d.pc \notin {"down", "serve", "answer"} /\ Fault /\ Fails
    /\ UNCHANGED <<kernel, nft, file, mem, others>>

DaemonStep ==
    \/ Accept \/ Plan \/ Choose \/ DeleteStale \/ Clear \/ Flush \/ AddRoute
    \/ AddFallback \/ AddDirect \/ AddLocal \/ DeleteOld \/ ReadCgroups \/ Enroll
    \/ WriteServers \/ Observe \/ Signal \/ Confirm \/ Answer

-----------------------------------------------------------------------------
(* systemd: the daemon, the resolver and the workloads.                    *)

\* The daemon binds its socket only in a namespace it has to itself.
StartDaemon ==
    /\ d.pc = "down" /\ Reserved
    /\ d' = [Down EXCEPT !.pc = "serve"] /\ mem' = Blank
    /\ UNCHANGED <<kernel, nft, file, others, used>>

\* The runtime directory goes with the service; whoever waits is refused.
DaemonCrash ==
    /\ d.pc # "down" /\ Fault
    /\ d' = Down /\ mem' = Blank /\ file' = None
    /\ client' = [c \in Clients |-> IF client[c] = "asking" THEN "waiting" ELSE client[c]]
    /\ resolver' = IF resolver.pc = "asking" THEN [resolver EXCEPT !.pc = "starting"]
                   ELSE resolver
    /\ UNCHANGED <<kernel, nft, uplink, foreign, slice>>

\* The resolver's unit has a new cgroup on every start, and asks for the routes.
ResolverStart ==
    /\ \/ /\ resolver.pc = "down"
          /\ resolver' = [pc |-> "starting", gen |-> resolver.gen + 1,
                          loaded |-> None, hup |-> FALSE]
       \/ /\ resolver.pc = "starting" /\ d.pc # "down"
          /\ resolver' = [resolver EXCEPT !.pc = "asking"]
    /\ UNCHANGED <<kernel, nft, file, d, mem, uplink, foreign, client, slice, used>>

\* It reads the servers file and then listens.
ResolverListens ==
    /\ resolver.pc = "loading"
    /\ resolver' = [resolver EXCEPT !.pc = "up", !.loaded = file]
    /\ UNCHANGED <<kernel, nft, file, d, mem, uplink, foreign, client, slice, used>>

Reload ==
    /\ resolver.hup /\ resolver.pc = "up"
    /\ resolver' = [resolver EXCEPT !.hup = FALSE, !.loaded = file]
    /\ UNCHANGED <<kernel, nft, file, d, mem, uplink, foreign, client, slice, used>>

ResolverDies ==
    /\ MainProcess /\ Fault
    /\ resolver' = [resolver EXCEPT !.pc = "down", !.hup = FALSE]
    /\ UNCHANGED <<kernel, nft, file, d, mem, uplink, foreign, client, slice>>

\* A workload starts in a slice of its own, asks, and asks again when refused.
ClientStart(c) ==
    /\ client[c] = "absent"
    /\ used' = [used EXCEPT !.slices = @ + 1]
    /\ slice' = [slice EXCEPT ![c] = used.slices + 1]
    /\ client' = [client EXCEPT ![c] = "waiting"]
    /\ UNCHANGED <<kernel, nft, file, d, mem, uplink, foreign, resolver>>

Ask(c) ==
    /\ client[c] = "waiting" /\ d.pc # "down"
    /\ client' = [client EXCEPT ![c] = "asking"]
    /\ UNCHANGED <<kernel, nft, file, d, mem, uplink, foreign, resolver, slice, used>>

\* A client that waited long enough: its answer reaches nobody.
GiveUp(c) ==
    /\ client[c] = "asking" /\ Fault
    /\ client' = [client EXCEPT ![c] = "waiting"]
    /\ d' = [d EXCEPT !.batch = @ \ {c}]
    /\ UNCHANGED <<kernel, nft, file, mem, uplink, foreign, resolver, slice>>

ClientStop(c) ==
    /\ client[c] \in {"waiting", "admitted"} /\ Moved
    /\ client' = [client EXCEPT ![c] = "absent"] /\ slice' = [slice EXCEPT ![c] = 0]
    /\ UNCHANGED <<kernel, nft, file, d, mem, uplink, foreign, resolver>>

-----------------------------------------------------------------------------
(* The host around them.                                                   *)

\* The kernel takes the routes of a link that goes away out of every table.
UplinkMoves ==
    /\ Moved
    /\ \E u \in (Uplinks \cup {None, "odd"}) \ {uplink} : uplink' = u
    /\ table' = [f \in Families |-> [t \in Tables |-> table[f][t] \ {uplink}]]
    /\ UNCHANGED <<direct, oldest, local, nft, file, d, mem, foreign, resolver, client, slice>>

ForeignComes ==
    /\ Moved
    /\ \E f \in Families, t \in Tables :
          /\ foreign' = foreign \cup {<<f, t>>} /\ <<f, t>> \notin foreign
          /\ table' = [table EXCEPT ![f][t] = @ \cup {"foreign"}]
    /\ UNCHANGED <<direct, oldest, local, nft, file, d, mem, uplink, resolver, client, slice>>

ForeignLeaves ==
    \E f \in Families, t \in Tables :
        /\ <<f, t>> \in foreign /\ foreign' = foreign \ {<<f, t>>}
        /\ table' = [table EXCEPT ![f][t] = @ \ {"foreign"}]
        /\ UNCHANGED <<direct, oldest, local, nft, file, d, mem, uplink, resolver, client,
                       slice, used>>

\* Another service reloads the packet filter from nothing.
NftFlushed ==
    /\ nft # None /\ Fault /\ nft' = None
    /\ UNCHANGED <<kernel, file, d, mem, others>>

Next ==
    \/ DaemonStep \/ CommandFails \/ StartDaemon \/ DaemonCrash
    \/ ResolverStart \/ ResolverListens \/ Reload \/ ResolverDies
    \/ \E c \in Clients : ClientStart(c) \/ Ask(c) \/ GiveUp(c) \/ ClientStop(c)
    \/ UplinkMoves \/ ForeignComes \/ ForeignLeaves \/ NftFlushed

Spec == Init /\ [][Next]_vars

\* systemd restarts what failed, the resolver's signal is delivered, and a refused
\* workload is restarted by its unit.
Fairness ==
    /\ WF_vars(DaemonStep) /\ WF_vars(StartDaemon) /\ WF_vars(ResolverStart)
    /\ WF_vars(ResolverListens) /\ WF_vars(Reload)
    /\ \A c \in Clients : WF_vars(ClientStart(c)) /\ WF_vars(Ask(c))
FairSpec == Spec /\ Fairness

-----------------------------------------------------------------------------
\* No rule of either priority ever names a table without its fallback: marked
\* traffic is never handed on to the host's own policy.
LiveTablesComplete ==
    \A f \in Families : \A t \in direct[f] \cup local[f] : "fallback" \in table[f][t]

\* Once the exception is in force it stays in force, across switches, failures,
\* crashes and restarts.
NeverUnprotected == [][\A f \in Families : direct[f] # {} => direct[f]' # {}]_vars

\* Another owner's route stays for as long as its owner keeps it.
OthersKept ==
    \A f \in Families, t \in Tables : <<f, t>> \in foreign <=> "foreign" \in table[f][t]

\* A workload is admitted only when its slice is enrolled as it is, the exception
\* is in force, and the running resolver was started on or signalled after the
\* servers file of now.
ReadyIsTrue ==
    [][\A c \in Clients : client[c] = "asking" /\ client'[c] = "admitted" =>
          /\ RulesLive
          /\ mem.cgroups[c] = slice[c] /\ (nft # None => nft[c] = slice[c])
          /\ resolver.pc = "up" /\ (resolver.hup \/ resolver.loaded = file)]_vars

\* With a namespace of its own and routes it can replay, the daemon sooner or later
\* admits whoever keeps asking: the resolver, which waits for the routes, and the
\* workloads, which wait for the resolver.
EventuallyReady ==
    <>[](uplink # "odd" /\ foreign = {}) =>
        \A c \in Clients : <>[](client[c] = "admitted")
=============================================================================
