# A formal model of canix-toolbelt

This directory specifies the stateful core of this repository in TLA+. TLC checks
the modules on small instances, and the TLA+ proof system proves the central
results of eight of them for all instances. `PROJECT.json` maps each definition to
the source lines it stands for, and lists the runs, the mutants that show each
property can fail, the hazards, and the theorems.

## The system

Seven parts of this repository keep state that outlives a process and act on
something they cannot undo; one more collects what they act on. Most write their
intention to disk, act, and after a crash decide from the disk what may be repeated;
the direct network decides from the kernel.

**Campaign journal** (`src/orchestration.rs`). *State*: one JSON journal with a
record per pull request and per packet (version, pending input, last delivered
bindings, adopted report, audits, generations, recovery counters). *Operations*:
`refresh` (copy, recompute, commit), `prepare`, `acknowledge`,
`record_idle_recovery`, `schedule_recheck`, `finished`. *Hard*: worker reports and
historical audits come late, the collector overwrites native records at any time,
and fingerprints recur. *Correct when*: a stale report or audit never certifies
anything, a waiting report is never forgotten, wakes are bounded, and a packet that
can be finished is.

**Campaign driver** (`src/orchestration/driver.rs`). *State*: the journal in memory
and on disk, and a native fence. *Operations*: `observe`, `reconcile`, `select`,
`compact`, `cycle`. It reads owner sessions and sends them prompts and compactions.
*Hard*: a crash or a failed save at any point, answers that are lost, requests that
arrive after their sender gave up, limits shared by several owners. *Correct when*:
an input keeps its identity and body, nothing undelivered is taken for delivered,
host limits hold, no owner starves and no event is lost.

**Evidence exchange** (`src/orchestration/evidence.rs`). *State*: the sender's
checkpoint (acknowledged identities, pending batch, cursor), the receiver's mirror
and its lease. *Operations*: `prepare`, `apply`, `acknowledge`, pruning. *Hard*:
files that change while they are walked, retries of a batch, writers at the mirror,
renames whose sync failed, staging files of a receiver that died, receipts that come
late. *Correct when*: what was acknowledged is durable, bytes of others are never
overwritten, every complete receipt can be adopted, and paths nobody else touched
converge, but for the three cases under *Not promised*.

**Snapshot collector** (`src/orchestration/snapshots.rs`). *State*: one collection:
the rows read, the request budget. *Operations*: `github`, `forgejo`. *Hard*: the forge
changes between any two of many requests, and limits meet page boundaries. *Correct
when* a result is the whole pull request at one instant, and only what exceeds a limit
or moves is refused.

**Operator** (`src/operator.rs`, called by `src/main.rs`). *State*: `state.json`, a
request marker, an admission sentinel, and the units systemd runs. *Operations*:
`run_with_ready`, `cancel`. *Hard*: crashes anywhere, stop and start calls that
fail either way, signals, markers that appear and disappear. *Correct when*: no
worker is forgotten, no stage runs beside a worker, no stage runs for a request
that is decided, and the fence is always taken down again.

**Worker admission** (`crates/roborev-worker/src/{admission,execution,completion}.rs`,
used by `offline/mod.rs`). *State*: an admission journal, an execution fence and a
retained completion, each behind a file lock. *Operations*: `register`,
`begin_enqueue`, `bind_job`, `begin_dispatch`, `register_execution`,
`reserve_execution`, `retain_completion`, `retained_output`. *Hard*: several
controllers with one handle, and a power loss between rename and directory fsync.
*Correct when*: one request causes at most one enqueue and one backend, and output
is that of this backend.

**Review engine, merge gate and dispatch** (`src/review/`). *State*: per host and
pull request a locked journal with its sentinel; the coordinator's ledger, claim and
receipt; the comments, reviews, jobs and policy checks of the forge. *Operations*:
`ensure_once`, the policy evaluation, dispositions, `gate`, the guarded merge, and
the coordinator's enqueue and receipt. *Hard*: calls whose outcome is unknown, late
or never visible posts, lost journals, rate limits, heads and bases that move
between any two reads. *Correct when* a comparison is requested once, a request has
one job and one receipt, and no head is merged or published as a success that was not
reviewed (its base may move after the last reading).

**Direct network** (`src/direct_network.rs`, `direct_network/dns.rs`). *State*: two
routing tables and the policy rules of each family, the enrolment of cgroups in the
packet filter, the resolver's servers file, and what the daemon remembers of all
this. *Operations*: a server that batches requests, reconciliation command by
command, resolver synchronisation, readiness. *Hard*: commands that fail and crashes
inside a switch, links that go, cgroups that are replaced under the same path, a
resolver and workloads whose starts wait for the daemon and for each other. *Correct
when* an exception in force stays in force and complete, routes of others survive,
readiness is told only of what holds, and is told in the end.

**Everything else** holds no protocol: worker preparation and process isolation
(copying under budgets, kernel filters), qualification receipts and graphs
(sequential, pure apart from files), the execution protocol types, plugin lock
files, launchers, Nix modules, scripts and workflows. They are listed in
`PROJECT.json` with the reason each is left out.

The parts meet in few places. The driver calls the journal's functions and is the
only writer of the journal, under one lease. The evidence exchange supplies the
dependency digests a refresh compares. The review engine posts a
request that the dispatch serves, whose daemon runs jobs through the worker, which
asks the admission store. The
operator shares only systemd and its sentinel with the others.

## Modules

| Module | Stands for |
| --- | --- |
| `WorkerAdmission` | the admission store used by several controllers, with power losses |
| `OneShotReview` | what that store promises: one enqueue, one backend, its output |
| `WorkerAdmission_proofs` | the theorems about the store |
| `Operator` | `run_with_ready` and `cancel`, systemd, markers |
| `Operator_proofs` | the theorems about the operator |
| `CampaignJournal` | admission operators shared by the next two: `Prepare`, `Acknowledge`, `NeedsWake` |
| `CampaignAudit` | one packet: refresh, reports, audits, recovery, recheck, `finished` |
| `CampaignAudit_proofs` | the theorems about audits, waiting reports and wakes |
| `CampaignDriver` | a writer's cycles over several owners, their sessions and the transport |
| `CampaignDriver_proofs` | the theorems about the identity, the journalling and the arrival of inputs, and about places |
| `SnapshotCollector` | one collection of a pull request from a forge that changes |
| `SnapshotCollector_proofs` | the theorems about what a collection publishes, and when |
| `EvidenceExchange` | a sender and a receiver with files, checkpoints, batches and receipts |
| `EvidenceExchange_proofs` | the theorems about checkpoints, receipts and the mirror's entries |
| `ReviewForge` | the forge: the pull request, its comments, reviews and policy checks |
| `ReviewEngine` | the commands of the review tool on their hosts |
| `ReviewDispatch` | the coordinator and its daemon's jobs |
| `Review` | the three together, and their properties |
| `Review_proofs` | the theorems about requests, jobs, receipts and what is earned |
| `DirectNetwork` | the daemon, the kernel's tables and rules, the resolver, the workloads |
| `DirectNetwork_proofs` | the theorems about the switch of tables and about readiness |
| `MC*` | constants of the instances TLC checks |

*State and steps.* A variable is a file, the memory of a process, or the outside
world; ghost variables, named as such, record history for properties. Where code
writes a file and then goes on, the write and the continuation are separate steps,
and each save may fail with either version left. Where the code works on a private
copy and commits it whole (`refresh`, the first half of `cycle`), that is one
action. `WorkerAdmission` splits a save further, into the rename that other
processes see and the fsync that a power loss respects.

*Composition.* `CampaignJournal` is the part of the journal two components share.
In `CampaignAudit` an admission is `Admit` and `Receive`; `CampaignDriver`
replaces them by preparation, attempt, request, observation and acknowledgement,
and replaces refresh by any change of the version. `WorkerAdmission` instantiates
`OneShotReview` and implements it: the effects are the abstract variables, and
journals, locks and processes are hidden. `ReviewEngine` and `ReviewDispatch` share
only the variables of `ReviewForge`, as the programs share only the forge.

*Evidence exchange.* A tree maps each path to its content, a directory, nothing, or
something special that is left alone. A collection is a start, which reads the walk's
files, and a finish, which looks for deletions in the tree of then; the sender saves
and sends afterwards. What the receiver has still to do is a set of paths, as a batch names
a path once, taken in the order of the code: verification, in one step, then
files, deletions and retirements, each in the order of the listing. The ghost `loose` holds
the paths a claim of the sender may be wrong about for a reason it will learn: another writer
or an exchange changed them, or they are in conflict. A path leaves it only
when an exchange the sender waits for, with its checkpoint saved, accepts it. `may[p]` is what a crash may leave of `p`: a write adds a
value, a sync that succeeds leaves one. A late request may be applied at any time, and
edits of the source are noticed only by collections. The limits on a batch's encoded
size stand behind `Room`.

An exchange that ends in the middle of an item is `Interrupted`: by a sync that fails or the
death of the process, with the change done or not, some of the directories made, or the
innermost of them retired. `write_with` goes by way of a staging file beside the target. If the
process dies before the rename, that file stays, and nothing looks at it or removes it again:
its name is a path in `Staging`, one to a directory because any number of them has the same effect,
and what is left there is `Special`. A retirement of the directory then finds it not empty
(`Removable`). A power loss (`ReceiverCrash`) may follow at any time and may bring an unlinked one back.
Staging files in the mirror's root are left out, as the root is never retired.

*Snapshots.* Everything read page by page is a target: a list, the inline comments of a
thread or review, the checks of a head. Each request is a step; `scan` is the reading in
progress, `taken` what is complete, `peek` what other responses told of a target: on
GitHub its first page. A row is an identity and a revision, so fields are compared and
not shown. A response that fails any of the many field checks is `Refused`. Assumed of
the forges: rows come in the order of identities that are never reused, checks are never
removed, and whatever changes the history sets the update time.

*Review.* The forge's log is the sequence of what is visible; a post whose reply is
lost goes to `late`, from where it may arrive at once, later, or never. Continuous
integration is outside: each read of it may see success or not. `passing` holds the
heads whose last policy check succeeded. Each command of the tool is a program
counter that goes through the reads and writes of `ensure_once`, `gate`, `merge` or
`disposition` in the order of the code, any of which may meet a failed read or a rate
limit. The coordinator goes through observing, claiming, saving, enqueueing,
collecting and posting likewise. Only the host that submits crashes or loses journals.

*Direct network.* Entries of a table are the routes of an uplink, the unreachable
default ("fallback"), and a route of another owner. Each `ip` and `nft` command that
changes something is a step, and any may fail; a failed command, like a crash, leaves
the kernel as it is. Links and routes are read at once at the start of a
reconciliation. Everybody whose request was queued at the start is answered at the end.

*Digests* are the values they are computed from, so equality of digests is equality
of inputs. *External code* (session server, forge, daemon, systemd, files written by
workers) is modelled as the source uses it. Assumed of the session server: it takes
an input with a known id only once, and acts only while no cycle holds the fence.

## Runs

| Run | Shows | Bounds |
| --- | --- | --- |
| `admission` | effects happen once and are recorded before; output is the original's; the journals never go back; the store implements `OneShotReview` | two controllers, two jobs, two executions: enough for a wrong second of each |
| `operator` | workers remembered, stages exclusive, fence recoverable, budget and checkpoints across crashes; workers taken down come back | two workers, two stages, two policies, two attempts, two faults, one lost marker; one marker made by a person, as the theorems cover any number |
| `operator_cancel`, `operator_touch` | two disagreements with `RUST.md`, below | the least that shows them |
| `campaign_audit` | a finished packet was audited by somebody who knew everything observed; adopted reports are current; a waiting report is held | one pull request, two changes (reopen and close, or lose and regain evidence), one report, one historical audit, two turns |
| `campaign_finish` | at most six wakes without news from outside (the event, a report adopted late, one recheck, three recoveries); an answered packet is finished | nine turns: more than the wakes the instance can cause, so the bound stops nothing |
| `campaign_driver` | identity of inputs, journalled attempts, nothing lost, host limit; an owner that waits is passed over once, unless by a producer or a retained input or compaction; every event is delivered unless a failed compaction holds the host | two owners, one place, one new event, one fault of any kind, compactions that fail; the first owner's version is fixed at the start, as versions differ in their names only |
| `evidence` | acknowledged means durable; receipts can be adopted; bytes of others survive; replacements are of acknowledged bytes; untouched paths advance unless stuck | a directory with two files and a file beside it, one file or deletion per batch, three identities, two exchange identities, two changes at the source or the mirror, one fault, which may leave a staging file in the directory; an empty mirror, and three retained earlier, one with an emptied directory: each case of `Stuck` occurs, and leaving one out gives a counterexample |
| `snapshots` | what is published is history and checks of one instant; an unchanged pull request is collected exactly when it is within limits and budget | pages of two, histories of two full pages, a budget of ten; eight sizes below, at and above each limit; two changes (a deletion and an addition keep counts), one refusal |
| `evidence_rotation` | a disagreement with `ORCHESTRATION.md`, below | three files, two changes (both at the mirror in the counterexample), no fault |
| `network` | an exception in force stays, and its table is complete; routes of others stay; readiness is true when told, and told in the end | one uplink, one workload, two changes of the world, one fault |
| `review` | one request per comparison, one job and receipt per request, no merge or success of a head without a review of it | two heads, two bases, both providers, one move, one review by the bot or job with findings, one fault (a failed job is one); an owner on a new host and a gate on one with a journal |

Two of everything suffice for the races in question: they are between two
processes, two owners, an old and a new version. Fault bounds are small because a
fault returns the system to a state on disk from which it continues; two faults
cover a fault during recovery from a fault. The bounds on versions and turns are
never what stops a liveness run, as the property itself would then fail.

*Fairness.* `operator`: the process takes its steps, stages end, and the
service manager starts the operator again while the marker exists, as its unit
files say. `campaign_finish`: the coordinator's loop of collecting, refreshing and
cycling goes on, turns end, and the worker eventually reports on what it was
delivered last; it may first report anything else. `campaign_driver`: the cycle
is a sequential program that is called again and again; sessions have strong
fairness because they act only between cycles, which are minutes apart. `evidence`:
sender and receiver go on with what they do, and messages that are not lost are
received. `network`: the daemon takes its steps, systemd restarts the daemon, the
resolver and the workloads, as their units say, the resolver listens some time after
its start and reads its file when signalled, and a workload that was refused asks
again. `review` has no liveness: its state space leaves no room, and the states in
which an unknown outcome waits for a person are by design. No run
assumes that a step succeeds while faults remain; faults are finite.

*Deadlock* is checked in `evidence`, and not elsewhere: with counters bounded, the systems stop when bounds are
used up, and real ones stop when their work is done.

*The exception of `EventuallyDelivered`.* A compaction that failed keeps its receipt,
and so a place on its host, until a person removes it; while one does, other owners
of that host may wait. Without the exception TLC finds this at once. The property excepts
the whole of that hazard (`driver.rs:686`), which therefore no property covers.

*Not promised.* In three cases a file that nobody else touched is in conflict for ever, and
`UnrelatedAdvance` excepts them (`Stuck`). A directory of the mirror that should make way for
a file holds a staging file (above), so each retirement ends in `NOTEMPTY`. Or it is empty, but the sender
deleted its files one by one before the file took the name, knows of nothing below it, and
sends the file without a retirement. Or the source goes back from the file to the directory after such
a retirement failed: the deletions below were done and then retracted from the receipt, so the sender
still holds their identities, verifies or replaces files that are not there, and meets a conflict each
time. All other paths advance, as long as such paths and those other writers touched do not
fill two successive batches. Update times have seconds: a snapshot that begins in the second of the
last update may miss a change in the rest of that second, and TLC finds a torn history
without that condition of `PublishedIsOneInstant`. When a link goes and returns between two polls, the kernel has taken
its routes out of the table in force while the daemon compares equal snapshots: the
table stays without them until something changes. The fallback keeps it complete, so
traffic is refused and not leaked, and no property states more. Of two gates of one
pull request, an older success may be published after a newer failure, as they publish
outside the lock; `review` has one gate. Two hosts may each post a request for one
comparison; the coordinator serves the later one only, and `review` has one host that
submits.

## Findings

* `evidence_rotation`: the cursor remembers the conflicts of the last receipt only, so
  two conflicting files that each fill a batch alternate for ever, and a clean file
  sorted after them is never sent. `ORCHESTRATION.md` says that a blocked frontier
  cannot monopolize retries.

* `operator_cancel`: an error in a run that only cleans up replaces a recorded
  result by "interrupted", so a cancelled run whose marker survived a crash of
  `cancel` executes its stages. `RUST.md` says it cannot. By the same lines a
  recorded success becomes an interrupted run, which quiesces workers that were
  already restored.
* `operator_touch`: the end of a run removes the marker without looking which one
  it is. `RUST.md` says that a touched marker requests a run of its own.

## Proofs

`WorkerAdmission_proofs` proves, for any sets of controllers, jobs and executions:
type correctness, `SingleEffects`, `EffectsRecorded`, `OutputOfOriginal`,
`DurableMonotone` and `ImplementsOneShot`. The only assumption is that the three
placeholder constants are not members of the sets they complement.

None of these is inductive alone. The invariant `IInv` adds: the locks are held by
the controllers whose control state says so (`LockInv`); the durable journal is at
or behind the visible one and agrees with it (`JournalInv`); what a controller is
about to save is one step ahead of what it read, which holds because it kept the
lock (`SaveInv`); an enqueue that was granted or sent is already durable
(`EnqueueInv`); and likewise for the fence and the one backend (`FenceInv`), its
receipt and output (`ReceiptInv`), and jobs (`JobInv`). One lemma per conjunct
shows that every action preserves it, given all the others. The interesting steps
are a power loss, which replaces the visible files by the durable ones and is
covered by `JournalInv`, and a save, which uses the lock. The refinement maps an
enqueue, a backend start and an output to the abstract actions and all else to a
stutter.

`DirectNetwork_proofs` proves, for any uplinks, workloads and bounds,
`LiveTablesComplete`, `OthersKept`, `NeverUnprotected` and `ReadyIsTrue`. It assumes two distinct
tables, that the names of routes differ, and that the resolver's name is not a workload's
(`EnrolmentAssumption`). `LiveTablesComplete` is not inductive:
whether a table may be flushed depends on where the switch stands. The invariant adds
`Control`: while the table is emptied and filled no rule names it; once the fallback is
added it stays, so rules may be added; while old rules are deleted the new one is in
force and was not noted as old; and while stale rules are deleted the table is not that
of the oldest rule, which therefore stays. `OldestLive` says that the oldest rule is
one of the rules, from which the recovery of an interrupted switch chooses the right
table. `Quiet` gathers the steps that leave the kernel and foreign routes alone; each
command of a switch has a lemma of its own, with `FilledInv` for those that change the
table and `Deleted` for those that delete a rule. `NeverUnprotected` comes from the same
lemmas, which each also show that no exception goes. `ReadyIsTrue` needs `RInv` besides, as
the answer rests on what was done for it at different times: whoever waits in the batch keeps its
slice until the answer (`BatchInv`); inodes are never reused, so a slice remembered and found
again has its members in the kernel's set still (`EnrolInv`); a switch that is over left the exception in force
(`LiveInv`); and a dispatch that is remembered names the resolver that was signalled after the file was
written, so if that one still runs and listens, it has read the file or will before it
listens again (`DispatchInv`).

`Operator_proofs` proves, for any workers, stages, policies, attempts and numbers of
markers and faults, type correctness and all safety properties of the run `operator`. It assumes
`OperatorAssumption`: there is a stage and an attempt, and a policy names workers.
A property speaks of `state.json` alone, but what a save leaves there depends on what
the process holds, so the invariant relates the two at each step, in nine parts:

* `Types` has the types, and `Attempting`: during an attempt disk and memory are the
  same and name the stage the loop is at.
* `Listed`: a worker that is down is listed in both; until all are down the lists are
  equal, so a worker is always recorded before it is stopped.
* `Prepared`: which workers of the policy are still to be stopped at each step, and
  that all are down, and the fence is up, before a stage is looked at.
* `Watched`: a stage unit runs only while its process waits for it, or where the next
  process stops it first, because the disk names it and its policy.
* `Named`: a run in progress and a published fence always have a state on disk.
* `Recoverable`: the same for the marker, and that the fence is down where the marker
  is removed.
* `Counted`: disk and memory each account for every failure but one per fault.
* `Honest`: a success or failure that is recorded or about to be leaves no stage to
  execute.
* `Answered`: a marker that was answered before is that of the state at hand, with
  nothing left to execute.

Each part has its own lemmas, given the parts before it. The interesting steps are
`Begin`, which takes the memory of a run from the disk or starts anew, the saves that fail with either
version left, and the crash, after which only what is said of the disk remains.

`CampaignDriver_proofs` proves, for any manifest and capacities, any packets per host and any
number of events and faults, `NoIdRebinding`, `SentIsJournalled`, `NothingLost` and `HostCapacity`. It
assumes that no packet is in the manifest twice, and that the placeholder for an absent value is neither a number, a body nor an
input. The invariant says the same of the journal in memory
and the one on disk, because any crash makes the second the first: the retained input has the
journal's generation (`Named`); what was sent has a generation no newer, and is retained as it
was sent, with its attempt (`Journalled`); every older generation is in the session
(`Arrived`). `CycleInv` adds what the cycle relies on between its steps: the input about to be attempted is
retained, and before it is posted disk and memory agree. The interesting steps are
`Prepare`, whose fresh input takes a generation nothing sent has, and the acknowledgement,
which needs the session to have that very body. `HostCapacity` needs `PlaceInv`: whoever is at work, or is retained by either journal, holds one of
the places of the cycle, and these were within the limits when it was planned; and a request
that may still arrive is for an owner that is so retained or already knows it.
That the selection keeps to the limits, and gives every retained input a place, is proved of
`Admitted`, which is stated with positions instead of a fold for this reason.

`FairAdmission` is proved of the same selection: `Before` is a strict order of the owners, `Ordered` lists
each at its rank (`OrderedRanks`), and nobody is served while an owner of its host that comes before it is
left out (`SelectedInOrder`). Its invariant `FairInv` says that what was sent to an owner past another
was prepared after the other's last delivery, in memory and on disk, whether it is pending
or delivered, and that all deliveries are earlier than the cycle in progress. So it comes later in every
selection, after any crash, until the other is served. Three kinds of place are not promised to go by this
order, and the property excepts them: a producer's, and those of a retained
input or compaction, which the code admits first and in the order of the manifest.

`EvidenceExchange_proofs` proves, for any paths, contents, limits of a batch and of the checkpoint, and any
numbers of edits and faults, `TypeOK`, `AckedIsDurable`, `ReceiptsAdoptable`, `ForeignPreserved` and
`OnlyAckedReplaced`. It assumes that paths are listed with directories before what they
hold (`PathAssumption`), that the values that stand for nothing, a directory and a special file are
no contents, that nothing lies below a staging file (`StagingAssumption`), and that the trees at the start
are trees without one. The invariant `IInv` has four parts.

* `Types`: both trees are trees, and the file a crash may leave (`may`) includes the one that
  is there. From it: a write or a retirement the receiver allows leaves every other file alone.
* `SenderInv`: the pending batch says of the receiver's copy what the checkpoint it was made from says,
  and has room in it (`Fits`), in memory and on disk. The two checkpoints differ in two ways only
  (`Saved`): a new batch is not saved, and then it is in no message and not being
  applied; or a receipt was adopted and not saved.
* `JobInv`, `MessageInv`: the exchange being applied has decided of each path that it no longer has to do, and
  a reply of all of them (`Decided`), so the sender can adopt it. The order matters: files, then deletions,
  then directories to prune, and a prune that fails takes back the deletions below it.
* `DurableInv`: whatever the checkpoints, the replies to the pending batch and the exchange being applied claim of a
  path that is not `loose` is `Kept`: no crash can make it anything else. A receipt speaks of one attempt,
  and a batch that is retried is the same batch, so its claims stay true.

An interrupted exchange goes through two trees, the one it leaves and the one with the staging file
(`InterruptedTrees`); what it changes in either becomes `loose`, and what it changes in neither
stays kept (`AbandonStays`). `OnlyAckedReplaced` and `ForeignPreserved` are about steps: one lemma per turn of the receiver shows what it
may write, given the invariant.

`CampaignAudit_proofs` proves, for any pull requests, texts, evidence and bounds,
`FinishedIsAudited`, `WaitingHeld`, `AdoptionIsCurrent` and `BoundedWakes`. It assumes
`AuditAssumption` and that the placeholder is not a value of the sets it complements. A
fingerprint can recur; the generations in it cannot, so the invariant says of each record
that may come back later which changes it shows: the journal
(`JournalInv`), inputs, deliveries and reports (`InputInv`), historical audits, which may be
older than what they are based on and never newer (`HistoryInv`), and what is audited
(`AuditedInv`). `GenerationInv` ties the generations to the history. The wakes are
bounded by a sum that no step increases: the wakes there were, one if the version is
outstanding, one for a report still to be adopted, one for a recheck, and the
recoveries that are left. The sum starts anew when something is observed or written. TLC
checked it before it was proved, and it corrected the bound: a report on a version that recurs is adopted late
and wakes once more, the sixth time, which the instance of `campaign_finish` is too
small to reach.

`Review_proofs` proves, for any hosts, processes, heads, bases and coordinators, both
providers, and any numbers of moves and faults, `TypeOK`, `SuccessIsEarned`, `OneJob` and,
where the processes that may ask share one state directory (`OneSubmittingHost`),
`OneRequest`. Without that condition the code does not promise it: the journal is local
(see below). Beyond it the assumptions are that the placeholder is not a value and that the
pull request is opened with a head on its base; they name the two providers and the bounds. The
invariant has a part for each thing a process relies on after it let go of the forge:

* `NameInv`: an identity stands for one comparison, wherever it occurs: in a comment, late post,
  journal, job or process. It is stated with a function that is extended by each allocation.
* `EngineInv`: a running command holds its host's lock; its journal has one run per comparison;
  one that submits has journalled the run as unknown before.
* `RequestInv`: until a request is posted one host knows its identity; then it is posted once.
* `WorkerInv`, `HoldInv`: what a coordinator does is for the request it
  claimed, and the ledger, the lock and the claim exclude another.
* `JobInv`, `ReceiptInv`, `ResultInv`: the ledger says whether a job or receipt may exist, there
  is one at most, visible or late, and a receipt tells what its job found.
* `EarnInv`: what a process holds as ready was reviewed, for its comparison.
* `AskInv`, for `OneRequest`: what the host asked for is in its journal, and if the file was lost
  its sentinel is still there, so that the recovery reads the forge or gives up.

Each part has a frame lemma, that it is kept by steps which only change what it does not
read, and lemmas for the groups of actions that do.

`SnapshotCollector_proofs` proves, for both forges, any page sizes, limits, budgets and numbers of
changes, and pull requests of any size, `PublishedIsOneInstant`, `ChecksAreOneInstant` and
`CollectedIffWithinLimits`. It assumes that the initial lists have fewer rows than `Base`, so that
identities given out later are new. The three rest on different arguments.

* The history has an update time. While it is that of the first read, whose second was over, nothing has
  changed (`Quiet`), so `NowInv` can say that each page known, each target taken and the reading in progress
  are the forge's present rows; `PhaseInv`, that no target is left out, neither a review that counts no
  comments nor the last list. A change of the history ends the quiet for good, and the re-read sees it.
* The checks have none, and GitHub and Forgejo differ: a row is revised in place, or leaves and
  returns at the end. A reading that is not what the forge has at the re-read has a row that is
  `Gone`, and stays so because revisions never recur, or has fewer rows than are there, and a list of checks
  never gets shorter (`Differ`). Then the second reading cannot agree with it (`AgreeInv`). It takes that
  rows are read in the order of identities (`Shown`), and that what was read stays at or behind the same place
  of the list (`Ahead`), or a page found by number could skip a row.
* The limits concern a pull request that stays as it is. Then everything known and read is the forge's
  (`StillPeek`, `StillTaken`, `StillScan`), and the targets to read are some of it, none twice and none that
  was read (`StillTodo`), so no test of a page, a count or the second reading fails by itself. The page asked
  for next is one of `PageRequests`, or the target has more rows than `Most` (`NextRequest`). The requests
  sent, without those for the pull request itself, are a subset of `PageRequests` and with what is left of the
  budget add up to `Budget` (`StillInv`): a budget that is spent early had to be less than `Cost`, and at the
  end all of them were sent (`EndCollectable`). `LimitsInv` carries this through every step. The cost is a
  cardinality and not a sum, so it needs no induction over the targets.

That pages by number and after a cursor join to what they should is proved of `PageOf` once
(`PageShape`, `NextShown`, `NextPrefix`), that distinct rows of the list in order are all of it if they are as
many, of `SameRows`.

Only model-checked is all liveness (`EventuallyFinished`, `EventuallyDelivered`, `UnrelatedAdvance`,
`EventuallyReady`, `WorkersRestored`), which with ENABLED is outside what the provers handle. Every
other property of a passing run is a theorem.

## Plan

What is left, in order: the liveness properties on larger instances, where the review
has none for want of room; the preparation of workers and the offline executor, whose states are
files in a directory, as components of their own; and two gates of one pull request
with the order in which they publish.

## Not modelled

Parsing and validation of JSON, HTTP and native message formats, except where a
rejection changes what happens next; formatting of reports; time as a quantity
(only the order of instants is kept); malicious edits of the stores; exhaustion of
64-bit counters, which the code checks. In the campaign: imports of older journals,
linked release pull requests, `progress` classification, owners expedited or on an
older goal, mirrors and the token ceiling, which fail an observation as a whole. In the
exchange: the legacy stateless `collect`, path scoping and the encoding. In the review:
HTTP, pagination, draft pull requests, the choice of required checks, merges that need no
review, and the local daemon's client. In the direct network: the choice of routes to
replay, policy rules of other owners, peers that may not ask, and the resolver's sockets.
