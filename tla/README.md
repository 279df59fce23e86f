# mha-go: specifications, model checking and proofs

mha-go moves the role of MySQL primary from one server of a replication cluster
to another: on request (`mha switch`, a switchover) or after the primary died
(`mha manager` detects it and runs a failover). The program keeps no state of
its own that survives a run. What matters is the state of the MySQL servers,
which clients, replication threads and crashes change at the same time as the
statements mha-go sends. The modules here specify those statements, in the order
and under the conditions of the code, together with everything that can happen
between two of them.

## 1. Inventory

| part (under `src/internal`) | state | operations | what is hard | what makes it correct |
|---|---|---|---|---|
| `controller/switchover` | the plan; position in its steps; locals of the catch-up loop | BuildPlan, ExecutePlan, nine step scripts, VerifyPostSwitchover | live writers and half-finished commits; failures at any statement, lost replies; no rollback; re-runs; stale plan | no committed write lost; one writer; endpoint moves last; success means the promised topology; every run ends |
| `controller/failover` | the plan (blocking reasons, salvage actions, skipped replicas); position | BuildPlan, ExecutePlan, fencing, SQL and SSH salvage, promotion, repointing, verification | primary alive behind a partition; unknown GTIDs; salvage that fails halfway; plan and execution under two leases | promotion only of a ready candidate after the primary was found dead; under `strict` and `salvage-if-possible` no known transaction lost; success means topology |
| `controller/monitor` | phase, failure count, last view, run record | Run loop, step, runSecondaryChecks | probes, secondary checks and rediscovery see different moments | failover only after threshold, negative secondary check and reconfirmation; the recorded outcome is the real one |
| `fencing` | none | configured steps, required or optional | an optional step failing, a required one not run | a completed fence means all required steps worked |
| `topology` | none (pure over a view) | Discover, selectPrimaryID, AssessReplication, candidate selectors | dead primary must still win the election of "primary"; ties; cascades | unique primary and candidate; no ineligible candidate; errors not hidden |
| `replication/gtidset.go` | none | parse, Contains, Subtract, freshness, recovery summary | interval boundaries, overlapping and adjacent intervals, overflow | interval operations equal set operations |
| `transport/sql` | server side only | fence, promote, repoint, stable GTID, wait, salvage | see switchover | each script's effect and error result |
| `transport/ssh` | none | binlog dump and apply | I/O | only excluded GTIDs are skipped |
| `state` | runs, leases (in memory) | CreateRun, AppendEvent, UpdateRun, Acquire, Release | same owner reacquires; release by a holder that lost it; many error returns | every lease given back, every run record closed; mutual exclusion of runs, which the code does not give (section 3) |
| `config` | none | LoadFile, toDomain | defaults against explicit values, nodes read one by one | an accepted specification is what the rest takes for granted; no legal file refused |
| `writerendpoint` | the external route | Precheck, Switch, Verify | script fails after its work | never routes to a server that is not open and complete |
| `cmd/mha` | none | switch, manager, failover-plan, failover-execute, check-repl | the exit status is all that systemd and scripts see | exit 0 means what the documents say |
| `hooks`, `obs`, `admin`, `domain`, `capability` | none | notifications, output, tables | | |

Interactions. `cmd/mha` wires a selector, a discoverer, a controller and an
executor and calls them in sequence: discover, assess, select, plan, execute.
Discover starts one goroutine per node. The executors call a runner, whose
methods open a SQL connection and send a script of statements. The monitor calls
failover through `HandleFailover` and ends with it. Nothing is called back;
all concurrency is between mha-go and the servers, their clients and their
replication threads, between the goroutines of Discover, and between several
mha-go processes.

The behaviours that are hard to test, each with its line and the properties that
cover it, are the `hazards` of `PROJECT.json`.

## 2. Modules

| module | models | uses |
|---|---|---|
| `Vocabulary` | the configured nodes, transactions (one GTID each), the nil channel | |
| `Topology` | `topology/*.go`: primary selection, roles, assessment errors, candidate selectors, as operators over a view | `Vocabulary` |
| `MySQLServers` | external: servers, client transactions, replication, crashes; the statements of `transport/sql/admin.go` as functions on a server | `Vocabulary` |
| `Discovery` | what both controllers share: the observations Inspect may return, the orders in which nodes are visited, what verification asks of a server | `MySQLServers`, `Topology` |
| `Switchover` | `controller/switchover` end to end: Discover, BuildPlan, every step, verification, re-runs | `Discovery` |
| `PrimaryHandover` | abstract: what clients and operators need to know of a switchover: servers open and close, transactions in flight, copies, the route | `Vocabulary` |
| `SwitchoverRefinement` | the mapping under which `Switchover` implements `PrimaryHandover`, and the invariant behind it | `Switchover`, `PrimaryHandover` |
| `Failover` | `controller/failover` with `fencing` and the salvage of `transport/sql` and `transport/ssh`: BuildPlan with its blocking reasons, every step, verification, re-runs | `Discovery` |
| `Monitor` | `mha manager`: `controller/monitor` with the failover it hands over to, the restart by systemd, a switchover run beside it | `Failover` |
| `CheckRepl` | `mha check-repl`: one discovery of a cluster in any of several layouts, the assessment, the exit status | `Discovery` |
| `Leases` | `state/memory.go` and how the monitor and both controllers use it: leases and run records of the calls in one process | |
| `GtidSets` | `replication/gtidset.go`: sorted interval lists, their arithmetic and their text | |
| `Config` | `config`: from a decoded file to the specification | |
| `MhaProcess` | `cmd/mha`, bootstrap: a process loads its file, then makes its calls under its leases | `Config`, `Leases` |
| `DiscoveryProofs` | lemmas on statements, replication, crashes, inspections and the election | `Discovery`, TLAPS |
| `SwitchoverProofs`, `SwitchoverRefinementProofs`, `FailoverProofs`, `MonitorProofs`, `CheckProofs`, `LeasesProofs`, `GtidSetsProofs` | theorems (section 4) | the module each is named for (`CheckProofs`: `CheckRepl` and `Config`), `DiscoveryProofs`, TLAPS |
| `MC...` | instances for TLC, one per specification that is checked | |

### How the model corresponds to the code

*Servers.* `server[n]` holds what the statements of mha-go can observe or change:
`read_only`, `super_read_only`, the replication channel (`source`, `running` for
its threads, `relay` for fetched and unapplied transactions) and `executed`
(gtid_executed). `trx[t]` follows one write transaction: *active* while
`innodb_trx` shows it, *leaving* once its COMMIT has begun (in neither
`innodb_trx` nor `gtid_executed`), *committed*. Read-only mode rejects new
changes only; a transaction opened before still commits. This window is what
`WaitForStableGTIDAfterReadOnly` exists for, and what a test with a mock database
cannot show. The transactions in `Super` belong to sessions that only
`super_read_only` stops. `SET GLOBAL` does not survive `Crash`/`Recover`.

*Planning.* `Run` starts `mha switch`. `Inspect(n)` is the goroutine of Discover
for `n`: it records an observation of that moment or finds the node dead.
`BuildPlan(o, c)` needs every node observed and every early return of the Go
function passed; it is deterministic, o and c are what selectPrimaryID and the
selector return. `PlanRefused` is any of those returns taken.
`Pins` are the values an invocation may be given with `--new-primary`.

*Execution.* `step` is the planned step being executed, `stmt` the statement in
its script, `todo` the nodes a loop has still to visit. One statement is one
action. `Executed` is a statement that took effect and was acknowledged,
`Errored` one that returned an error with or without effect (its reply was lost,
the connection dropped, the process was killed). The first error ends the run
(`StepFailed`), as executor.go:91-113 does; nothing is rolled back.
`CountActiveWrites`, `ReadGTIDExecuted` and `PollAgain` are one iteration of the
stable-GTID loop, `sample` its local variables; `WaitForExecutedGTIDSet` returns
when the candidate has the snapshot, `CatchUpTimeout` is either of the step's
deadlines or a failed query. `VerifyCluster` inspects one server per action, in
the code's order; it sees replication threads as they report themselves, which may lag behind the
loss of their source.

*Failover.* `plan` is the FailoverPlan: old primary and candidate, what the
candidate has (`GTIDExecuted`) and what it misses from each live replica
(`Missing`, the recovery gaps), the nodes to repoint and those skipped, and the
blocking reasons, named for the conditions of `buildBlockingReasons` and
`evaluatePromoteReadiness`. A plan with a reason ends as `blocked` at its first
gated step, before any effect. A node that is dead in the view has no GTID set and no
channel, so in every plan that is executed the old primary's GTID set is unknown:
`recover-from-old-primary` exists in blocked plans only, and the binlog salvage
over SSH is the only way to what the old primary alone has. `item` is the
fencing step (required or optional) being executed. A dead node of the view may be
alive: `Inspections` lets every inspection fail, so partitions are in every run.
A step that fails leaves its trace: an SSH salvage opens the candidate (statements
2, 3), applies all or a part of the binlogs (4), closes it (5, 6) or undoes the
opening (7); a donor that fails has its channel reset (5, 6), best effort; a replica that
fails to be repointed is added to `plan.SkippedReplicaIDs`, which verification
leaves out. A failed salvage ends the run when it is required and is only warned about
under `availability-first`. `Kill` ends the process between any two statements.
Ghosts serve the properties: `isolated` (the old primary was down when the
plan was made, or STONITH took it down) and `restarted` (nodes restarted since they
were last inspected) and, in `Switchover`, `fenced` and `verified`.

*Monitor.* A tick of the loop is one action; the rediscovery of a tick inspects one
node per action. `phase` and `failureCount` are the locals of `Engine.Run`, `known`
is what the loop uses of its view (the primary, the live replicas), `record` the
status of the session's run record. `HandOver` starts a run of `Failover`, which
discovers and plans by itself as `failoverAdapter.HandleFailover` does, and
`HandlerReturned` takes its outcome as `engine.go:281-287` does. A probe or inspection
may always fail; it succeeds only if the server is up. `SecondaryPositive` needs a replica
or observer whose receiver thread reports a connection, `SecondaryNegative` is
always possible, because each of its inspections may fail. `OperatorSwitch` is a
whole successful switchover by another process in one action; its steps are in
`Switchover`. The ghost `silence[n]` counts the failed probes and inspections of n since
its last sign of life, up to the threshold plus one.

*check-repl.* `CheckInit` takes a layout (which node replicates from which), any set of
open servers and any set of running channels. `Inspect`, `Report` and
`DiscoveryFails` are `CheckOnce` and `runCheckRepl`; servers may fail and come back
between two inspections.

*Leases.* A task is one call within a process: `Engine.Run` (with the failover it
hands over to), or the BuildPlan and ExecutePlan of one of the controllers. `stage[t]`
is its phase and where it stands in it. `lease` is the map of `LocalLeaseManager`: it
has one owner per key, `Acquire` refuses only another owner, `Release` deletes the
key whoever is on record. `Owner` is a parameter: all calls of a process have the
`controller.id` of its specification, and only `OneHolder` depends on it.

*Process.* `MhaProcess` puts the two parts of a process one after the other. It follows the
calls after the files in `Followed` only, because no call looks at what `Config`
reads, except that it was accepted.

*GTID sets.* `sets[side]` is a `GTIDSet` as the code has it: per source ID a sequence of
intervals. Every token that `ParseGTIDSet` reads is one action; the ghost `listed`
collects the transactions that the text has named. The operators follow the loops
(`Merge`, `Reach` and `Cut` are their bodies, folded over the lists). `sort.Slice` is an
insertion sort: the order leaves one result, whatever the algorithm, and the proofs need a
definition to look into. Numbers have `Width` bits and `End+1` wraps, as `uint64` does.

*Configuration.* `file` is the decoded file, `spec` what has been built of the
`ClusterSpec`; the header is one action, each node one, and the final count of primaries
another. Fields that are copied unchanged are left out.

*Abstraction.* In the controllers, GTID sets are sets of transactions. A channel is the first of
`ReplicaChannels` and always uses auto-position (the repoint statement sets it,
and a cluster without it is refused by the assessment). The monitoring of lag is
reduced to "0, or unknown while stopped". Semi-sync state is constant. The hooks and the logs have no
influence on control and are left out; run records and leases are in `Leases`, apart
from the servers, because a process that plans and executes in sequence contends for
none. `STONITH` stops the server; `vip` stands for every fencing command
that does not. How long an SSH host outlives its server is open: the dump may
fail in every state.

## 3. Runs

Bounds named in the modules: `MaxRuns` (invocations of `mha switch` or
`mha failover-execute`),
`MaxCrashes`, `PublishLag` (how many 200 ms polls a COMMIT may stay invisible),
and the sizes of `Nodes` and `Trx`.

| run | instance | shows |
|---|---|---|
| `switchover_retry` | 3 nodes, endpoint, 2 runs with or without `--new-primary`, any statement may fail, fairness | the invariant behind the hand-over; no late COMMIT lost; a second run from any state the first left opens no second writer; the endpoint only moves behind a finished hand-over; every step is one of `PrimaryHandover`; every run ends; after a success all servers converge |
| `switchover_crash` | 4 nodes (one an observer that may be pinned, two repointed in turn, specification order differs from ID order), two without super_read_only, a SUPER transaction, one crash | the inductive invariant; success means the promised topology on every server that did not crash after it was verified |
| `switchover_errant` | 2 nodes, candidate writable at first, an ordinary and a SUPER transaction | *violated*: an errant transaction is promoted (below) |
| `failover_salvage` | 3 nodes, `salvage-if-possible`, SSH, one crash, fairness | types; an incomplete salvage, however it fails, never leads to a promotion; the candidate is closed again after the binlogs; success means the promised topology; every failover ends; after a success the repointed replicas get everything |
| `failover_stonith` | 2 nodes, ordinary and SUPER writer, three fencing steps, endpoint, two crashes | the inductive invariant; writes and the endpoint move only after the required STONITH, and only to a complete and open server, even if the old primary is alive behind a partition |
| `failover_again` | 3 nodes, 2 runs, no clients, `availability-first` | *violated*: the second failover opens a second writer (below) |
| `monitor_failover` | 2 nodes, threshold 2, two starts, a switchover beside the manager, a crash, partitions, receiver threads that lag behind, fairness | types; the secondary check and rediscovery follow a full threshold of consecutive misses; the death of the primary that was held is confirmed only after them and a missed rediscovery; in a cluster of one primary and its replicas it is the primary that is failed over, and it was silent for so long; a manager whose primary is down for good ends |
| `monitor_blocked` | 2 nodes, one start | *violated*: a blocked failover is recorded as completed (below) |
| `check_stars` | 4 nodes: stars around two servers, an observer in or out of replication, any open servers and stopped channels, one crash | the head is elected, and it alone; exit 0 means a working star |
| `gtid_sets` | 3-bit numbers, every interval, pairs listed backwards, invalid tokens, up to two intervals kept a side | parsing, inclusion, subtraction and printing mean what they mean for sets |
| `mha_process` | 13 headers, 17 node entries, up to 3 nodes; after the legal file the calls of a manager, a failover and a switchover with the process's controller ID and of a switchover with another one, fairness | an accepted specification keeps its promises; defaults fill gaps only; no legal file is refused; no leaked lease, closed records, leases returned, whether a call is let in, let in beside another or refused |
| `lease_one_id` | the legal file, the same calls, all with the one controller ID of their process | *violated*: two calls hold one lease (below) |

Why the bounds are enough. A switchover treats all nodes other than the old
primary and the candidate alike and one after the other, so two of them (four
nodes) show every interaction of the loops. One transaction is enough for a lost
write; the second one, in `failover_stonith`, adds the SUPER case. A second
run starts from every state a first can leave, a third adds nothing new to
that set of server states. One crash undoes one fence. `PublishLag = 1`
is the largest lag that three samples tolerate, and larger lags are excluded by
`SwitchoverAssumption`: between the first quiet count and the third equal GTID
read lie two ticks of 200 ms of which one full interval is certain, so a commit
that takes less than 200 ms from leaving `innodb_trx` to its GTID outlives at
most one of them. A server that takes longer can lose the write; that is an
assumption the code makes about MySQL and cannot check.

A failover adds the donor: three nodes give one candidate, one donor that is also
the replica to repoint, and one dead primary. `History` (one transaction that every server has from
before) keeps GTID sets from being empty, as they are in a cluster that was ever
written to. Two crashes in `failover_stonith` let the primary die, come back
and die again, or primary and candidate fail both.

The monitor needs a threshold of two for "consecutive" to mean something. Its second start
is the restart by systemd after a failed session, with a failover of its own. A switchover
beside it is enough to make its view stale. Two nodes leave no third to elect; the
theorems of `MonitorProofs` are for any number. Three bits hold every relation of two
intervals (apart, touching, overlapping, nested, equal, at either end of the range, with a
gap of one number or of more). Two kept intervals give a subtraction three to leave, and
`MaxIntervals` is needed at all because behind an interval that ends at the largest number
nothing is merged any more, and repeated tokens grow the list for ever. Source IDs do not
interact, so there is one. Four tasks are one of each kind of call and a rival. No command
gives a process a second controller ID, but the tests of the lease manager do, and nothing
else makes it refuse. Three nodes in a file put every defect first, between others and
last. The calls of a process are followed after one legal file only (`Followed`).

Deadlock is not checked except for `check-repl`: a finished command stops.

Fairness (`switchover_retry`, `failover_salvage`, `monitor_failover`, `mha_process`).
Planning and every executor action are weakly fair. What justifies it differs:

* Statements are ended by the read and write timeouts of their connection (mysql.go:50),
  the waits and the binlog dump by a context deadline (admin.go:51, binlog.go:36), the
  dial of SSH by its own (client.go:151).
* The scripts of the operator are not ended by anything: those of the writer endpoint
  (switch.go:112) and the hooks (shell.go:31) run under the context of the command, which
  has no deadline, and a fencing command (coordinator.go:75) only if its step has a timeout. That
  they return is an assumption about the installation. `RunTerminates` and `Converges` of
  `switchover_retry` rest on it for the two endpoint steps; a script that hangs keeps `mha
  switch` waiting. `failover_salvage` and `monitor_failover` have no endpoint, and their
  fence is the read-only statement. Hooks are in no model.

`CatchUpTimeout` is fair separately, because the catch-up loop is bounded by its own
deadline and not by the clients. Replication threads that run make progress.
Clients are not fair: a session may keep its transaction open for ever. Nor are
recovery of a server and the kill of the process. The ticks of the monitor are weakly
fair: the ticker ticks, and the probe, the checks and the rediscovery of a tick have
deadlines. `SecondaryNegative` is strongly fair: each check asks afresh, and a receiver
thread that has lost its source gives it up in the end, so positive answers cannot go on
for ever. A leased call goes on as long as its process runs and the calls inside it return
(`Progress`); the hand-over of a monitor is not fair, because a healthy primary never needs
one.

### Disagreements between documents and code

Four are shown by a run:

* `docs/mha-go-blueprint.md:298` says that LockCandidate closes the window for
  new errant GTIDs. The check for errant GTIDs is made once, on the view of
  BuildPlan (controller.go:77-88). LockCandidate does not repeat it, and
  `read_only` does not end transactions that are open. `switchover_errant`: a
  client begins on the writable candidate, the plan is made, the candidate is
  locked, the client commits, the candidate is promoted with a transaction no
  other server has.
* `docs/operations.md:147` says that `single_writer` enforces the single-writer
  invariant, and `docs/mha-go-blueprint.md:464` that an interrupted operation is
  resumed by running it again. `single_writer` is parsed and never read. When a failover
  ends between promotion and repointing (a kill, or an error answered to the last
  statement of the promotion), the remaining replica still points at the dead
  primary, so `selectPrimaryID` elects that one again (100 points per reference) and the next run
  promotes the remaining replica. `failover_again` ends with two open servers.
* `docs/operations.md:321` and `README.md:327`: the manager exits 0 after a successful
  failover, and `Restart=on-failure` covers the rest. A blocked plan is no error of
  `ExecutePlan`, so `engine.go:286` records "failover completed" and the manager
  exits 0 with nothing done. `monitor_blocked`: the primary comes back between its
  confirmed death and the plan; nobody monitors it any more.
* `docs/operations.md:320` says that the lease protects concurrent operations inside the
  current process, and `controller/switchover/executor.go:40` that it prevents concurrent
  switchovers. All callers pass the `controller.id` of the specification their process
  loaded, and an owner is never refused its own key (`memory.go:126`), so two operations
  in one process would hold one lease, and the first to end deletes it under the other
  (`memory.go:145`). `lease_one_id`: two calls with the one ID execute at once. No command
  starts two operations under one key today; should one come to do so, the lease
  will not keep them apart.

The others were met while translating the code. No listed run depends on them, and the
properties that come near one say in their comment or hypothesis what they leave out:

* `docs/operations.md:345` says that repoint-replicas redirects the other replicas, and
  `:267` that `no_master` only excludes a node from promotion. The code leaves `no_master`
  nodes out of repointing and of verification (actions.go:288, verify.go:66), so they go on
  replicating from the old primary.
* `docs/operations.md:147` again: an observer is exempt from the assessment but can be
  pinned. A `mha switch --new-primary` of an observer that ends after its promotion, followed
  by one without the flag, leaves the observer and the second candidate both open: nothing
  looks for a server that is already open. The same goes for a replica with `ignore_fail`.
  `AtMostOneWriter` is checked and proved where no such node can be promoted (`NeverExempt`).
* `docs/operations.md:176` says that `wait_for_replica_count` is only enforced at
  check time. `buildBlockingReasons` takes every error the assessment reports of the
  old primary except `primary_unhealthy`, among them the replica shortfall (and
  `semisync_required_but_disabled`, which is true of every dead primary), so with
  `semi_sync.policy: required` the failover of a dead primary is blocked.
* `docs/operations.md:449`: the hook `monitor.suspect` runs when the failures reach the
  threshold. It runs at the first failure (`engine.go:246`, on the transition of `:334`).
* `docs/operations.md:314`: the manager triggers a failover when the primary is
  dead. Its view is replaced by a reconfirmation only, so after a `mha switch` it goes on
  probing the old primary and does not notice the death of the new one.
* `docs/mha-go-blueprint.md:232` and `docs/operations.md:157`: "primary still dead" after
  consecutive probe failures. The reconfirmation judges the primary of the new view: after
  a switchover the rediscovery elects the new primary and one failed inspection of it
  confirms its death. (The plan that follows discovers again and is blocked if the server
  answers.) A session that starts after a failover stopped half-way can confirm a death in
  the same manner: it holds one server and its rediscovery elects another. `DeathConfirmed`
  therefore excludes such a switchover and speaks of a primary that all others replicate from.
* `docs/operations.md:148`: cascading replicas can be allowed. `selectPrimaryID` counts
  channels, so an intermediate with two replicas outweighs the primary with one.
* `docs/operations.md:147` once more: a writable replica is a warning, so check-repl exits
  0 with two open servers.
* `docs/operations.md:268`: `ignore_fail` downgrades errors to warnings. Those of threads,
  auto-position and source stay errors (`assessment.go:110-127`).
* `docs/operations.md:261`, `:166`, `:230`: node IDs are unique, observers are nodes,
  fencing kinds come from a list. `toDomain` checks none of these.

## 4. Proofs

Every theorem holds for all values of the constants: any number of nodes, transactions,
runs, crashes, layouts, file entries. It assumes what the modules assume of their constants
(each `ASSUME` is evaluated by TLC in the runs). Three of these assumptions have content:
`PublishLag + 2 <= StableSamples`, justified above, a finite set of nodes, which the
counts of the election and of the assessment need, and that each layout of `CheckRepl`
has one head. What a theorem needs beyond that is in its statement.

### Switchover

`Inductive` proves `IInv`, from which follow `TypeCorrect`, `NoLostWriteHolds` and
`SucceededTopologyHolds`. `NoLostWrite` (from the promotion on, every transaction that the
fence of the old primary excludes has ended there, and if it committed the candidate has it)
is not inductive: nothing in it says why the GTID snapshot was complete. `IInv` adds

* `DrainInv`: during sampling, after the k-th quiet sample in a row no excluded
  transaction is active and every one still *leaving* is at least k polls old (so
  none survives the last sample), and when the snapshot is final every committed
  one is in it;
* `SampleInv`: the counter is below its limit until the snapshot is final and
  starts at zero in every run;
* `FenceInv`: a fenced server is up and read-only, so no excluded transaction can
  begin;
* `PublishedInv`: committed transactions are in their server's gtid_executed;
* `PlanInv`: the candidate is not the old primary;
* `VerifiedInv`: what verification found of a server is still so, which is
  `SucceededTopology` before the last server has been looked at.

### One writer, and the refinement

`HandoverInductive` proves `HandoverInv`, which says for every state that a run, however it
ended, leaves behind: while no server has crashed there is a *head* (`HeadInv`). Every other
server is read-only, and what was committed anywhere is on the head. The head is the old
primary until the last statement of the promotion and the candidate from then on. The rest
is why the next run keeps this: what Discover saw of the channels is so (`ViewInv`), hence
the assessment refuses any plan in which the head is not the primary; what the fence
excludes and the old primary has is in the snapshot, then on the candidate
(`CompleteInv`); a server without a channel has an empty relay log, and no log holds what was
not committed (`LogInv`). From it follow

* `AtMostOneWriterHolds` and `EndpointFollowsHandoverHolds`, under `OrderlyCluster`: no
  observer and no `ignore_fail` node can be promoted, and at first no server but the primary
  is open. Both halves are necessary. With a promotable exempt node TLC finds two open
  servers on three nodes after three runs (the disagreement about pinned observers in
  section 3). Servers opened by hand are not mha-go's doing, and it closes the candidate only.
* `ImplementsHandoverHolds`: `Spec => ImplementsHandover`, where no node is exempt and
  promotable, the primary is open at first, no session outlasts read_only and no server
  crashes. Every action is shown to be an abstract one or a stutter: the fence of
  `LockOldPrimary` closes, the last statement of `PromoteCandidate` opens, `SwitchWriterEndpoint` reroutes,
  clients and replication write, commit and copy. The hypotheses are those under which the
  abstract promise is true of the servers; a restart may open a server.
* `CompleteWriterHolds`: the promise itself, of the servers and even after the crashes of a
  later part of the behaviour: until one happens, the one open server has everything that was
  committed. That the abstract hand-over implies it by itself is `OneCompleteWriterHolds`, with
  `InFlightHolds`.

### Failover

`FailoverInductive` proves `IInv`, from which follow `FailoverTypeCorrect`,
`NoKnownLossHolds`, `NoSplitBrainHolds`, `ClosedUntilPromotedHolds`,
`FailedOverTopologyHolds` and `EndpointFollowsFailoverHolds`, all without further hypotheses:
with crashes and restarts at any moment, kills, partitions and lost replies. The parts of `IInv`
follow the executor:

* `ViewInv`: the view is never ahead of the servers, and right about the modes of those that
  were not restarted since;
* `PlanInv`: a plan that is executed includes the binlog salvage wherever the policy requires
  recovery, and is not ahead of the candidate;
* `FenceInv`: an isolated old primary is down, so nothing is added to it while it is
  salvaged; the required STONITH steps among those already executed have worked;
* `BinlogInv`, `DonorInv`: what each stage of the salvage has brought to the candidate;
* `OpeningInv`, with `ClosedUntilPromoted`: while the candidate is open for the binlogs its
  mode to be restored is remembered;
* `OpenInv`, `VerifyInv`: as in the switchover; `ScriptInv`: the promotion stays in its script;
* `DownInv`: what runs on a server ends with it.

Type correctness needs the codes of blocking reasons as a set of their own (`Reasons`).

### Monitor

`MissedProbesHolds` and `ConfirmedAfterProbesHolds` need only `MonitorInv`: the property and
the counters, which the actions of `Failover` leave alone. `MonitorTypeCorrect` needs
`Ranges`, with the part of the failover's invariant (`WellFormed`) that survives an
operator's switchover beside it; `IInv` of `Failover` does not survive one.

`DeathConfirmedHolds` relates three discoveries: the one the session started with, the
rediscovery and the one of the plan. `SessionInv` says that a failover runs on behalf of a
session only and that views are empty outside the discoveries; `StarInv`, as long as no
switchover has interfered, that channels are what each view says (`Sighted`), that the
primary the session holds is the centre of the star, and that a confirmed one has been
silent. The election enters by `ReferredWins` of `DiscoveryProofs`: the only node that
channels point at is elected, dead or alive, because the weights of everything else add up to
less than one channel. The property speaks of a star because of a counterexample: in a
cluster of three that an earlier failover left half-way, a session may hold one server and
confirm the death of another it never probed (section 3).

### check-repl and the configuration

`CheckInductive` proves `CheckInv`: no fault changes a channel (`LayoutInv`), until a crash
every server runs as it was seen (`CalmInv`), and the report is about the view that was
filled in (`ReportInv`).

* `ElectsTheHeadHolds`: if all channels of a layout point at its head. With replicas of
  replicas it is false (the disagreement about cascading replicas).
* `ElectsOneHolds`: if no two nodes have the same ID, for which `toDomain` does not look. The
  maximum exists because scores are bounded (`LeastSomewhere`, from the well-foundedness of
  the natural numbers), it is positive because a node that answered is alive or points at one
  that gets a channel's weight (`SomeoneScores`), and the ID decides between equals.
* `HealthyMeansReplicatingHolds`: if cascading replicas are not allowed; where they are, the
  exit status does not say whom a replica follows.

`ConfigInductive` proves `ConfigInv` (what has been read at each stage is legal and in the
file's order), and from it `SpecRelyOnHolds`, `DefaultsFillGapsHolds` and
`RefusedForCauseHolds` follow for files of any length.

### Leases and GTID sets

`LeasesProofs`: `LeaseTypeCorrect`, `NoLeakHolds` and `RunsClosedHolds` for any calls and
any owners, the one ID of a process included. The invariant says which phases a command
passes, what is on record for each and that a key on record has a holder. Mutual exclusion
is not among the theorems: with one owner it is false (`lease_one_id`).

`GtidSetsProofs` proves the five invariants of `GtidSets` (`ParsedIsListedHolds`,
`SortedAndMergedHolds`, `ContainsIsInclusionHolds`, `SubtractIsDifferenceHolds`,
`PrintedCanBeReadHolds`) for texts of any length and numbers of every width, so the 64 bits
of the code included. The argument goes loop by loop:

* A fold of the community modules is a recursive function on the sets of positions, defined
  by CHOOSE. `FoldTable` proves that one exists (by induction on the number of positions)
  and `FoldIsTrace` that it goes through a trace, one value per iteration. The provers
  cannot instantiate a lemma with an operator parameter, so `Induction` is stated of a set,
  and the step from a fold to its trace is repeated for each loop (`SortedTrace`,
  `MergeTrace`, `ReachTrace`, `SubtractTrace`).
* For each loop, an invariant of its iterations and then what it computes: `SortedIs`;
  `MergeIsUnion` and `NormalizeIsCanonical`; `ReachIsInclusion` and
  `ContainsIntervalsIsInclusion`; `CutIsDifference`, `SubtractIntervalIsDifference` and
  `SubtractIsSetDifference` (with `CutStaysInside`: no piece leaves its interval).
* `Normal` is what the loops keep and need: starts in order, a gap between neighbours
  unless an interval before them ends at the largest number. There `End+1` wraps to 0 and
  `normalizeIntervals` leaves what follows unmerged; `ReachIsInclusion` shows that the
  cursor never has to look behind such an interval.
* `GtidInductive`: the lists are `Normal` and stand for what was listed.

`GtidSetsAssumption` says that `2^Width` is a natural number, which the provers do not know,
and that tokens consist of raw intervals of one or two numbers in range, which is what
`strconv.ParseUint` lets through.

### Only model-checked

* Liveness: `RunTerminates`, `Converges`, `DeathHandedOver`, `LeaseReturned`. Fairness and
  ENABLED are out of the prover's reach.
* The four violated properties, which are false.

## 5. Not modelled, and what is left of the plan

Worth adding: an abstract hand-over for `Failover`, whose promise is weaker (writes of a dead
primary may be lost by policy), and the proof that it is implemented; a statement about
one writer that survives a crash, which needs the option files of the servers in the model.

Not modelled: the decoding of YAML, TOML and JSON (libraries), DSN, TLS and secret
handling, SSH dialling and streaming, shell quoting, printing, hooks and
logging (no influence on control), the static discoverer (for demonstrations), the
agent interfaces (not implemented) and `salvager.go` (not used). The time to live
of a lease is a parameter no code reads.

A `monitor.interval` of zero or less makes `time.NewTicker` panic; the loader accepts it
(`spec.go:170`). It is listed as a hazard and needs no model.
