# A verification of the MySQL HA controller

This directory specifies the control plane of this repository in TLA+: how the
`ha-controller` processes start, elect a leader, watch the MySQL servers, and
move the primary role between them through Etcd and the `mysql-agent` of each
server.  TLC checks the specification on small instances, and TLAPS proves the
central properties for any number of nodes, controllers and calls.

## The system

| part | source | what it does |
| --- | --- | --- |
| controller | `internal/ha/controller.go` | probes the nodes, alerts, and carries out a switchover |
| store | `internal/store/store.go` | cluster record, switch lock, switch authorization, tasks and leader election in Etcd; `MemoryStore` without Etcd |
| agent | `internal/agent/server.go`, `client.go` | HTTP handlers that change the role of one MySQL server, after asking Etcd whether the operation is authorized |
| MySQL client | `internal/mysql/client.go` | the SQL statements of an agent, and the status of a server |
| API | `internal/api/server.go` | switchover, automatic-failover flag, status, tasks |
| model, config | `internal/model`, `internal/config` | records and settings |
| alert, fence, route | `internal/alert`, `internal/fence`, `internal/route` | a webhook; two interfaces with no-op implementations |
| processes | `cmd/controller`, `cmd/mysql-agent`, `cmd/alert-receiver`, `cmd/state-migrate`, `cmd/pki-gen` | main programs and tools |

A switch reads the cluster record (primary, epoch, flag), queues for
`/switch-lock/` under a lease, publishes `/switch-operation` under the same
lease, reads the record again, and records a task.  It then has the old primary
demoted, confirms that it is read-only, reads its GTID set, has the target wait
for that set and promoted, writes the record with the next epoch by
compare-and-swap, and points the other nodes at the new primary.  Each agent
compares epoch and operation with Etcd before it acts.  Nothing stops a process
from losing its lease, its leadership or an answer between two of these steps.

A controller joins an election in Etcd, or leads at once on a `MemoryStore` if
Etcd is unreachable and not required.  While it leads it probes every node,
sends an event when a node is given up or recovers, records the first primary
that it detects, and, if the flag is on and the recorded primary has failed
often enough, calls `Switch` itself: for a dry run, unless
`HA_AUTO_FAILOVER_EXECUTE` says otherwise.

## The modules

| module | what it models |
| --- | --- |
| `HACluster` | nodes and the cluster record |
| `MySQL` | read-only flags, replication and transactions of every server; the statements the agent issues; what `Status` may report; writes, replication and restarts |
| `EtcdStore` | the keys in Etcd and each request of `EtcdStore` to them |
| `Agent` | the handlers `wait-gtid`, `demote`, `promote` and `replica`, one read or statement per step |
| `Controller` | `Switch` and `SetAutoFailover`, one call per step, leadership and crashes; the whole system and its properties |
| `EpochRegister` | abstract specification of the cluster record once it has a primary |
| `NodeStatus` | what `Status` reports, and which report makes a target fit |
| `TargetChoice` | `detectPrimary`, `chooseTarget`, `chooseDryRunTarget`, `failureAlert` as functions of the statuses |
| `LeaderTerm` | abstract specification of a controller's terms as leader |
| `LeaderElection` | the controller process around `RunLeaderElection`: sessions, keys, signals, crashes |
| `Monitor`, `MCMonitor` | `runAsLeader`, `probe` and `tryAutomaticFailover` beside the API's calls; the instances |
| `MemoryStore` | the methods of `MemoryStore`, called by `Switch` and `SetAutoFailover` |
| `Migration` | `state-migrate`, interrupted and repeated |
| `Startup` | `config.Load`, the choice of the store and `NewController` as functions of the environment |
| `MCElection` | the controller processes from `main` on: `Startup` and `LeaderElection` |
| `ControllerInv` | the inductive invariant |
| `MCController` | the instances for TLC |
| `BasicProofs`, `ControllerProofs`, `HandoverProofs`, `TopologyProofs` | proofs about `Controller`: the lemmas on single actions, the basic invariant and what follows from it, the handover, the replicas afterwards and the tasks |
| `ElectionProofs`, `MemoryStoreProofs`, `MonitorProofs`, `MigrationProofs` | proofs about `MCElection`, `MemoryStore`, `Monitor` with `TargetChoice`, and `Migration` |

`Controller` extends `Agent`, which extends `MySQL` and `EtcdStore`.  `Monitor`
extends `TargetChoice` and `LeaderTerm`; `LeaderElection` is shown to implement
`LeaderTerm`, so that the terms the monitoring lives with are those the election
gives.  `MySQL` and `TargetChoice` share `NodeStatus`.

### The switchover: `Controller`

**State.** `mode`, `source`, `running` and `executed` are the servers' flags,
source, replica threads and GTID set.  `cluster`, `clusterRev`, `ticket`,
`lease`, `operation` and `tasks` are the keys under `/ha/<name>/` with the
revisions that matter.  `req` and `hpc` are an operation's request at an agent
and where its handler is.  `pc`, `call`, `seen`, `casRev` and `todo` are the
program counter and local variables of a call.  `leading`, `tripping` and
`lastDryRunPrimary` are fields of `Controller`.  Two variables are history that
no action reads: `tainted` (a restart made this node writable) and `settled`
(this switch recorded its primary while it still had its lock key).

**Steps.** A controller's step runs from the return of one remote call to the
return of the next, so everything between two calls is one action, and
everything that can happen between two calls is an interleaving.  An error
return of any kind (a refused comparison, an unreachable server, a cancelled
context, a timeout) is `CallFails`, which is enabled wherever the code can
return an error and goes to the deferred functions that are registered by then.
A handler runs on when its caller has given up.  Statements that mysqld refuses
are disabled; `HandlerFails` is the error.

**Faults.** The constant `Faults` selects what may go wrong beyond failing
calls: `"lease"` (the lease of a running operation expires), `"crash"` (a
controller process ends), `"answer"` (a request of the deferred functions is
lost), `"leader"` (leadership ends).  An error of Etcd before those, with the
request applied or not, needs no fault of its own: the context of an operation
ends with its client, its leader and its lease (`StartTaskFails`, `CasTxn`,
`CallFails`).  `MayRestart` and
`BootWritable` say which servers restart and which of them come up writable:
`deploy/mysql/primary.cnf` sets `read_only=OFF`.

**Abstraction.** Nodes, operations and transactions are model values.  A GTID
set is a set of transactions.  Names, times, messages, HTTP, TLS and SQL text
are left out.  The lag is any number up to one above the limit, or unknown.  The
target of a switch is any node.  A switch in `Automatic` may be asked for by the
API or by `tryAutomaticFailover` (`call[o].automatic`), and by the latter at any
time, which allows more than the code does (`Monitor` has that).  Any number of
controllers may lead at once, which allows more than the election does
(`LeaderElection` has that).  Fencing and routing do nothing, as in the code.
`lastTask` is not kept.

### The leader's loop: `Monitor`

`statuses`, `failures`, `alertedNodes`, `tripping` and `lastDryRunPrimary` are
the fields of `Controller`; `outbox` and `read` are local variables of a probe and
`probing` is where `runAsLeader` is.  `health` is what each node would report,
`page` the last event on it that the webhook has received, `cluster` the record,
and `switch` the calls in progress: of `Switch`, by the probe and by the API, and
of `SetAutoFailover`, with the lock that they hold.  `reported` is history: the
recorded primary that an automatic dry run of this process was recorded for since
the process last saw it healthy (`KeepReported` forgets it when the record moves
on), and whether `PutTask` has told the process so (`known`).

`Poll` is the part of `probe` under the mutex.  It reads the nodes in one step:
they change independently of each other, so the reports that requests one after
the other collect are also reports of one moment.  `SendAlert`, `ReadRecord` and
`Bootstrap` are the requests that follow; `LeavePrimary` and `CallSwitch` are the
two ends of `tryAutomaticFailover`.  `Switch` has four points here: the first read
of the record (`SwitchRead`), the second one past the lock together with the check
of the target (`Admit`), the first `PutTask`, and its end.  The lock can be lost
between any two of them (`LoseLock`), and the next call then works beside the one
that has lost it.  A switch that executes moves the record
or fails; what it does to the servers is left to the environment, which may
change every report that the constant `Reports` allows.

`Faults` selects: `"term"` (a leader's context is cancelled), `"crash"` (a process
ends and another starts), `"lease"` (locks are lost), `"webhook"`, `"etcd"` and
`"task"` (a send, a request for the record or the first `PutTask` fails, the last
with the task recorded or not).  A dead context makes requests fail, too.  Without
`AlertWebhookURL` a send does nothing.

### The other modules

`LeaderElection` knows a session by the revision of its key.  `keys` are those that
exist, `ended` the controllers whose leader context is cancelled.  A lease runs out
when its process is gone, or, with `"lease"`, at any time; the process learns of it
later (`SessionDone`).  `Campaign` returns when no older key is left.

In `MemoryStore` every method is a critical section of its mutex; the lock is
refused, not waited for, and there is no lease.

`Migration` numbers the keys in Etcd's order, with the record first, and gives
each value the number of the write that made it; `origin` is history, the run that
put a key.  `Startup` has no state: its operators say what `main` makes of an
environment in which each variable is missing, malformed or a value around its
limits.  What all environments have in common in which a process gets to run is a
table (`WithinAssumptions`, `AsToldTo`), by whether Etcd has answered; `MCElection`
looks it up for each running process.  In the same way `ChoiceAgrees` and
`DryRunChoiceAgrees` of `TargetChoice` quantify over all maps of statuses, and
`Monitor` looks them up for the recorded primary.

## What is checked

Deadlock is not checked in the runs of `MCController`, `MemoryStore` and
`Migration`, because an instance makes a fixed number of calls and then may stop.

| run | instance | properties | states |
| --- | --- | --- | --- |
| `expired_leases` | 2 nodes, 2 switches, crashes, leases expire | `IInv`, `EpochTakenOnce`, `TasksExplainRecord`, `LateRequestRefused` | 260 000 |
| `restarted_servers` | 3 nodes, 1 switch, a write, all faults, restarts | `OneWriter`, `NoLostWrite`, `CompletedTopology` | 370 000 |
| `progress` | 2 nodes, a switch or automatic dry run, a `SetAutoFailover`, crashes, leases expire | `TypeOK`, `ImplementsRegister`, `OperationEnds` | 150 000 |
| `leader_terms` | 2 controllers, 5 sessions, crashes, lost answers, leases, Etcd down and not required; all environments with up to 2 agent entries | `TypeOK`, `OneLivingSession`, `ImplementsTerms`, `SomebodyLeads`, `StaleLeaderStops`, `RunsWithinAssumptions`, `RunsAsTold` | 31 000 |
| `node_alerts` | 3 nodes, threshold 2, no faults; all maps of statuses | `FeedAlternates`, `FeedSettles`, `OutageReported`, `ChoiceMatchesSwitch`, `DryRunLessStrict` | 46 000 |
| `dry_runs` | 2 nodes, no webhook, switchovers, the flag, every other fault | `TypeOK`, `DryRunOnce`, `RecordEstablished` | 370 000 |
| `memory_store` | 2 nodes, 3 switches, 2 settings | `TypeOK`, `HolderAuthorized`, `ImplementsRegister` | 530 000 |
| `migration` | 2 tasks, 3 runs, writes to both clusters | `OneSnapshot`, `RecordBeforeHistory` | 120 000 |

The switchover:

* `OneWriter`: at most one node is writable, as long as the system is
  `Undisturbed`: no switch has failed, crashed or lost its lock between the
  authorization of its promotion and the record of the new primary, and no
  restart has made a read-only node writable.  The condition names exactly the
  window in which the code gives no such guarantee (see `SingleWriter` below);
  a failure, crash or expiry at any other step is included in the claim.
* `NoLostWrite`: under the same condition the recorded primary, or the node
  that is being promoted, has every transaction that any node has executed.
* `CompletedTopology`: when `Switch` returns success, every other node is a
  read-only, running replica of the new primary, unless another switch has sent a
  request or a restart has made a read-only node writable.
* `ImplementsRegister`: the cluster record implements `EpochRegister`; only the
  next epoch changes the primary, and an epoch has one primary.
* `LateRequestRefused`: no agent starts to carry out a request of a switch
  whose lease has ended.
* `TasksExplainRecord`: the history of tasks explains the record.  Every epoch that
  it has reached has the task of a switch that asked for a promotion from the epoch
  before, that of the current epoch with the recorded primary as its target, and a
  task recorded as completed has moved the record.  Either write of a task may be
  lost or done in spite of an error, so the task of an epoch may be left as running
  or failed, and a task left as running may be of a switch that is long over.
* `EpochTakenOnce`: of the switches that read the same epoch at most one goes on to
  reconfigure the other nodes or is recorded as completed, although one that has
  lost its lease runs on beside the next.
* `IInv`: the inductive invariant of the proofs, which implies `OneWriter` and
  `NoLostWrite`; `expired_leases` checks it with two switches.
* `OperationEnds`: every call returns, or its controller crashes.

The other components:

* `ChoiceMatchesSwitch`: `chooseTarget` finds a node exactly when one passes the
  check that `Switch` makes, and then the one that lags least.  The two conditions
  are written differently; they agree because of what a healthy report contains.
  `DryRunLessStrict`: `chooseDryRunTarget` finds one whenever `chooseTarget` does,
  and one that an automatic dry run accepts.
* `OneLivingSession`: of the controllers that lead, one at most has its session in
  Etcd.  That there is one leader only (`UniqueLeader`) holds under conditions, and
  is proved under them (see below).
* `SomebodyLeads`, `StaleLeaderStops`: an election without a leader ends, also after
  a crash that leaves a key behind; a leader without a session stops.
* `FeedAlternates`, `FeedSettles`: the events on a node alternate, and the last one
  is right if the node's health is.  They are stated without failing sends, which
  the code does not repeat.
* `OutageReported`: an outage that lasts gives a dry-run task, however many have
  come and gone before.  `DryRunOnce`: a process that knows of a dry run for the
  recorded primary asks for no second one until it has seen the primary healthy.
  It knows when the first `PutTask` has returned without an error.
* `RecordEstablished`: the detection of a primary takes no epoch, compares nothing,
  and can be undone by a probe or a `SetAutoFailover` that has read the record
  before it.  Once a primary is recorded and no such probe or call is under way
  (`Established`), this stays so, and the record moves as `EpochRegister` says.
* `HolderAuthorized`: a working switch is the authorized one, a released one is not.
* `OneSnapshot`: what was copied comes from one read of the source.
  `RecordBeforeHistory`: no copied task without a cluster record.
* `RunsWithinAssumptions`: what the other modules assume of the settings holds in
  every process that runs.  `RunsAsTold`: a process promotes by itself only if
  `HA_AUTO_FAILOVER_EXECUTE` is true and `HA_EXECUTE_ACTIONS` is not false, makes
  every switch a dry run only if the latter is false, and runs on a `MemoryStore`
  only if `HA_REQUIRE_ETCD` is not true.

**Bounds.** Two operations are enough for every pairwise race: a stale and a
fresh switch, a switch and a setting, a waiting and a crashed holder of the
lock.  With two nodes and two switches the second returns the role to the node
that the first has demoted, or goes for the same target as a first one that has
lost its lock and is still at work; the third node of `restarted_servers` is the replica that takes no part
in the handover, and the third of `interrupted_promotion` the second target.  More
nodes, controllers and switches are left to the proofs.  Epochs, revisions and lock tickets are bounded by the number of
operations.  `Restored` is not empty, because a switch refuses an empty GTID
set.  `restarted_servers` has one more transaction to commit, at any moment.
Symmetry is used only for safety, and only among switches, controllers and
nodes that no constant tells apart.

A failure threshold of 2 tells a first failure from a repeated one
(`node_alerts`); `dry_runs`, which is about the calls that follow, has 1.  In
`node_alerts` node 1 goes down and the others lose their source; with three nodes
several events are in one probe.  `dry_runs` has one epoch to go, so that dry
runs and settings of the flag meet a record that a switch has moved.  Five
sessions let both controllers of `leader_terms` come back after a crash.

**Fairness.** `FairSpec` assumes of a running operation that it goes on: each
call returns, if only with the timeout of the client (5 s and 75 s in
`agent/client.go`) or an error of Etcd.  The wait for the lock is different, as
`mutex.Lock` has no timeout: it is only assumed to return when the lock is free,
or with an error when the own key is gone.  The lease of an operation that has
ended or crashed is assumed to run out, since nothing keeps it alive.  Nothing is
assumed of clients, servers, agents or leadership.

In `Monitor`, a leader's loop goes on, since every request it makes has a timeout
and the ticker fires, and a controller without rivals is elected.  A call of
`Switch` goes on strongly fairly: the lock that it waits for is given in the order
of the tickets, so one that is free again and again is granted.  In
`LeaderElection` the loop of a process goes on, its watch of the session included,
and a lease that nobody keeps alive ends; nothing is assumed of `Start`, of
signals, or of the lease of a living process.

## Where the code does otherwise

Four runs end in a counterexample, each against a statement of the repository.

* `interrupted_promotion` (`SingleWriter`): a switch gives up because the answer
  to `promote` is late.  The agent finishes, the node is writable, and the record
  still names the old primary.  The next switch demotes and confirms the old
  primary only, and promotes another target: two nodes are writable.
  `controller.go:386` says "could not be confirmed read-only; refusing promotion".
* `stale_release` (`ActiveOperationAuthorized`): the release function deletes
  `/switch-operation` whoever owns it (`store.go:251`).  A switch that has lost
  its lease thus takes away the authorization of its successor, whose requests
  are then refused; `store_test.go:69` says "active operation rejected".
* `stale_flag` (`StaleWriterRejected`): `Switch` writes back the record that it
  read before it waited for the lock, and with it an old automatic-failover flag.
  Setting the flag does not move the epoch, so `PutClusterIfEpoch` accepts it;
  its test is called `TestPutClusterIfEpochRejectsStaleWriter`.
* `lost_task` (`OutageReported`): a first `PutTask` that fails leaves `tripping` set,
  because its reset is deferred later (`controller.go:351`), and no outage is
  reported until a switchover by the API resets it; `README.md:68` describes the
  task.

Other disagreements are not runs of their own.  Each is a condition of a property
above, or a step that the models have and a property allows for:

* Agents check the authorization before the first statement only, so a node can
  become writable after its operation has been released; `LateRequestRefused` is
  about the start of a request, and `Undisturbed` names the window.
* A leader whose lease has run out leads until it notices and its probe ends, beside
  the next one, although `README.md:3` says "唯一 Leader": `OneLivingSession` and the
  conditions of `LeaderIsUnique`.  `Controller` therefore lets any number of
  controllers lead, and its properties hold all the same.
* The note of the last dry run is cleared only while automatic failover is on
  (`controller.go:187`).  After an outage, a recovery with the flag off and the flag
  on again, the next outage is not reported; `OutageReported` is checked without
  changes of the flag.
* `PutCluster` in `probe` compares nothing (`controller.go:150`), and with two
  leaders one that lags behind takes the record back to epoch 0, if its probe has
  read the record before there was a primary: `Established` names the window.
* A first `PutTask` that is applied and still returns an error leaves a dry-run task
  that the process does not know of.  When the end of a switchover by the API resets
  `tripping`, the next probe of the same outage records a second one: hence `known`
  in `DryRunOnce`.
* `tryAutomaticFailover` passes on the target but not the primary
  (`controller.go:211`); if a switchover ends in between, the automatic switch
  leaves the primary that it has installed.  `Monitor` has this behaviour; no
  document forbids it, so no property is about it.
* A malformed `HA_REQUIRE_ETCD` counts as false, and a controller that finds Etcd
  unreachable then leads alone: `RunsAsTold` is about values that parse.
* `state-migrate` overwrites the record of a controller that starts on the
  destination while the tool runs; it looks for keys there only once.

## What is proved

The proofs hold for any sets of nodes, controllers, operations and transactions,
and, where the table names no condition, for any faults and any restarts.  The
assumptions on the constants are named in the modules that declare them: `None`
is neither a node nor an operation, subsets are subsets, bounds are numbers, node
identities are ordered as numbers are (`OrderAssumption`), a variable that is
missing or malformed is not a value (`StartupAssumption`), and the threshold is
not zero (`MonitorAssumption`, which `RunsWithinAssumptions` justifies).

| theorem | states |
| --- | --- |
| `BasicInvariant` | `Spec => []BasicInv` |
| `TypeCorrect` | `Spec => []TypeOK` |
| `RegisterImplemented` | `Spec => ImplementsRegister` |
| `LateRequestsRefused` | `Spec => LateRequestRefused` |
| `KeptSessionsAuthorize` | `Spec => []ActiveOperationAuthorized`, if no `"lease"` fault |
| `SwitchesRejectStaleWriters` | `Spec => StaleWriterRejected`, if `Settings = {}` |
| `SwitchLeavesReplicas` | `Spec => []CompletedTopology` |
| `HistoryExplainsRecord` | `Spec => []TasksExplainRecord` |
| `OneSwitchPerEpoch` | `Spec => []EpochTakenOnce` |
| `InductiveInvariant` | `Spec => []IInv` |
| `OneWriterHolds` | `Spec => []OneWriter` |
| `NoLostWriteHolds` | `Spec => []NoLostWrite` |
| `ElectionTyped` | `Spec => []TypeOK`, for `LeaderElection` |
| `ControllersRunWithinAssumptions` | `Spec => []RunsWithinAssumptions` |
| `ControllersRunAsTold` | `Spec => []RunsAsTold` |
| `LivingSessionIsUnique` | `Spec => []OneLivingSession` |
| `LeaderIsUnique` | `Spec => []UniqueLeader`, if `RequireEtcd` and no `"lease"` fault |
| `ElectionImplementsTerms` | `Spec => ImplementsTerms` |
| `StoreTyped` | `Spec => []TypeOK`, for `MemoryStore` |
| `WorkerAuthorized` | `Spec => []HolderAuthorized` |
| `StoreImplementsRegister` | `Spec => ImplementsRegister`, for `MemoryStore` |
| `ChosenTargetIsBest` | `Spec => []ChoiceMatchesSwitch`, for `Monitor` |
| `DryRunTargetAdmitted` | `Spec => []DryRunLessStrict`, for `Monitor` |
| `MonitorTyped` | `Spec => []TypeOK`, for `Monitor` |
| `AlertsAlternate` | `Spec => FeedAlternates`, for one controller with a webhook, without `"term"`, `"crash"`, `"webhook"` |
| `RecordStaysEstablished` | `Spec => RecordEstablished` |
| `OneDryRunPerOutage` | `Spec => DryRunOnce`, if `ExecuteActions` and not `AutoFailoverExecute` |
| `CopyIsOneSnapshot` | `Spec => []OneSnapshot` |
| `RecordComesFirst` | `Spec => []RecordBeforeHistory` |

`BasicInv` needs no condition.  It says that an operation's copy of the record is
never ahead of it and agrees on the primary while the epoch is the same
(`SeenInv`), that the revision compared by the swap stands for the compared epoch
(`CasInv`), that an operation past the lock is first in the queue for as long as
its key exists (`LockInv`), and that request, handler and step of a switch fit
together (`CallInv`, `RequestInv`).  It implies that the record is a register: a
swap that succeeds finds the epoch, hence the primary, that the operation read.

`LateRequestRefused` needs one more fact, `AuthorizedLease`: the published
operation has a living lease.

Two theorems mark off what the counterexamples `stale_release` and `stale_flag`
need.  As long as the sessions of running operations are kept alive, an operation
past the lock has its key (`Held`), so there is one at a time, and the release that
deletes `/switch-operation` is always that of its owner; crashes and lost answers
do not matter.  As long as nobody sets the flag, the flag that an operation has
read is the recorded one (`FlagInv`), and with `SeenInv` the whole record is.

`IInv` adds what an undisturbed system keeps.  `HandoverInv`: the record does not
move under a switch that still has its lock (`RecordHeld`), the old primary stays
read-only from its confirmation to the new record (`OldPrimaryFrozen`), and only
the recorded primary or the node being promoted is writable.  `WritesInv`: the
GTID set that a switch waits for is all there is, because the old primary was
frozen when it was read, and so the promoted node has everything.  `OneWriter` and
`NoLostWrite` are not inductive without these: the moment at which the new
primary becomes writable is safe only because of a check four calls earlier and
of a lock that is still held.  The proof has one case per action
(`HandoverProofs`), after lemmas that say what an action leaves alone
(`OthersKeep`, `LocalStep`, `OnlyCasWrites` in `BasicProofs`, `StepKinds` in
`ControllerProofs`).

`TopologyInv` follows the reconfiguration loop.  `LoopInv`: the node whose answer a
switch waits for is still in `todo`, and `todo` is empty when the switch completes.
`Rejoined`: the nodes that are no longer in `todo` are running read-only replicas
of the target, and the handler at work has brought its node as far as its next
statement says (`Rejoining`).  The poll of `replica` does not look at the source, so
the invariant has to know it from the statements before.  It is claimed for a
switch that is `Alone`: no other one has sent a request, so the only handler that
runs statements is its own, and a restart keeps source and threads.  Both parts of
`Alone` are lost for good once they are lost, which makes the claim inductive.

`TaskInv` says which task goes with each step of a switch (`TaskOf`): none before
its first write, one for as long as it sends requests, and from the loop over the
other nodes on, or once the task is completed, a record that has moved past the
epoch that was read and, if by one, to the target (`Recorded`).  The record of
others moves on meanwhile, so the last part rests on the epochs only growing
(`RecordedKept`), which `BasicInv` gives.  A swap that succeeds adds one epoch, and
the switch that makes it has a task that is running and has asked for the promotion
of its target; neither is taken back (`PromotedKept`), and so every epoch keeps its
explanation (`ExplainStep`).  `EpochTakenOnce` follows from `TaskInv` as well: the
swap of a switch succeeds only at the epoch that it read, and by `Recorded` a switch
that has taken that epoch before would have moved the record past it.

The election needs that the key of a session is older than the next revision and
belongs to one controller, and that a leader with a living key has the oldest one.
`MemoryStore` needs that the calls between `AcquireLock` and `release` are one at
a time, and that the operation is that call's, or none.
`RunsWithinAssumptions` and `RunsAsTold` follow from `config.Load`, variable by
variable, for any range of numbers and any number of agents.

`FeedInv` ties a probe to the feed: an event in the outbox is the next one for
its node, and with no event in it `alertedNodes` is the set of nodes whose last
event is an alarm.  Its conditions are those that a second process and a failing
send violate.  `RecordEstablished` needs that a switch never goes for the primary
that it has read (`AimInv`).  The rest is in `Established`, which carries itself: a
probe that reads a record with a primary does not write one, a call that gets past
the lock has just read the record, and a write by epoch succeeds only at the epoch
of the call, where by `InOrder` it finds the primary that the call has read.  The
lock is not needed for this, so leases may end and leaders may be many.
`OutageInv` is about a controller that has `reported` the recorded primary and knows
it: its note is in `lastDryRunPrimary`, or the task that will leave it there is
under way; no call of the probe is on its way to a task; and a probe in progress
works on this primary and has not seen it healthy.  It holds beside any number of
other controllers and calls of the API.  With `AutoFailoverExecute` the code does
not look at the note (`controller.go:197`), and without `ExecuteActions` a
switchover by the API is a dry run that, once its lock is lost, can put an older
primary there, hence the conditions.
`ChosenTargetIsBest` rests on the least element of a set of numbers
(`LeastCandidate`), which gives the `CHOOSE` of `chooseTarget` its value for any
set of nodes.

`CopyInv` of the migration says that a run that puts has found the destination
empty: whatever the tool has put there since is this run's, and the record is there
already or is the first of what is still to come.

Only model-checked: the liveness properties `OperationEnds`, `SomebodyLeads`,
`StaleLeaderStops`, `FeedSettles` and `OutageReported`, since the prover does not
reason about fairness.  Every other property of a passing run is a theorem, under
the conditions of the table.  Only proved, and not checked by a run: `UniqueLeader`,
and `ActiveOperationAuthorized` and `StaleWriterRejected` under the conditions
under which they hold.

## Not modelled

* The agent's own start (`cmd/mysql-agent`, `LoadAgent`) opens files and connections
  and exits if one fails; it has no later state.
* `cmd/pki-gen` writes certificates, once.
* `internal/fence` and `internal/route` are interfaces whose implementations do
  nothing.
* `cmd/alert-receiver` appends what it gets to a list.  The events about switches
  and dry runs have no effect on the controller and are left out of `Monitor`.
* HTTP, TLS, JSON, the web page, logging and metrics: input and output without an
  effect on the state.  The handlers of the API are the calls they make.
* Time: the mutex that a probe holds over its status requests, the length of
  timeouts, and a probe interval that is not positive, on which the ticker of
  `runAsLeader` panics.
* `ExecuteActions = FALSE` together with `AutoFailoverExecute = TRUE` makes every
  probe of an outage record a dry run, since `tryAutomaticFailover` asks only the
  second setting whether one was reported.  `Monitor` allows it; no run has it,
  because no document says what should happen.
* `Switch` with an empty target is not reachable: the API refuses it and the probe
  always has one.
