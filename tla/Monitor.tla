------------------------------ MODULE Monitor ------------------------------
(***************************************************************************)
(* The leader's loop in internal/ha/controller.go: runAsLeader and probe,  *)
(* with the node alerts, the bootstrap of the cluster record and           *)
(* tryAutomaticFailover, beside the requests of the API.  Switch and       *)
(* SetAutoFailover are reduced to the points where they meet the loop;     *)
(* Controller has their details.                                           *)
(***************************************************************************)
EXTENDS TargetChoice, LeaderTerm, FiniteSetsExt

CONSTANTS
  FailureThreshold,     \* config.FailureThreshold
  ExecuteActions,       \* config.ExecuteActions
  AutoFailoverExecute,  \* config.AutoFailoverExecute
  AlertWebhookURL,      \* config.AlertWebhookURL is set
  Reports,              \* what the Status of each node may report
  Requests,             \* of "switch", "auto": what the API is asked for
  Faults,               \* of "term", "crash", "webhook", "etcd", "task", "lease"
  MaxEpoch              \* bound on the epochs of a behaviour

(* config.integer replaces a threshold below one by its default. *)
ASSUME MonitorAssumption ==
  /\ FailureThreshold \in Nat \ {0}
  /\ ExecuteActions \in BOOLEAN /\ AutoFailoverExecute \in BOOLEAN
  /\ AlertWebhookURL \in BOOLEAN
  /\ Reports \in [Nodes -> SUBSET AllReports]
  /\ MaxEpoch \in Nat

VARIABLES
  health,             \* what the Status of a node reports now
  statuses,           \* Controller.statuses, without the failure counts
  failures,           \* Controller.statuses[n].FailureCount, up to the threshold
  alertedNodes,       \* Controller.alertedNodes
  outbox,             \* alertEvents of the probe that are still to be sent
  page,               \* the last event on a node that the webhook has got
  probing,            \* where runAsLeader is
  read,               \* the record that the probe works on, until it has decided
  tripping,           \* Controller.tripping
  lastDryRunPrimary,  \* Controller.lastDryRunPrimary
  cluster,            \* the record in the store
  switch,             \* the calls of Switch and SetAutoFailover
  reported            \* history: the recorded primary that an automatic dry run was
                      \* recorded for since the controller last saw it healthy, and
                      \* whether the controller knows of the record

loopVars == <<statuses, failures, alertedNodes, outbox, probing, read>>
vars == <<term, health, loopVars, page, tripping, lastDryRunPrimary, cluster, switch, reported>>

(* The callers of Switch are tryAutomaticFailover and a handler of the API; *)
(* another handler calls SetAutoFailover.                                   *)
SwitchCallers == {"probe", "switchover"}
Callers == SwitchCallers \cup {"auto-failover"}

NoRecord == [primary |-> None, epoch |-> 0, auto |-> FALSE]
Idle == [step |-> "idle", target |-> None, seen |-> NoRecord, held |-> FALSE]
(* held: the lock is the call's. *)
Calls ==
  [step : {"idle", "call", "lock", "checked", "task"}, target : Nodes \cup {None},
   seen : ClusterState, held : BOOLEAN]
Unreported == [primary |-> None, known |-> FALSE]
Event(n, s) == [node |-> n, severity |-> s]
Events == [node : Nodes, severity : {"warning", "critical", "info"}]

TypeOK ==
  /\ term \in [Controllers -> Terms]
  /\ health \in [Nodes -> AllReports] /\ \A n \in Nodes : health[n] \in Reports[n]
  /\ statuses \in [Controllers -> [Nodes -> AllReports]]
  /\ failures \in [Controllers -> [Nodes -> 0..FailureThreshold]]
  /\ alertedNodes \in [Controllers -> SUBSET Nodes]
  /\ outbox \in [Controllers -> SUBSET Events]
  /\ page \in [Nodes -> {"none", "warning", "critical", "info"}]
  /\ probing \in [Controllers -> {"off", "first", "tick", "alerts", "bootstrap", "decide", "switch"}]
  /\ read \in [Controllers -> ClusterState]
  /\ tripping \in [Controllers -> BOOLEAN]
  /\ lastDryRunPrimary \in [Controllers -> Nodes \cup {None}]
  /\ cluster \in ClusterState
  /\ switch \in [Controllers -> [Callers -> Calls]]
  /\ reported \in [Controllers -> [primary : Nodes \cup {None}, known : BOOLEAN]]

(* A process starts with these; a status that was never read is zero. *)
NoStatuses == [n \in Nodes |-> NoReport(FALSE)]
NoFailures == [n \in Nodes |-> 0]

(* The record is missing, or an earlier process has left one. *)
Init ==
  /\ TermInit
  /\ health \in {h \in [Nodes -> AllReports] : \A n \in Nodes : h[n] \in Reports[n]}
  /\ statuses = [c \in Controllers |-> NoStatuses]
  /\ failures = [c \in Controllers |-> NoFailures]
  /\ alertedNodes = [c \in Controllers |-> {}]
  /\ outbox = [c \in Controllers |-> {}]
  /\ page = [n \in Nodes |-> "none"]
  /\ probing = [c \in Controllers |-> "off"]
  /\ read = [c \in Controllers |-> NoRecord]
  /\ tripping = [c \in Controllers |-> FALSE]
  /\ lastDryRunPrimary = [c \in Controllers |-> None]
  /\ cluster \in {NoRecord} \cup [primary : Nodes, epoch : {0}, auto : BOOLEAN]
  /\ switch = [c \in Controllers |-> [k \in Callers |-> Idle]]
  /\ reported = [c \in Controllers |-> Unreported]

(* A dry run counts as long as the record names its primary. *)
KeepReported ==
  reported' = [c \in Controllers |->
                 IF reported[c].primary = cluster'.primary THEN reported[c] ELSE Unreported]

-----------------------------------------------------------------------------
(* The environment. *)

NodeChanges(n) ==
  /\ \E r \in Reports[n] \ {health[n]} : health' = [health EXCEPT ![n] = r]
  /\ UNCHANGED <<term, loopVars, page, tripping, lastDryRunPrimary, cluster, switch, reported>>

(* The terms are those of LeaderTerm: the election may let them overlap.   *)
Elect(c) ==
  /\ BeginTerm(c)
  /\ "term" \in Faults \/ term'[c] = "leading"
  /\ probing' = [probing EXCEPT ![c] = "first"]
  /\ UNCHANGED <<health, statuses, failures, alertedNodes, outbox, read, page, tripping,
                 lastDryRunPrimary, cluster, switch, reported>>

Cancel(c) ==
  /\ "term" \in Faults
  /\ CancelTerm(c)
  /\ UNCHANGED <<health, loopVars, page, tripping, lastDryRunPrimary, cluster, switch, reported>>

(* runAsLeader looks at its context between two probes. *)
StepDown(c) ==
  /\ EndTerm(c)
  /\ probing[c] = "tick"
  /\ probing' = [probing EXCEPT ![c] = "off"]
  /\ UNCHANGED <<health, statuses, failures, alertedNodes, outbox, read, page, tripping,
                 lastDryRunPrimary, cluster, switch, reported>>

(* The process ends and another one starts (NewController). *)
Restart(c) ==
  /\ "crash" \in Faults
  /\ BreakOff(c) \/ (term[c] = "standby" /\ UNCHANGED term)
  /\ statuses' = [statuses EXCEPT ![c] = NoStatuses]
  /\ failures' = [failures EXCEPT ![c] = NoFailures]
  /\ alertedNodes' = [alertedNodes EXCEPT ![c] = {}]
  /\ outbox' = [outbox EXCEPT ![c] = {}]
  /\ probing' = [probing EXCEPT ![c] = "off"]
  /\ read' = [read EXCEPT ![c] = NoRecord]
  /\ tripping' = [tripping EXCEPT ![c] = FALSE]
  /\ lastDryRunPrimary' = [lastDryRunPrimary EXCEPT ![c] = None]
  /\ switch' = [switch EXCEPT ![c] = [k \in Callers |-> Idle]]
  /\ reported' = [reported EXCEPT ![c] = Unreported]
  /\ UNCHANGED <<health, page, cluster>>

-----------------------------------------------------------------------------
(* probe. *)

(* Mutant of FailureCounts: the count of the probe before is not used. *)
FailureCountsAnew(c, st) == [n \in Nodes |-> IF st[n].healthy THEN 0 ELSE 1]

FailureCounts(c, st) ==
  [n \in Nodes |-> IF st[n].healthy THEN 0
                   ELSE Min({failures[c][n] + 1, FailureThreshold})]

(* Mutant of Recovered: every healthy node is announced. *)
RecoveredAnyway(c, st) == {n \in Nodes : st[n].healthy}

(* The nodes that recover, and those that are given up. *)
Recovered(c, st) == {n \in alertedNodes[c] : st[n].healthy}
Failed(c, st) ==
  {n \in Nodes \ alertedNodes[c] : FailureCounts(c, st)[n] >= FailureThreshold}

(* The probe has found st. *)
Observe(c, st) ==
  /\ statuses' = [statuses EXCEPT ![c] = st]
  /\ failures' = [failures EXCEPT ![c] = FailureCounts(c, st)]
  /\ alertedNodes' = [alertedNodes EXCEPT ![c] = (@ \ Recovered(c, st)) \cup Failed(c, st)]
  /\ outbox' = [outbox EXCEPT ![c] =
       {Event(n, "info") : n \in Recovered(c, st)}
         \cup {Event(n, FailureAlert(st[n])) : n \in Failed(c, st)}]
  /\ reported' = [reported EXCEPT ![c] =
       IF @.primary # None /\ st[@.primary].healthy THEN Unreported ELSE @]

(* The statuses are read one after the other under the mutex; as the nodes *)
(* change independently of each other, what the probe finds is what one    *)
(* moment could have shown.  A request with a dead context fails.          *)
Poll(c) ==
  /\ probing[c] \in {"first", "tick"}
  /\ \E lost \in IF term[c] = "cancelled" THEN SUBSET Nodes ELSE {{}} :
       Observe(c, [n \in Nodes |-> IF n \in lost THEN NoReport(FALSE) ELSE health[n]])
  /\ probing' = [probing EXCEPT ![c] = "alerts"]
  /\ UNCHANGED <<term, health, read, page, tripping, lastDryRunPrimary, cluster, switch>>

(* alerts.Send, which does nothing without a URL; an error is logged. *)
SendAlert(c, e) ==
  /\ probing[c] = "alerts"
  /\ e \in outbox[c]
  /\ outbox' = [outbox EXCEPT ![c] = @ \ {e}]
  /\ \/ AlertWebhookURL /\ page' = [page EXCEPT ![e.node] = e.severity]
     \/ /\ ~AlertWebhookURL \/ "webhook" \in Faults \/ term[c] = "cancelled"
        /\ UNCHANGED page
  /\ UNCHANGED <<term, health, statuses, failures, alertedNodes, probing, read, tripping,
                 lastDryRunPrimary, cluster, switch, reported>>

ReadRecord(c) ==
  /\ probing[c] = "alerts"
  /\ outbox[c] = {}
  /\ read' = [read EXCEPT ![c] = cluster]
  /\ probing' = [probing EXCEPT ![c] = IF cluster.primary = None THEN "bootstrap" ELSE "decide"]
  /\ UNCHANGED <<term, health, statuses, failures, alertedNodes, outbox, page, tripping,
                 lastDryRunPrimary, cluster, switch, reported>>

ReadRecordFails(c) ==
  /\ "etcd" \in Faults \/ term[c] = "cancelled"
  /\ probing[c] = "alerts"
  /\ outbox[c] = {}
  /\ probing' = [probing EXCEPT ![c] = "tick"]
  /\ UNCHANGED <<term, health, statuses, failures, alertedNodes, outbox, read, page, tripping,
                 lastDryRunPrimary, cluster, switch, reported>>

(* detectPrimary and a PutCluster that compares nothing and whose error is *)
(* ignored; a record without a primary is written, too.                    *)
Bootstrap(c) ==
  /\ probing[c] = "bootstrap"
  /\ \E p \in DetectedPrimaries(statuses[c]) :
       LET state == [read[c] EXCEPT !.primary = p]
       IN  /\ read' = [read EXCEPT ![c] = state]
           /\ \/ cluster' = state
              \/ ("etcd" \in Faults \/ term[c] = "cancelled") /\ UNCHANGED cluster
  /\ probing' = [probing EXCEPT ![c] = "decide"]
  /\ KeepReported
  /\ UNCHANGED <<term, health, statuses, failures, alertedNodes, outbox, page, tripping,
                 lastDryRunPrimary, switch>>

-----------------------------------------------------------------------------
(* tryAutomaticFailover, on the primary of the record that probe has read. *)
(* Only a call of Switch writes what it reads in separate critical         *)
(* sections, so the last of them decides.                                  *)

Watched(c) == read[c].auto /\ read[c].primary # None
PrimarySeenHealthy(c) == statuses[c][read[c].primary].healthy

Suspected(c) ==
  /\ Watched(c)
  /\ ~PrimarySeenHealthy(c)
  /\ failures[c][read[c].primary] >= FailureThreshold
  /\ ~tripping[c]
  /\ AutoFailoverExecute \/ lastDryRunPrimary[c] # read[c].primary

(* Mutant of FailoverTarget: a dry run needs a target it could promote. *)
FailoverTargetStrict(c) == ChooseTarget(statuses[c], read[c].primary)

FailoverTarget(c) ==
  IF AutoFailoverExecute THEN ChooseTarget(statuses[c], read[c].primary)
  ELSE ChooseDryRunTarget(statuses[c], read[c].primary)

LeavePrimary(c) ==
  /\ probing[c] = "decide"
  /\ Suspected(c) => FailoverTarget(c) = None
  /\ lastDryRunPrimary' = [lastDryRunPrimary EXCEPT ![c] =
       IF Watched(c) /\ PrimarySeenHealthy(c) THEN None ELSE @]
  /\ read' = [read EXCEPT ![c] = NoRecord]
  /\ probing' = [probing EXCEPT ![c] = "tick"]
  /\ UNCHANGED <<term, health, statuses, failures, alertedNodes, outbox, page, tripping,
                 cluster, switch, reported>>

CallSwitch(c) ==
  /\ probing[c] = "decide"
  /\ Suspected(c)
  /\ FailoverTarget(c) # None
  /\ switch' = [switch EXCEPT ![c]["probe"] = [Idle EXCEPT !.step = "call", !.target = FailoverTarget(c)]]
  /\ read' = [read EXCEPT ![c] = NoRecord]
  /\ probing' = [probing EXCEPT ![c] = "switch"]
  /\ UNCHANGED <<term, health, statuses, failures, alertedNodes, outbox, page, tripping,
                 lastDryRunPrimary, cluster, reported>>

-----------------------------------------------------------------------------
(* Switch, for the probe and for the API. *)

DryRun(k) == ~ExecuteActions \/ (k = "probe" /\ ~AutoFailoverExecute)

Return(c, k) ==
  /\ switch' = [switch EXCEPT ![c][k] = Idle]
  /\ probing' = IF k = "probe" THEN [probing EXCEPT ![c] = "tick"] ELSE probing

(* A request of the call fails: Etcd does ("etcd", "task"), or the context *)
(* is dead with the term, the lease of the lock or the client of the API.  *)
Fails(c, k, fault) ==
  {fault, "lease"} \cap Faults # {} \/ term[c] # "leading" \/ k # "probe"

SwitchoverRequest(c, t) ==
  /\ "switch" \in Requests
  /\ term[c] = "leading"
  /\ switch[c]["switchover"].step = "idle"
  /\ switch' = [switch EXCEPT ![c]["switchover"] = [Idle EXCEPT !.step = "call", !.target = t]]
  /\ UNCHANGED <<term, health, loopVars, page, tripping, lastDryRunPrimary, cluster, reported>>

(* The state that the call works on is read again, ... *)
SwitchRead(c, k) ==
  /\ switch[c][k].step = "call"
  /\ term[c] = "leading"
  /\ switch[c][k].target # cluster.primary
  /\ switch' = [switch EXCEPT ![c][k] = [@ EXCEPT !.step = "lock", !.seen = cluster]]
  /\ UNCHANGED <<term, health, loopVars, page, tripping, lastDryRunPrimary, cluster, reported>>

(* The lock is taken; with "lease" it may be lost again at any time, before *)
(* the call looks at the state included.                                    *)
LockHeld == \E c \in Controllers, k \in Callers : switch[c][k].held
MayPassLock == ~LockHeld \/ "lease" \in Faults

LoseLock(c, k) ==
  /\ "lease" \in Faults
  /\ switch[c][k].held
  /\ switch' = [switch EXCEPT ![c][k].held = FALSE]
  /\ UNCHANGED <<term, health, loopVars, page, tripping, lastDryRunPrimary, cluster, reported>>

(* ... must not have changed under the lock, and the target must be fit    *)
(* for it.                                                                 *)
Admitted(c, k) ==
  LET call == switch[c][k]
  IN  /\ cluster.epoch = call.seen.epoch
      /\ cluster.primary = call.seen.primary
      /\ cluster.primary # None
      /\ EligibleReport(health[call.target], DryRun(k) /\ k = "probe")

Admit(c, k) ==
  /\ switch[c][k].step = "lock"
  /\ MayPassLock
  /\ Admitted(c, k)
  /\ switch' = [switch EXCEPT ![c][k] = [@ EXCEPT !.step = "checked", !.held = ~LockHeld]]
  /\ UNCHANGED <<term, health, loopVars, page, tripping, lastDryRunPrimary, cluster, reported>>

(* The first PutTask of an automatic dry run. *)
Report(c, k, known) ==
  reported' = [reported EXCEPT ![c] =
    IF k = "probe" /\ DryRun(k) /\ switch[c][k].seen.primary = cluster.primary
    THEN [primary |-> cluster.primary, known |-> known] ELSE @]

StartTask(c, k) ==
  /\ switch[c][k].step = "checked"
  /\ tripping' = [tripping EXCEPT ![c] = TRUE]
  /\ switch' = [switch EXCEPT ![c][k].step = "task"]
  /\ Report(c, k, TRUE)
  /\ UNCHANGED <<term, health, loopVars, page, lastDryRunPrimary, cluster>>

(* PutTask returns an error, whether or not the task is recorded, before   *)
(* the reset of tripping is deferred.                                      *)
StartTaskFails(c, k) ==
  /\ switch[c][k].step = "checked"
  /\ Fails(c, k, "task")
  /\ tripping' = [tripping EXCEPT ![c] = TRUE]
  /\ Report(c, k, FALSE) \/ UNCHANGED reported
  /\ Return(c, k)
  /\ UNCHANGED <<term, health, statuses, failures, alertedNodes, outbox, read, page,
                 lastDryRunPrimary, cluster>>

(* Every return before that. *)
SwitchRefused(c, k) ==
  /\ \/ switch[c][k].step = "call" /\ switch[c][k].target = cluster.primary
     \/ switch[c][k].step = "lock" /\ MayPassLock /\ ~Admitted(c, k)
     \/ switch[c][k].step \in {"call", "lock"} /\ Fails(c, k, "etcd")
  /\ Return(c, k)
  /\ UNCHANGED <<term, health, statuses, failures, alertedNodes, outbox, read, page, tripping,
                 lastDryRunPrimary, cluster, reported>>

(* Mutant of FinishDryRun: the primary is not remembered. *)
FinishDryRunUnnoted(c, k) ==
  /\ switch[c][k].step = "task"
  /\ DryRun(k)
  /\ tripping' = [tripping EXCEPT ![c] = FALSE]
  /\ Return(c, k)
  /\ UNCHANGED <<term, health, statuses, failures, alertedNodes, outbox, read, page, cluster,
                 lastDryRunPrimary, reported>>

FinishDryRun(c, k) ==
  /\ switch[c][k].step = "task"
  /\ DryRun(k)
  /\ lastDryRunPrimary' = [lastDryRunPrimary EXCEPT ![c] = switch[c][k].seen.primary]
  /\ tripping' = [tripping EXCEPT ![c] = FALSE]
  /\ Return(c, k)
  /\ UNCHANGED <<term, health, statuses, failures, alertedNodes, outbox, read, page, cluster,
                 reported>>

(* Mutant of FinishSwitch: the epoch counts down. *)
FinishSwitchEpochBefore(c, k) ==
  /\ switch[c][k].step = "task"
  /\ ~DryRun(k)
  /\ LET call == switch[c][k]
     IN  cluster' = [call.seen EXCEPT !.primary = call.target, !.epoch = @ - 1]
  /\ tripping' = [tripping EXCEPT ![c] = FALSE]
  /\ Return(c, k)
  /\ KeepReported
  /\ UNCHANGED <<health, statuses, failures, alertedNodes, outbox, read, page,
                 lastDryRunPrimary, term>>

(* Demotion, promotion and the rest, up to the record or to an error. *)
FinishSwitch(c, k) ==
  /\ switch[c][k].step = "task"
  /\ ~DryRun(k)
  /\ LET call == switch[c][k]
     IN  \/ UNCHANGED cluster
        \/ /\ cluster.epoch = call.seen.epoch
           /\ cluster.epoch < MaxEpoch
           /\ cluster' = [call.seen EXCEPT !.primary = call.target, !.epoch = @ + 1]
  /\ tripping' = [tripping EXCEPT ![c] = FALSE]
  /\ Return(c, k)
  /\ KeepReported
  /\ UNCHANGED <<term, health, statuses, failures, alertedNodes, outbox, read, page,
                 lastDryRunPrimary>>

-----------------------------------------------------------------------------
(* SetAutoFailover: a read and a write by epoch under the lock. *)

SetAutoRead(c, enabled) ==
  /\ "auto" \in Requests
  /\ term[c] = "leading"
  /\ switch[c]["auto-failover"].step = "idle"
  /\ MayPassLock
  /\ switch' = [switch EXCEPT ![c]["auto-failover"] =
       [step |-> "task", target |-> None, seen |-> [cluster EXCEPT !.auto = enabled], held |-> ~LockHeld]]
  /\ UNCHANGED <<term, health, loopVars, page, tripping, lastDryRunPrimary, cluster, reported>>

(* Mutant of SetAutoWrite: the epoch is not compared. *)
SetAutoWriteBlindly(c) ==
  /\ switch[c]["auto-failover"].step = "task"
  /\ cluster' = switch[c]["auto-failover"].seen
  /\ switch' = [switch EXCEPT ![c]["auto-failover"] = Idle]
  /\ KeepReported
  /\ UNCHANGED <<term, health, loopVars, page, tripping, lastDryRunPrimary>>

(* A write that fails may have been done. *)
SetAutoWrite(c) ==
  /\ switch[c]["auto-failover"].step = "task"
  /\ LET state == switch[c]["auto-failover"].seen
     IN  \/ cluster.epoch = state.epoch /\ cluster' = state
         \/ /\ cluster.epoch # state.epoch \/ Fails(c, "auto-failover", "etcd")
            /\ UNCHANGED cluster
  /\ switch' = [switch EXCEPT ![c]["auto-failover"] = Idle]
  /\ KeepReported
  /\ UNCHANGED <<term, health, loopVars, page, tripping, lastDryRunPrimary>>

-----------------------------------------------------------------------------
ProbeStep(c) ==
  \/ Poll(c) \/ (\E e \in outbox[c] : SendAlert(c, e)) \/ ReadRecord(c) \/ ReadRecordFails(c)
  \/ Bootstrap(c) \/ LeavePrimary(c) \/ CallSwitch(c)

SwitchStep(c, k) ==
  \/ SwitchRead(c, k) \/ Admit(c, k) \/ SwitchRefused(c, k) \/ StartTask(c, k) \/ StartTaskFails(c, k)
  \/ FinishDryRun(c, k) \/ FinishSwitch(c, k)

Next ==
  \/ \E n \in Nodes : NodeChanges(n)
  \/ \E c \in Controllers :
       \/ Elect(c) \/ Cancel(c) \/ StepDown(c) \/ Restart(c)
       \/ ProbeStep(c)
       \/ \E k \in SwitchCallers : SwitchStep(c, k)
       \/ \E t \in Nodes : SwitchoverRequest(c, t)
       \/ \E enabled \in BOOLEAN : SetAutoRead(c, enabled)
       \/ SetAutoWrite(c)
       \/ \E k \in Callers : LoseLock(c, k)

Spec == Init /\ [][Next]_vars

(* A leader's loop goes on, and so does a call: every request it makes has *)
(* a timeout, and the lock is given in the order of the requests for it.   *)
(* The nodes and the operators do what they like.                          *)
Fairness ==
  \A c \in Controllers :
    /\ WF_vars(Elect(c)) /\ WF_vars(ProbeStep(c)) /\ WF_vars(SetAutoWrite(c))
    /\ \A k \in SwitchCallers : SF_vars(SwitchStep(c, k))

FairSpec == Spec /\ Fairness

-----------------------------------------------------------------------------
(* Properties. *)

Alarm(n) == page[n] \in {"warning", "critical"}

(* The events on a node alternate as long as one process leads and its     *)
(* sends succeed: alertedNodes lets a failure pass once per outage, and a  *)
(* recovery only after a failure.                                          *)
FeedAlternates ==
  [][\A c \in Controllers : \A e \in outbox[c] :
       SendAlert(c, e) => (e.severity = "info" <=> Alarm(e.node))]_vars

(* The last event on a node is right in the end: a node that stays         *)
(* unhealthy ends with an alarm, one that stays healthy without one        *)
(* (README.md:68: alerts when the primary stops, recoveries when it is     *)
(* back), for every sequence of probes that comes before.                  *)
FeedSettles ==
  \A n \in Nodes :
    /\ <>[](~health[n].healthy) => <>[]Alarm(n)
    /\ <>[](health[n].healthy) => <>[](~Alarm(n))

(* Automatic failover is on, the recorded primary is down and every other  *)
(* node is fit for a dry run.                                              *)
Outage ==
  /\ cluster.auto /\ cluster.primary # None
  /\ ~health[cluster.primary].healthy
  /\ \A n \in Nodes \ {cluster.primary} : EligibleReport(health[n], TRUE)

(* An outage that lasts is reported by a dry-run task (README.md:68),      *)
(* however often the primary has failed and come back before.              *)
OutageReported == <>[]Outage => <>[](\E c \in Controllers : reported[c].primary = cluster.primary)

(* chooseTarget and the check in Switch are written separately, with       *)
(* different conditions on the lag and on the threads.  They agree,        *)
(* whatever the statuses are, for the primary that is recorded.            *)
ChoiceMatchesSwitch == ChoiceAgrees[cluster.primary]

(* chooseDryRunTarget is "less strict than the promotion candidate         *)
(* selector" (its comment), whatever the statuses are, for the primary     *)
(* that is recorded, and what it names is fit for a dry run.               *)
DryRunLessStrict == DryRunChoiceAgrees[cluster.primary]

(* One outage, one automatic dry run (README.md:68): once a process knows  *)
(* of one, it asks for no second one for a primary that it has not seen    *)
(* healthy in between, as long as it is the primary, whatever else asks    *)
(* for switches, fails or loses its lock meanwhile.  If the first PutTask  *)
(* returns an error it does not know, and a second task may follow.        *)
DryRunOnce ==
  [][\A c \in Controllers :
       StartTask(c, "probe") \/ StartTaskFails(c, "probe") =>
         ~(reported[c].known /\ reported[c].primary = switch[c]["probe"].seen.primary)]_vars

(* A record that was read and not replaced within its epoch. *)
InOrder(seen) ==
  \/ seen.epoch < cluster.epoch
  \/ seen.epoch = cluster.epoch /\ seen.primary = cluster.primary

(* A primary is recorded, no probe is about to record another one, and     *)
(* whoever is past the lock works on a record in order.                    *)
Established ==
  /\ cluster.primary # None
  /\ \A c \in Controllers :
       /\ probing[c] # "bootstrap"
       /\ \A k \in Callers :
            switch[c][k].step \in {"checked", "task"} => InOrder(switch[c][k].seen)

(* The unconditional PutCluster of a probe and the first reads without a   *)
(* primary can undo each other and a switch, but only as long as one of    *)
(* them is under way: once the record is established it stays so, and      *)
(* moves as EpochRegister says, with any number of leaders and locks lost. *)
Record == INSTANCE EpochRegister WITH register <- cluster
RecordEstablished ==
  [][Established =>
       /\ Established'
       /\ cluster' = cluster \/ Record!Advance \/ Record!SetAuto]_vars
=============================================================================
