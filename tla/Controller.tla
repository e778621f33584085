----------------------------- MODULE Controller -----------------------------
(***************************************************************************)
(* Controller.Switch and Controller.SetAutoFailover of                     *)
(* internal/ha/controller.go, running on several controllers against Etcd  *)
(* and the agents.  A step of an operation goes from the return of one     *)
(* call to the return of the next, or to the sending of a request to an    *)
(* agent.  A call that fails, times out, is cancelled or gives an answer   *)
(* the code refuses takes the code's error path (CallFails).               *)
(***************************************************************************)
EXTENDS Agent

CONSTANTS
  Controllers,         \* the ha-controller processes
  Settings,            \* operations that are SetAutoFailover calls
  Automatic,           \* switches that tryAutomaticFailover may ask for
  ExecuteActions,      \* config.ExecuteActions
  AutoFailoverExecute, \* config.AutoFailoverExecute
  Faults               \* which faults happen, of "crash", "lease", "answer", "leader"

ASSUME ControllerAssumption ==
  /\ Settings \subseteq Ops
  /\ Automatic \subseteq Ops \ Settings
  /\ ExecuteActions \in BOOLEAN
  /\ AutoFailoverExecute \in BOOLEAN
  /\ Faults \subseteq {"crash", "lease", "answer", "leader"}

VARIABLES
  pc,                 \* the call an operation is about to make or waits for
  call,               \* its controller and arguments
  seen,               \* state: the cluster state it read first
  casRev,             \* ModRevision that PutClusterIfEpoch compares with
  todo,               \* nodes the reconfiguration loop has not done
  leading,            \* controllers whose leader flag and leader context are set
  tripping,           \* Controller.tripping
  lastDryRunPrimary,  \* Controller.lastDryRunPrimary
  settled             \* history: switches recorded while their lock key existed

opVars == <<pc, call, seen, casRev, todo, settled>>
ctlVars == <<leading, tripping, lastDryRunPrimary>>
vars == <<mysqlVars, etcdVars, agentVars, opVars, ctlVars>>

Switches == Ops \ Settings

LockedSteps == {"putOperation", "recheck", "candidate", "putTask", "readState"}
TaskSteps ==
  {"demoting", "confirm", "gtid", "catchingUp", "promoting", "verify",
   "casGet", "casTxn", "reconfigure", "reconfiguring"}
(* task.State when Switch returns; the task's record is still to be written. *)
Outcomes == {"dry-run", "failed", "completed"}
PCs ==
  {"idle", "getCluster", "checkEpoch", "newSession", "lockWait",
   "deleteOperation", "unlock", "done", "crashed"}
    \cup LockedSteps \cup TaskSteps \cup Outcomes

Call ==
  [ctl : Controllers \cup {None}, target : Nodes \cup {None},
   automatic : BOOLEAN, enabled : BOOLEAN]

TypeOK ==
  /\ MySQLTypeOK /\ EtcdTypeOK /\ AgentTypeOK
  /\ pc \in [Ops -> PCs]
  /\ call \in [Ops -> Call]
  /\ seen \in [Ops -> ClusterState]
  /\ casRev \in [Ops -> Nat]
  /\ todo \in [Ops -> SUBSET Nodes]
  /\ leading \in SUBSET Controllers
  /\ tripping \in [Controllers -> BOOLEAN]
  /\ lastDryRunPrimary \in [Controllers -> Nodes \cup {None}]
  /\ settled \in SUBSET Ops

Init ==
  /\ \E p \in Nodes : MySQLInit(p) /\ EtcdInit(p, Automatic # {})
  /\ AgentInit
  /\ pc = [o \in Ops |-> "idle"]
  /\ call = [o \in Ops |->
       [ctl |-> None, target |-> None, automatic |-> FALSE, enabled |-> FALSE]]
  /\ seen = [o \in Ops |-> [primary |-> None, epoch |-> 0, auto |-> FALSE]]
  /\ casRev = [o \in Ops |-> 0]
  /\ todo = [o \in Ops |-> {}]
  /\ leading = {}
  /\ tripping = [c \in Controllers |-> FALSE]
  /\ lastDryRunPrimary = [c \in Controllers |-> None]
  /\ settled = {}

Goto(o, l) == pc' = [pc EXCEPT ![o] = l]

(* A request to Etcd that is made with the context of the call may return  *)
(* an error at any time, whether or not it has taken effect: the client of *)
(* the API, the leadership or the lease goes away, or the answer gets      *)
(* lost.  The deferred functions use a context that nobody cancels; their  *)
(* requests are lost only with Etcd itself.                                *)
EtcdFails == "answer" \in Faults

DryRun(o) == ~ExecuteActions \/ (call[o].automatic /\ ~AutoFailoverExecute)

-----------------------------------------------------------------------------
(* Up to the lock. *)

(* The target is the request's, or the one that tryAutomaticFailover chose *)
(* from what the last probe saw.                                           *)
BeginSwitch(o) ==
  /\ o \in Switches
  /\ pc[o] = "idle"
  /\ \E c \in leading, t \in Nodes, automatic \in BOOLEAN :
       /\ automatic => o \in Automatic
       /\ call' = [call EXCEPT ![o] =
            [ctl |-> c, target |-> t, automatic |-> automatic, enabled |-> FALSE]]
  /\ Goto(o, "getCluster")
  /\ UNCHANGED <<mysqlVars, etcdVars, agentVars, ctlVars, seen, casRev, todo, settled>>

BeginSetAutoFailover(o) ==
  /\ o \in Settings
  /\ pc[o] = "idle"
  /\ \E c \in leading, e \in BOOLEAN :
       call' = [call EXCEPT ![o] =
         [ctl |-> c, target |-> None, automatic |-> FALSE, enabled |-> e]]
  /\ Goto(o, "newSession")
  /\ UNCHANGED <<mysqlVars, etcdVars, agentVars, ctlVars, seen, casRev, todo, settled>>

GetCluster(o) ==
  /\ pc[o] = "getCluster"
  /\ cluster.primary # call[o].target
  /\ seen' = [seen EXCEPT ![o] = cluster]
  /\ Goto(o, "checkEpoch")
  /\ UNCHANGED <<mysqlVars, etcdVars, agentVars, ctlVars, call, casRev, todo, settled>>

(* AcquireSwitchLock compares the epoch before it asks for the lock. *)
CheckEpoch(o) ==
  /\ pc[o] = "checkEpoch"
  /\ cluster.epoch = seen[o].epoch
  /\ Goto(o, "newSession")
  /\ UNCHANGED <<mysqlVars, etcdVars, agentVars, ctlVars, call, seen, casRev, todo, settled>>

NewSession(o) ==
  /\ pc[o] = "newSession"
  /\ CreateLockKey(o)
  /\ Goto(o, "lockWait")
  /\ UNCHANGED <<mysqlVars, agentVars, ctlVars, call, seen, casRev, todo, settled>>

Lock(o) ==
  /\ pc[o] = "lockWait"
  /\ OwnsLock(o)
  /\ Goto(o, IF o \in Settings THEN "readState" ELSE "putOperation")
  /\ UNCHANGED <<mysqlVars, etcdVars, agentVars, ctlVars, call, seen, casRev, todo, settled>>

-----------------------------------------------------------------------------
(* SetAutoFailover under the lock. *)
ReadState(o) ==
  /\ pc[o] = "readState"
  /\ seen' = [seen EXCEPT ![o] = cluster]
  /\ Goto(o, "casGet")
  /\ UNCHANGED <<mysqlVars, etcdVars, agentVars, ctlVars, call, casRev, todo, settled>>

-----------------------------------------------------------------------------
(* Switch under the lock, up to its task. *)

(* The put may have happened although it returns an error. *)
PublishOperation(o) ==
  /\ pc[o] = "putOperation"
  /\ PutOperation(o)
  /\ Goto(o, "recheck") \/ Goto(o, "unlock")
  /\ UNCHANGED <<mysqlVars, agentVars, ctlVars, call, seen, casRev, todo, settled>>

(* Mutant of Recheck: the state read before the lock is trusted. *)
RecheckNothing(o) ==
  /\ pc[o] = "recheck"
  /\ Goto(o, "candidate")
  /\ UNCHANGED <<mysqlVars, etcdVars, agentVars, ctlVars, call, seen, casRev, todo, settled>>

Recheck(o) ==
  /\ pc[o] = "recheck"
  /\ cluster.epoch = seen[o].epoch
  /\ cluster.primary = seen[o].primary
  /\ cluster.primary \notin {None, call[o].target}
  /\ Goto(o, "candidate")
  /\ UNCHANGED <<mysqlVars, etcdVars, agentVars, ctlVars, call, seen, casRev, todo, settled>>

Eligible(o, st) == EligibleReport(st, DryRun(o) /\ call[o].automatic)

CheckCandidate(o) ==
  /\ pc[o] = "candidate"
  /\ \E st \in Status(call[o].target) : Eligible(o, st)
  /\ Goto(o, "putTask")
  /\ UNCHANGED <<mysqlVars, etcdVars, agentVars, ctlVars, call, seen, casRev, todo, settled>>

(* The task is recorded; a dry run ends here, any other switch asks the    *)
(* old primary's agent to demote it.                                       *)
StartTask(o) ==
  /\ pc[o] = "putTask"
  /\ PutTask(o, "running")
  /\ tripping' = [tripping EXCEPT ![call[o].ctl] = TRUE]
  /\ \/ /\ DryRun(o)
        /\ lastDryRunPrimary' = [lastDryRunPrimary EXCEPT ![call[o].ctl] = seen[o].primary]
        /\ Goto(o, "dry-run")
        /\ UNCHANGED agentVars
     \/ /\ ~DryRun(o)
        /\ Send(o, NewRequest("demote", seen[o].primary, seen[o].epoch, {}, None))
        /\ Goto(o, "demoting")
        /\ UNCHANGED lastDryRunPrimary
  /\ UNCHANGED <<mysqlVars, leading, call, seen, casRev, todo, settled>>

(* Mutant of StartTaskFails: the error is ignored. *)
StartTaskGoesOn(o) ==
  /\ pc[o] = "putTask"
  /\ ~DryRun(o)
  /\ tripping' = [tripping EXCEPT ![call[o].ctl] = TRUE]
  /\ Send(o, NewRequest("demote", seen[o].primary, seen[o].epoch, {}, None))
  /\ Goto(o, "demoting")
  /\ UNCHANGED <<mysqlVars, etcdVars, leading, lastDryRunPrimary, call, seen, casRev, todo, settled>>

(* PutTask fails: the switch returns before it has deferred the reset of   *)
(* tripping.  The record may have been written.                            *)
StartTaskFails(o) ==
  /\ pc[o] = "putTask"
  /\ tripping' = [tripping EXCEPT ![call[o].ctl] = TRUE]
  /\ PutTask(o, "running") \/ UNCHANGED etcdVars
  /\ Goto(o, "deleteOperation")
  /\ UNCHANGED <<mysqlVars, agentVars, leading, lastDryRunPrimary, call, seen, casRev, todo, settled>>

-----------------------------------------------------------------------------
(* The switch itself. *)

DemoteReply(o) ==
  /\ pc[o] = "demoting"
  /\ hpc[o] = "ok"
  /\ Goto(o, "confirm")
  /\ UNCHANGED <<mysqlVars, etcdVars, agentVars, ctlVars, call, seen, casRev, todo, settled>>

ConfirmReadOnly(o) ==
  /\ pc[o] = "confirm"
  /\ \E st \in Status(seen[o].primary) : st.reachable /\ st.readOnly /\ st.superReadOnly
  /\ Goto(o, "gtid")
  /\ UNCHANGED <<mysqlVars, etcdVars, agentVars, ctlVars, call, seen, casRev, todo, settled>>

ReadGTID(o) ==
  /\ pc[o] = "gtid"
  /\ Send(o, NewRequest("wait", call[o].target, seen[o].epoch, executed[seen[o].primary], None))
  /\ Goto(o, "catchingUp")
  /\ UNCHANGED <<mysqlVars, etcdVars, ctlVars, call, seen, casRev, todo, settled>>

WaitReply(o) ==
  /\ pc[o] = "catchingUp"
  /\ hpc[o] = "ok"
  /\ Send(o, NewRequest("promote", call[o].target, seen[o].epoch, {}, None))
  /\ Goto(o, "promoting")
  /\ UNCHANGED <<mysqlVars, etcdVars, ctlVars, call, seen, casRev, todo, settled>>

PromoteReply(o) ==
  /\ pc[o] = "promoting"
  /\ hpc[o] = "ok"
  /\ Goto(o, "verify")
  /\ UNCHANGED <<mysqlVars, etcdVars, agentVars, ctlVars, call, seen, casRev, todo, settled>>

VerifyPromoted(o) ==
  /\ pc[o] = "verify"
  /\ \E st \in Status(call[o].target) : st.healthy /\ st.role = "primary"
  /\ Goto(o, "casGet")
  /\ UNCHANGED <<mysqlVars, etcdVars, agentVars, ctlVars, call, seen, casRev, todo, settled>>

(* PutClusterIfEpoch reads the key and compares the epoch ... *)
CasGet(o) ==
  /\ pc[o] = "casGet"
  /\ cluster.epoch = seen[o].epoch
  /\ casRev' = [casRev EXCEPT ![o] = clusterRev]
  /\ Goto(o, "casTxn")
  /\ UNCHANGED <<mysqlVars, etcdVars, agentVars, ctlVars, call, seen, todo, settled>>

(* Mutant of NewState: the epoch is counted down. *)
NewStateEpochBack(o) ==
  [primary |-> IF o \in Settings THEN seen[o].primary ELSE call[o].target,
   epoch |-> seen[o].epoch - 1, auto |-> seen[o].auto]

(* ... and then writes the state that the operation read earlier, changed  *)
(* in what the operation is about.                                         *)
NewState(o) ==
  IF o \in Settings
    THEN [primary |-> seen[o].primary, epoch |-> seen[o].epoch, auto |-> call[o].enabled]
    ELSE [primary |-> call[o].target, epoch |-> seen[o].epoch + 1, auto |-> seen[o].auto]

(* The write may have happened although it returns an error. *)
CasTxn(o) ==
  /\ pc[o] = "casTxn"
  /\ PutClusterIfRev(casRev[o], NewState(o))
  /\ settled' = IF o \in Switches /\ ticket[o] > 0 THEN settled \cup {o} ELSE settled
  /\ todo' = [todo EXCEPT ![o] = IF o \in Switches THEN Nodes \ {call[o].target} ELSE {}]
  /\ \/ o \in Settings /\ Goto(o, "unlock")
     \/ o \in Switches /\ Goto(o, "reconfigure")
     \/ o \in Switches /\ Goto(o, "failed")
  /\ UNCHANGED <<mysqlVars, agentVars, ctlVars, call, seen, casRev>>

(* Mutant of Reconfigure: the other nodes are promoted too. *)
ReconfigurePromotes(o) ==
  /\ pc[o] = "reconfigure"
  /\ \E n \in todo[o] : Send(o, NewRequest("promote", n, seen[o].epoch, {}, None))
  /\ Goto(o, "reconfiguring")
  /\ UNCHANGED <<mysqlVars, etcdVars, ctlVars, call, seen, casRev, todo, settled>>

(* The loop visits the other nodes in the order of a map's iteration. *)
Reconfigure(o) ==
  /\ pc[o] = "reconfigure"
  /\ \E n \in todo[o] :
       Send(o, NewRequest("replica", n, seen[o].epoch, {}, call[o].target))
  /\ Goto(o, "reconfiguring")
  /\ UNCHANGED <<mysqlVars, etcdVars, ctlVars, call, seen, casRev, todo, settled>>

(* Mutant of ReplicaReply: the loop ends after its first node. *)
ReplicaReplyStops(o) ==
  /\ pc[o] = "reconfiguring"
  /\ hpc[o] = "ok"
  /\ todo' = [todo EXCEPT ![o] = {}]
  /\ Goto(o, "completed")
  /\ UNCHANGED <<mysqlVars, etcdVars, agentVars, ctlVars, call, seen, casRev, settled>>

ReplicaReply(o) ==
  /\ pc[o] = "reconfiguring"
  /\ hpc[o] = "ok"
  /\ todo' = [todo EXCEPT ![o] = @ \ {req[o].node}]
  /\ \/ todo'[o] # {} /\ Goto(o, "reconfigure")
     \/ todo'[o] = {} /\ Goto(o, "completed")
  /\ UNCHANGED <<mysqlVars, etcdVars, agentVars, ctlVars, call, seen, casRev, settled>>

-----------------------------------------------------------------------------
(* Every error return, and what is deferred by then. *)
CallFails(o) ==
  /\ \/ /\ pc[o] \in {"getCluster", "checkEpoch", "newSession"}
        /\ Goto(o, "done")
     \/ /\ \/ pc[o] \in {"lockWait", "putOperation", "readState"}
           \/ o \in Settings /\ pc[o] \in {"casGet", "casTxn"}
        /\ Goto(o, "unlock")
     \/ /\ pc[o] \in {"recheck", "candidate"}
        /\ Goto(o, "deleteOperation")
     \/ /\ o \in Switches
        /\ pc[o] \in TaskSteps
        /\ Goto(o, "failed")
  /\ UNCHANGED <<mysqlVars, etcdVars, agentVars, ctlVars, call, seen, casRev, todo, settled>>

(* The deferred functions, in the order they run.  An error of theirs is   *)
(* logged or ignored.  The local variables are gone by then; seen and call *)
(* are kept for the properties.                                            *)
Finish(o) ==
  /\ pc[o] \in Outcomes
  /\ tripping' = [tripping EXCEPT ![call[o].ctl] = FALSE]
  /\ PutTask(o, pc[o]) \/ (EtcdFails /\ UNCHANGED etcdVars)
  /\ Goto(o, "deleteOperation")
  /\ casRev' = [casRev EXCEPT ![o] = 0]
  /\ todo' = [todo EXCEPT ![o] = {}]
  /\ UNCHANGED <<mysqlVars, agentVars, leading, lastDryRunPrimary, call, seen, settled>>

ReleaseOperation(o) ==
  /\ pc[o] = "deleteOperation"
  /\ DeleteOperation \/ (EtcdFails /\ UNCHANGED etcdVars)
  /\ Goto(o, "unlock")
  /\ UNCHANGED <<mysqlVars, agentVars, ctlVars, call, seen, casRev, todo, settled>>

(* mutex.Unlock and session.Close. *)
Unlock(o) ==
  /\ pc[o] = "unlock"
  /\ EndLease(o) \/ DeleteLockKey(o) \/ (EtcdFails /\ UNCHANGED etcdVars)
  /\ Goto(o, "done")
  /\ UNCHANGED <<mysqlVars, agentVars, ctlVars, call, seen, casRev, todo, settled>>

-----------------------------------------------------------------------------
(* The controllers. *)

(* runAsLeader sets the leader flag and context; RunLeaderElection's        *)
(* session may have ended in Etcd before a leader notices it, so several   *)
(* controllers may lead.                                                   *)
BecomeLeader(c) ==
  /\ c \notin leading
  /\ leading' = leading \cup {c}
  /\ UNCHANGED <<mysqlVars, etcdVars, agentVars, opVars, tripping, lastDryRunPrimary>>

LoseLeadership(c) ==
  /\ "leader" \in Faults
  /\ c \in leading
  /\ leading' = leading \ {c}
  /\ UNCHANGED <<mysqlVars, etcdVars, agentVars, opVars, tripping, lastDryRunPrimary>>

(* The process ends: what it had in memory is gone, its leases remain. *)
Crash(c) ==
  /\ "crash" \in Faults
  /\ leading' = leading \ {c}
  /\ tripping' = [tripping EXCEPT ![c] = FALSE]
  /\ lastDryRunPrimary' = [lastDryRunPrimary EXCEPT ![c] = None]
  /\ pc' = [o \in Ops |-> IF call[o].ctl = c /\ pc[o] \notin {"idle", "done"}
                                 THEN "crashed" ELSE pc[o]]
  /\ UNCHANGED <<mysqlVars, etcdVars, agentVars, call, seen, casRev, todo, settled>>

OperationStep(o) ==
  \/ GetCluster(o) \/ CheckEpoch(o) \/ NewSession(o) \/ Lock(o) \/ ReadState(o)
  \/ PublishOperation(o) \/ Recheck(o) \/ CheckCandidate(o)
  \/ StartTask(o) \/ StartTaskFails(o)
  \/ DemoteReply(o) \/ ConfirmReadOnly(o) \/ ReadGTID(o) \/ WaitReply(o)
  \/ PromoteReply(o) \/ VerifyPromoted(o) \/ CasGet(o) \/ CasTxn(o)
  \/ Reconfigure(o) \/ ReplicaReply(o) \/ CallFails(o)
  \/ Finish(o) \/ ReleaseOperation(o) \/ Unlock(o)

AgentHandler(o) == AgentStep(o) /\ UNCHANGED <<opVars, ctlVars>>

(* An operation that is over no longer keeps its session alive; one that   *)
(* runs may fail to.                                                       *)
LeaseEnds(o) ==
  /\ pc[o] \in {"done", "crashed"} \/ "lease" \in Faults
  /\ LeaseExpires(o)
  /\ UNCHANGED <<mysqlVars, agentVars, opVars, ctlVars>>

Servers == MySQLStep /\ UNCHANGED <<etcdVars, agentVars, opVars, ctlVars>>

Next ==
  \/ \E o \in Ops :
       BeginSwitch(o) \/ BeginSetAutoFailover(o) \/ OperationStep(o)
         \/ AgentHandler(o) \/ LeaseEnds(o)
  \/ \E c \in Controllers : BecomeLeader(c) \/ LoseLeadership(c) \/ Crash(c)
  \/ Servers

Spec == Init /\ [][Next]_vars

(* A running operation goes on: every call returns, if only with the       *)
(* client's timeout.  The wait for the lock has no timeout; it returns     *)
(* when the lock is free or, with an error, when the own key is gone.      *)
(* The lease of an operation that is over is not kept alive.               *)
Fairness ==
  \A o \in Ops :
    /\ WF_vars(pc[o] # "lockWait" /\ OperationStep(o))
    /\ WF_vars(Lock(o))
    /\ WF_vars(pc[o] = "lockWait" /\ ticket[o] = 0 /\ CallFails(o))
    /\ WF_vars(pc[o] \in {"done", "crashed"} /\ LeaseEnds(o))

FairSpec == Spec /\ Fairness

-----------------------------------------------------------------------------
(* Properties. *)

(* A promotion that its agent has authorized and that is not recorded in   *)
(* the cluster state (or was recorded by a switch that had lost its lock). *)
Promoting(o) ==
  /\ o \notin settled
  /\ \/ req[o].kind = "promote" /\ hpc[o] \notin {"epoch", "operation", "forbidden"}
     \/ req[o].kind = "replica"

PromotionSteps == {"promoting", "verify", "casGet", "casTxn"}

(* No switch has failed, crashed or lost its lock between the              *)
(* authorization of its promotion and the record of the new primary, and   *)
(* no MySQL restart has made a read-only node writable.                    *)
Undisturbed ==
  /\ \A o \in Ops : Promoting(o) => pc[o] \in PromotionSteps /\ ticket[o] > 0
  /\ tainted = {}

(* At most one node accepts writes, whatever else goes wrong: controllers  *)
(* crash, switches overlap, leases expire, requests are late.              *)
OneWriter ==
  Undisturbed => \A m, n \in Nodes : Writable(m) /\ Writable(n) => m = n

(* Every transaction that some node has executed is on the recorded        *)
(* primary or, while a promotion is on its way to being recorded, on the   *)
(* node that is being promoted: a switch loses no committed write.         *)
NoLostWrite ==
  Undisturbed =>
    \E m \in Nodes :
      /\ m = cluster.primary \/ \E o \in Ops : Promoting(o) /\ m = call[o].target
      /\ \A n \in Nodes : executed[n] \subseteq executed[m]

(* When a switch returns success and no other one has sent a request,      *)
(* every node but the new primary is a read-only running replica of it,    *)
(* restarts and faults in between included.                                *)
CompletedTopology ==
  \A o \in Switches :
    /\ pc[o] = "completed"
    /\ \A p \in Ops \ {o} : req[p].kind = "none"
    /\ tainted = {}
    => \A n \in Nodes \ {call[o].target} :
         mode[n] = "sro" /\ source[n] = call[o].target /\ running[n]

(* The cluster state has moved on from the one the switch read, and the    *)
(* next epoch is its target's.                                             *)
Recorded(o) ==
  /\ cluster.epoch > seen[o].epoch
  /\ cluster.epoch = seen[o].epoch + 1 => cluster.primary = call[o].target

(* The task of a switch that has asked for a promotion and started from    *)
(* the epoch before e; of the epoch that is recorded it is the target's.   *)
Explains(o, e) ==
  /\ tasks[o] \in {"running", "failed", "completed"}
  /\ req[o].kind \in {"promote", "replica"}
  /\ e = seen[o].epoch + 1
  /\ e = cluster.epoch => call[o].target = cluster.primary

(* The history of tasks explains the record, whatever fails on the way and *)
(* whichever of its two writes of a task get lost: the record has reached  *)
(* no epoch without the task of the switch that took it there, which may   *)
(* be left as failed or running, and a task recorded as completed has made *)
(* its target the primary of the next epoch.                               *)
TasksExplainRecord ==
  /\ \A e \in 1..cluster.epoch : \E o \in Switches : Explains(o, e)
  /\ \A o \in Switches : tasks[o] = "completed" => Recorded(o)

(* The switch goes on with its target as the recorded primary. *)
LoopSteps == {"reconfigure", "reconfiguring", "completed"}
HasTaken(o) == pc[o] \in LoopSteps \/ tasks[o] = "completed"

(* Of the switches that read the same epoch at most one goes on to make    *)
(* the other nodes replicas of its target, or is recorded as completed,    *)
(* although one that has lost its lease runs on beside the next one.       *)
EpochTakenOnce ==
  \A o, p \in Switches : HasTaken(o) /\ HasTaken(p) /\ seen[o].epoch = seen[p].epoch => o = p

(* The recorded cluster state implements the abstract register: no stale   *)
(* controller moves the epoch back, takes an epoch twice or changes the    *)
(* primary without a new epoch.                                            *)
Register == INSTANCE EpochRegister WITH register <- cluster
ImplementsRegister == Register!RegisterSpec

(* Every call comes to an end: nobody waits forever for the lock of an     *)
(* operation that has crashed or could not release it.                     *)
OperationEnds ==
  \A o \in Ops : pc[o] # "idle" ~> pc[o] \in {"done", "crashed"}

(* No agent starts to carry out a request of a switch whose lease has      *)
(* ended: a request that arrives late, or waits between the two reads of   *)
(* VerifySwitchOperation, is refused once the lock is lost.                *)
LateRequestRefused ==
  [][\A o \in Switches :
       o \notin lease /\ hpc[o] \in {"epoch", "operation"} =>
         hpc'[o] \in {"epoch", "operation", "forbidden"}]_vars

(* Two nodes never accept writes at a time: controller.go:386 refuses a    *)
(* promotion as long as the old primary is not confirmed read-only.        *)
SingleWriter == \A m, n \in Nodes : Writable(m) /\ Writable(n) => m = n

(* A switch that holds the lock is the one its agents authorize:           *)
(* store_test.go:69 fails when the active operation is rejected.           *)
ActiveOperationAuthorized ==
  \A o \in Switches :
    /\ pc[o] \in {"recheck", "candidate", "putTask"} \cup TaskSteps
    /\ OwnsLock(o)
    => operation = o

(* The cluster state is replaced only by an operation that read it:        *)
(* store_test.go:11 names the rejection of a stale writer.                 *)
StaleWriterRejected ==
  [][cluster' # cluster => \E o \in Ops : pc[o] = "casTxn" /\ seen[o] = cluster]_vars
=============================================================================
