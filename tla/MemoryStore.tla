---------------------------- MODULE MemoryStore ----------------------------
(***************************************************************************)
(* MemoryStore of internal/store/store.go, and Switch and SetAutoFailover  *)
(* as its callers: the controller of a process that runs without Etcd.     *)
(* Every method of the store is one critical section, AcquireSwitchLock    *)
(* and its release function are two.  There is no lease, and the lock is   *)
(* refused rather than waited for.                                         *)
(***************************************************************************)
EXTENDS HACluster

CONSTANTS
  Switches,  \* the calls of Switch
  Settings   \* the calls of SetAutoFailover

Calls == Switches \cup Settings

ASSUME CallsAssumption == Switches \cap Settings = {} /\ None \notin Calls

VARIABLES
  cluster,    \* MemoryStore.cluster
  locked,     \* MemoryStore.locked
  operation,  \* MemoryStore.operation: the call it authorizes
  tasks,      \* MemoryStore.tasks: the status of each call's task
  pc,         \* the next step of a call
  seen,       \* the state it has read
  target      \* the node it is to promote

storeVars == <<cluster, locked, operation, tasks>>
vars == <<storeVars, pc, seen, target>>

PCs == {"idle", "lock", "authorize", "recheck", "task", "work", "finish", "revoke",
        "read", "write", "release", "done"}

TypeOK ==
  /\ cluster \in ClusterState
  /\ locked \in BOOLEAN
  /\ operation \in Calls \cup {None}
  /\ tasks \in [Switches -> {"none", "running", "finished"}]
  /\ pc \in [Calls -> PCs]
  /\ seen \in [Calls -> ClusterState]
  /\ target \in [Calls -> Nodes \cup {None}]

(* The first probe has recorded a primary. *)
Init ==
  /\ cluster \in [primary : Nodes, epoch : {0}, auto : BOOLEAN]
  /\ locked = FALSE
  /\ operation = None
  /\ tasks = [o \in Switches |-> "none"]
  /\ pc = [o \in Calls |-> "idle"]
  /\ seen = [o \in Calls |-> cluster]
  /\ target = [o \in Calls |-> None]

Goto(o, l) == pc' = [pc EXCEPT ![o] = l]

-----------------------------------------------------------------------------
(* The lock, and the two functions that take it. *)

(* AcquireLock; a call is refused if it is held. *)
AcquireLock(o) ==
  /\ pc[o] = "lock"
  /\ IF locked
       THEN Goto(o, "done") /\ UNCHANGED locked
       ELSE Goto(o, IF o \in Switches THEN "authorize" ELSE "read") /\ locked' = TRUE
  /\ UNCHANGED <<cluster, operation, tasks, seen, target>>

AuthorizeOperation(o) ==
  /\ pc[o] = "authorize"
  /\ operation' = o
  /\ Goto(o, "recheck")
  /\ UNCHANGED <<cluster, locked, tasks, seen, target>>

(* Mutant of RevokeOperation: the lock is released first. *)
RevokeAfterRelease(o) ==
  \/ /\ pc[o] = "revoke"
     /\ locked' = FALSE
     /\ Goto(o, "release")
     /\ UNCHANGED <<cluster, operation, tasks, seen, target>>
  \/ /\ pc[o] = "release"
     /\ operation' = None
     /\ Goto(o, "done")
     /\ UNCHANGED <<cluster, locked, tasks, seen, target>>

RevokeOperation(o) ==
  /\ pc[o] = "revoke"
  /\ operation' = None
  /\ Goto(o, "release")
  /\ UNCHANGED <<cluster, locked, tasks, seen, target>>

Release(o) ==
  /\ pc[o] = "release"
  /\ locked' = FALSE
  /\ Goto(o, "done")
  /\ UNCHANGED <<cluster, operation, tasks, seen, target>>

-----------------------------------------------------------------------------
(* Switch. *)

BeginSwitch(o, t) ==
  /\ pc[o] = "idle"
  /\ t # cluster.primary
  /\ seen' = [seen EXCEPT ![o] = cluster]
  /\ target' = [target EXCEPT ![o] = t]
  /\ Goto(o, "lock")
  /\ UNCHANGED storeVars

(* The state is compared, and the target may not be fit. *)
Recheck(o) ==
  /\ pc[o] = "recheck"
  /\ \/ Goto(o, "revoke")
     \/ /\ cluster.epoch = seen[o].epoch /\ cluster.primary = seen[o].primary
        /\ Goto(o, "task")
  /\ UNCHANGED <<storeVars, seen, target>>

StartTask(o) ==
  /\ pc[o] = "task"
  /\ tasks' = [tasks EXCEPT ![o] = "running"]
  /\ Goto(o, "work")
  /\ UNCHANGED <<cluster, locked, operation, seen, target>>

(* A dry run, or an error of one of the agents. *)
WorkEnds(o) ==
  /\ pc[o] = "work"
  /\ Goto(o, "finish")
  /\ UNCHANGED <<storeVars, seen, target>>

(* Mutant of RecordSwitch: the epoch stays. *)
RecordSameEpoch(o) ==
  /\ pc[o] = "work"
  /\ cluster' = [seen[o] EXCEPT !.primary = target[o]]
  /\ Goto(o, "finish")
  /\ UNCHANGED <<locked, operation, tasks, seen, target>>

(* Mutant of RecordSwitch: the epoch counts down. *)
RecordEpochBefore(o) ==
  /\ pc[o] = "work"
  /\ cluster.epoch = seen[o].epoch
  /\ cluster' = [primary |-> target[o], epoch |-> seen[o].epoch - 1, auto |-> seen[o].auto]
  /\ Goto(o, "finish")
  /\ UNCHANGED <<locked, operation, tasks, seen, target>>

(* PutClusterIfEpoch with the target as primary of the next epoch. *)
RecordSwitch(o) ==
  /\ pc[o] = "work"
  /\ cluster.epoch = seen[o].epoch
  /\ cluster' = [primary |-> target[o], epoch |-> seen[o].epoch + 1, auto |-> seen[o].auto]
  /\ Goto(o, "finish")
  /\ UNCHANGED <<locked, operation, tasks, seen, target>>

(* The deferred PutTask, with whatever status, which runs before the       *)
(* release of the lock.                                                    *)
FinishTask(o) ==
  /\ pc[o] = "finish"
  /\ tasks' = [tasks EXCEPT ![o] = "finished"]
  /\ Goto(o, "revoke")
  /\ UNCHANGED <<cluster, locked, operation, seen, target>>

-----------------------------------------------------------------------------
(* SetAutoFailover. *)

BeginSetAutoFailover(o) ==
  /\ pc[o] = "idle"
  /\ Goto(o, "lock")
  /\ UNCHANGED <<storeVars, seen, target>>

ReadState(o) ==
  /\ pc[o] = "read"
  /\ seen' = [seen EXCEPT ![o] = cluster]
  /\ Goto(o, "write")
  /\ UNCHANGED <<storeVars, target>>

WriteFlag(o) ==
  /\ pc[o] = "write"
  /\ IF cluster.epoch = seen[o].epoch
       THEN \E enabled \in BOOLEAN : cluster' = [seen[o] EXCEPT !.auto = enabled]
       ELSE UNCHANGED cluster
  /\ Goto(o, "release")
  /\ UNCHANGED <<locked, operation, tasks, seen, target>>

-----------------------------------------------------------------------------
SwitchStep(o) ==
  \/ \E t \in Nodes : BeginSwitch(o, t)
  \/ AuthorizeOperation(o) \/ Recheck(o) \/ StartTask(o) \/ WorkEnds(o) \/ RecordSwitch(o)
  \/ FinishTask(o) \/ RevokeOperation(o)

SettingStep(o) == BeginSetAutoFailover(o) \/ ReadState(o) \/ WriteFlag(o)

Next ==
  \/ \E o \in Switches : SwitchStep(o)
  \/ \E o \in Settings : SettingStep(o)
  \/ \E o \in Calls : AcquireLock(o) \/ Release(o)

Spec == Init /\ [][Next]_vars

-----------------------------------------------------------------------------
(* Properties. *)

VerifySwitchOperation(o) ==
  operation = o /\ cluster.epoch \in {seen[o].epoch, seen[o].epoch + 1}

(* A switch that works passes VerifySwitchOperation ("active operation     *)
(* rejected", store_test.go:69), and one that has released the lock does   *)
(* not ("released operation remained authorized", store_test.go:76): the   *)
(* release function clears the operation without a look at whose it is,    *)
(* and still never clears another call's.                                  *)
HolderAuthorized ==
  \A o \in Switches :
    /\ pc[o] \in {"task", "work", "finish"} => VerifySwitchOperation(o)
    /\ pc[o] \in {"release", "done"} => ~VerifySwitchOperation(o)

(* PutClusterIfEpoch and the lock are enough: the record moves as          *)
(* EpochRegister says.                                                     *)
Register == INSTANCE EpochRegister WITH register <- cluster
ImplementsRegister == Register!RegisterSpec
=============================================================================
