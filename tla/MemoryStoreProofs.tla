------------------------- MODULE MemoryStoreProofs -------------------------
(***************************************************************************)
(* MemoryStore keeps its promises for any number of calls and nodes.       *)
(***************************************************************************)
EXTENDS MemoryStore, TLAPS

(* Time limits of the provers, in seconds, where a step names none. *)
USE SMTT(30), ZenonT(30)

Holding == {"authorize", "recheck", "task", "work", "finish", "revoke", "read", "write", "release"}
Authorized == {"recheck", "task", "work", "finish", "revoke"}

(* One call holds the lock, the operation is that call's, and nobody else  *)
(* moves the record that it has compared or read.                          *)
StoreInv ==
  /\ \A o, p \in Calls : pc[o] \in Holding /\ pc[p] \in Holding => o = p
  /\ \A o \in Calls : pc[o] \in Holding => locked
  /\ \A o \in Calls : pc[o] \in Authorized <=> operation = o
  /\ \A o \in Calls : pc[o] \in {"task", "work", "write"} =>
       seen[o].epoch = cluster.epoch /\ seen[o].primary = cluster.primary
  /\ \A o \in Calls : pc[o] = "finish" => cluster.epoch \in {seen[o].epoch, seen[o].epoch + 1}
  /\ \A o \in Switches : pc[o] \in {"lock", "authorize", "recheck", "task", "work"} =>
       target[o] \in Nodes /\ target[o] # seen[o].primary

IInv == TypeOK /\ cluster.primary \in Nodes /\ StoreInv

(* Every step keeps the types. *)
LEMMA TypeStep == IInv /\ [Next]_vars => TypeOK' /\ (cluster.primary \in Nodes)'
<1> SUFFICES ASSUME IInv, [Next]_vars PROVE TypeOK' /\ (cluster.primary \in Nodes)'
  OBVIOUS
<1> USE CallsAssumption DEF TypeOK, PCs, Calls, IInv
<1>1. ASSUME NEW o \in Calls, NEW l \in PCs, Goto(o, l) PROVE pc' \in [Calls -> PCs]
  BY <1>1 DEF Goto
<1>2. ASSUME NEW o \in Calls, AcquireLock(o) \/ Release(o) PROVE TypeOK' /\ (cluster.primary \in Nodes)'
  BY <1>1, <1>2, Zenon DEF AcquireLock, Release
<1>3. ASSUME NEW o \in Switches, NEW t \in Nodes, BeginSwitch(o, t)
      PROVE TypeOK' /\ (cluster.primary \in Nodes)'
  BY <1>1, <1>3 DEF BeginSwitch, storeVars
<1>4. ASSUME NEW o \in Switches, AuthorizeOperation(o) \/ Recheck(o) \/ WorkEnds(o) \/ RevokeOperation(o)
      PROVE TypeOK' /\ (cluster.primary \in Nodes)'
  BY <1>1, <1>4 DEF AuthorizeOperation, Recheck, WorkEnds, RevokeOperation, storeVars
<1>5. ASSUME NEW o \in Switches, StartTask(o) \/ FinishTask(o)
      PROVE TypeOK' /\ (cluster.primary \in Nodes)'
  BY <1>1, <1>5 DEF StartTask, FinishTask
<1>6. ASSUME NEW o \in Switches, RecordSwitch(o) PROVE TypeOK' /\ (cluster.primary \in Nodes)'
  <2>1. target[o] \in Nodes
    BY <1>6 DEF RecordSwitch, StoreInv
  <2>2. cluster' \in ClusterState /\ cluster'.primary \in Nodes
    BY <1>6, <2>1 DEF RecordSwitch, ClusterState
  <2>3. QED
    BY <1>1, <1>6, <2>2 DEF RecordSwitch
<1>7. ASSUME NEW o \in Settings, BeginSetAutoFailover(o) \/ ReadState(o)
      PROVE TypeOK' /\ (cluster.primary \in Nodes)'
  BY <1>1, <1>7 DEF BeginSetAutoFailover, ReadState, storeVars
<1>8. ASSUME NEW o \in Settings, WriteFlag(o) PROVE TypeOK' /\ (cluster.primary \in Nodes)'
  <2>1. cluster' \in ClusterState /\ cluster'.primary \in Nodes
    BY <1>8 DEF WriteFlag, ClusterState, StoreInv
  <2>2. QED
    BY <1>1, <1>8, <2>1 DEF WriteFlag
<1>9. CASE UNCHANGED vars
  BY <1>9 DEF vars, storeVars
<1>10. QED
  BY <1>2, <1>3, <1>4, <1>5, <1>6, <1>7, <1>8, <1>9 DEF Next, SwitchStep, SettingStep

(* Every step keeps the lock, the operation and what is known under it. *)
LEMMA StoreStep == IInv /\ [Next]_vars => StoreInv'
<1> SUFFICES ASSUME TypeOK, StoreInv, [Next]_vars PROVE StoreInv'
  BY DEF IInv
<1> USE CallsAssumption DEF TypeOK, PCs, Calls, StoreInv, Holding, Authorized, ClusterState
<1>1. ASSUME NEW o \in Calls, AcquireLock(o) PROVE StoreInv'
  BY <1>1 DEF AcquireLock, Goto
<1>2. ASSUME NEW o \in Calls, Release(o) PROVE StoreInv'
  BY <1>2 DEF Release, Goto
<1>3. ASSUME NEW o \in Switches, NEW t \in Nodes, BeginSwitch(o, t) PROVE StoreInv'
  BY <1>3 DEF BeginSwitch, storeVars, Goto
<1>4. ASSUME NEW o \in Switches, AuthorizeOperation(o) PROVE StoreInv'
  BY <1>4 DEF AuthorizeOperation, Goto
<1>5. ASSUME NEW o \in Switches, Recheck(o) PROVE StoreInv'
  BY <1>5 DEF Recheck, storeVars, Goto
<1>6. ASSUME NEW o \in Switches, StartTask(o) \/ WorkEnds(o) PROVE StoreInv'
  BY <1>6 DEF StartTask, WorkEnds, storeVars, Goto
<1>7. ASSUME NEW o \in Switches, RecordSwitch(o) PROVE StoreInv'
  BY <1>7 DEF RecordSwitch, Goto
<1>8. ASSUME NEW o \in Switches, FinishTask(o) PROVE StoreInv'
  BY <1>8 DEF FinishTask, Goto
<1>9. ASSUME NEW o \in Switches, RevokeOperation(o) PROVE StoreInv'
  BY <1>9 DEF RevokeOperation, Goto
<1>10. ASSUME NEW o \in Settings, BeginSetAutoFailover(o) \/ ReadState(o) PROVE StoreInv'
  BY <1>10 DEF BeginSetAutoFailover, ReadState, storeVars, Goto
<1>11. ASSUME NEW o \in Settings, WriteFlag(o) PROVE StoreInv'
  BY <1>11 DEF WriteFlag, Goto
<1>12. CASE UNCHANGED vars
  BY <1>12 DEF vars, storeVars
<1>13. QED
  BY <1>1, <1>2, <1>3, <1>4, <1>5, <1>6, <1>7, <1>8, <1>9, <1>10, <1>11, <1>12, Zenon
  DEF Next, SwitchStep, SettingStep

(* IInv is an invariant. *)
LEMMA StoreInvHolds == Spec => []IInv
<1>1. Init => IInv
  <2> SUFFICES ASSUME Init PROVE IInv
    OBVIOUS
  <2>1. cluster \in ClusterState /\ cluster.primary \in Nodes
    BY DEF Init, ClusterState
  <2>2. TypeOK
    BY <2>1, Zenon DEF Init, TypeOK, PCs
  <2>3. StoreInv
    BY CallsAssumption DEF Init, StoreInv, Holding, Authorized, Calls
  <2>4. QED
    BY <2>1, <2>2, <2>3 DEF IInv
<1>2. IInv /\ [Next]_vars => IInv'
  BY TypeStep, StoreStep DEF IInv
<1>3. QED
  BY <1>1, <1>2, PTL DEF Spec

(* The methods of MemoryStore keep the types of the record, the history    *)
(* and the calls: RecordSwitch records a node, never an empty target.      *)
THEOREM StoreTyped == Spec => []TypeOK
BY StoreInvHolds, PTL DEF IInv

(* AcquireSwitchLock and its release function: the operation is the        *)
(* holder's while it works, and nobody's once it has released the lock.    *)
THEOREM WorkerAuthorized == Spec => []HolderAuthorized
<1>1. IInv => HolderAuthorized
  BY DEF IInv, TypeOK, StoreInv, Authorized, Holding, HolderAuthorized, VerifySwitchOperation,
         Calls, ClusterState
<1>2. QED
  BY <1>1, StoreInvHolds, PTL

(* Switch and SetAutoFailover on a MemoryStore: every change of the        *)
(* primary takes the next epoch.                                           *)
THEOREM StoreImplementsRegister == Spec => ImplementsRegister
<1>1. Init => Register!RegisterInit
  BY DEF Init, Register!RegisterInit
<1>2. IInv /\ [Next]_vars => [Register!Advance \/ Register!SetAuto]_cluster
  <2> SUFFICES ASSUME IInv, [Next]_vars
               PROVE  Register!Advance \/ Register!SetAuto \/ cluster' = cluster
    OBVIOUS
  <2> USE DEF IInv, TypeOK, StoreInv, ClusterState, Calls
  <2>1. ASSUME NEW o \in Switches, RecordSwitch(o) PROVE Register!Advance
    <3>1. target[o] \in Nodes \ {cluster.primary} /\ seen[o].auto \in BOOLEAN
          /\ seen[o].epoch = cluster.epoch
      BY <2>1 DEF RecordSwitch
    <3>2. QED
      BY <2>1, <3>1 DEF RecordSwitch, Register!Advance
  <2>2. ASSUME NEW o \in Settings, WriteFlag(o) PROVE Register!SetAuto \/ cluster' = cluster
    <3>1. seen[o].epoch = cluster.epoch /\ seen[o].primary = cluster.primary
      BY <2>2 DEF WriteFlag
    <3>2. \A e \in BOOLEAN : [seen[o] EXCEPT !.auto = e] = [cluster EXCEPT !.auto = e]
      BY <3>1
    <3>3. QED
      BY <2>2, <3>2 DEF WriteFlag, Register!SetAuto
  <2>3. ASSUME NEW o \in Calls, AcquireLock(o) \/ Release(o) PROVE cluster' = cluster
    BY <2>3 DEF AcquireLock, Release
  <2>4. ASSUME NEW o \in Switches, SwitchStep(o), ~RecordSwitch(o) PROVE cluster' = cluster
    BY <2>4 DEF SwitchStep, BeginSwitch, AuthorizeOperation, Recheck, StartTask, WorkEnds,
                FinishTask, RevokeOperation, storeVars
  <2>5. ASSUME NEW o \in Settings, SettingStep(o), ~WriteFlag(o) PROVE cluster' = cluster
    BY <2>5 DEF SettingStep, BeginSetAutoFailover, ReadState, storeVars
  <2>6. CASE UNCHANGED vars
    BY <2>6 DEF vars, storeVars
  <2>7. QED
    BY <2>1, <2>2, <2>3, <2>4, <2>5, <2>6 DEF Next
<1>3. QED
  BY <1>1, <1>2, StoreInvHolds, PTL DEF Spec, ImplementsRegister, Register!RegisterSpec
=============================================================================
