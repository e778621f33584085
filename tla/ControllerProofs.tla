-------------------------- MODULE ControllerProofs --------------------------
(***************************************************************************)
(* The basic inductive invariant (types, lock ownership, what an operation *)
(* has read, which request belongs to which step), and what follows from   *)
(* it: the cluster key implements the abstract register of EpochRegister,  *)
(* late requests are refused, sessions that are kept alive make the lock   *)
(* exclusive, and switches replace the record that they have read.         *)
(***************************************************************************)
EXTENDS BasicProofs

(* Time limits of the provers, in seconds, where a step names none. *)
USE SMTT(30), ZenonT(30)

(* The request an operation waits for, and the step of its handler, fit    *)
(* the step of the operation.                                              *)
LEMMA RequestStep ==
  ASSUME TypeOK, CallInv, SeenInv, RequestInv, settled \subseteq Switches, [Next]_vars,
         NEW q \in Switches
  PROVE  StepRequest(q)' /\ HandlerRequest(q)'
<1>t. /\ pc \in [Ops -> PCs] /\ hpc \in [Ops -> Steps \cup Answers \cup {"none"}]
      /\ req \in [Ops -> Request] /\ q \in Ops /\ q \notin Settings
      /\ todo \in [Ops -> SUBSET Nodes]
  BY DEF TypeOK, AgentTypeOK, Switches
<1>i. StepRequest(q) /\ HandlerRequest(q) /\ SwitchCall(q)
  BY DEF RequestInv, CallInv
<1>1. CASE Kept(q) /\ pc'[q] = pc[q]
  BY <1>i, <1>1 DEF Kept, StepRequest, HandlerRequest
<1>2. CASE Kept(q) /\ pc'[q] = "crashed"
  BY <1>i, <1>2 DEF Kept, StepRequest, HandlerRequest, BeforeRequests, PromotionSteps
<1>3. CASE BeginSwitch(q) \/ BeginSetAutoFailover(q) \/ LeaseEnds(q)
  BY <1>t, <1>i, <1>3, ZenonT(60)
  DEF BeginSwitch, BeginSetAutoFailover, LeaseEnds, opVars, agentVars, Goto, StepRequest,
      HandlerRequest, BeforeRequests, PromotionSteps
<1>4. CASE \/ GetCluster(q) \/ CheckEpoch(q) \/ NewSession(q) \/ Lock(q) \/ ReadState(q)
           \/ PublishOperation(q) \/ Recheck(q) \/ CheckCandidate(q) \/ StartTaskFails(q)
  <2>1. UNCHANGED <<req, hpc, call, settled>>
    BY <1>4, Zenon
    DEF GetCluster, CheckEpoch, NewSession, Lock, ReadState, PublishOperation, Recheck,
        CheckCandidate, StartTaskFails, agentVars
  <2>2. pc[q] \in BeforeRequests /\ pc'[q] \in BeforeRequests \cup {"unlock", "deleteOperation"}
    BY <1>t, <1>i, <1>4, ZenonT(60)
    DEF GetCluster, CheckEpoch, NewSession, Lock, ReadState, PublishOperation, Recheck,
        CheckCandidate, StartTaskFails, Goto, BeforeRequests, SwitchCall
  <2>3. QED
    BY <1>i, <2>1, <2>2 DEF StepRequest, HandlerRequest, BeforeRequests, PromotionSteps
<1>5. CASE StartTask(q)
  <2>1. seen[q].primary \in Nodes
    BY <1>t, <1>5, ZenonT(60) DEF StartTask, SeenInv, SeenOK, HasRead
  <2>2. QED
    BY <1>t, <1>i, <1>5, <2>1, SMTT(30)
    DEF StartTask, Send, NewRequest, agentVars, Goto, StepRequest, HandlerRequest,
        BeforeRequests, PromotionSteps
<1>6. CASE ReadGTID(q) \/ WaitReply(q)
  <2>1. call[q].target \in Nodes
    BY <1>i, <1>6 DEF ReadGTID, WaitReply, SwitchCall
  <2>2. QED
    BY <1>t, <1>i, <1>6, <2>1, SMTT(30)
    DEF ReadGTID, WaitReply, Send, NewRequest, Goto, StepRequest, HandlerRequest,
        BeforeRequests, PromotionSteps
<1>7. CASE Reconfigure(q)
  <2>1. call[q].target \in Nodes
    BY <1>i, <1>7, Zenon DEF Reconfigure, SwitchCall
  <2>2. QED
    BY <1>t, <1>i, <1>7, <2>1, SMTT(30)
    DEF Reconfigure, Send, NewRequest, Goto, StepRequest, HandlerRequest, BeforeRequests,
        PromotionSteps
<1>8. CASE \/ DemoteReply(q) \/ ConfirmReadOnly(q) \/ PromoteReply(q) \/ VerifyPromoted(q)
           \/ CasGet(q) \/ ReplicaReply(q)
  <2>1. UNCHANGED <<req, hpc, call, settled>>
    BY <1>8, Zenon
    DEF DemoteReply, ConfirmReadOnly, PromoteReply, VerifyPromoted, CasGet, ReplicaReply,
        agentVars
  <2>2. QED
    BY <1>t, <1>i, <1>8, <2>1, ZenonT(60)
    DEF DemoteReply, ConfirmReadOnly, PromoteReply, VerifyPromoted, CasGet, ReplicaReply, Goto,
        StepRequest, HandlerRequest, BeforeRequests, PromotionSteps
<1>9. CASE CasTxn(q)
  BY <1>t, <1>i, <1>9
  DEF CasTxn, agentVars, Goto, StepRequest, HandlerRequest, BeforeRequests, PromotionSteps
<1>10. CASE CallFails(q) \/ Finish(q) \/ ReleaseOperation(q) \/ Unlock(q)
  <2>1. UNCHANGED <<req, hpc, call, settled>>
    BY <1>10, Zenon DEF CallFails, Finish, ReleaseOperation, Unlock, agentVars
  <2>2. pc'[q] \in {"done", "unlock", "deleteOperation", "failed"}
    BY <1>t, <1>10 DEF CallFails, Finish, ReleaseOperation, Unlock, Goto
  <2>3. QED
    BY <1>i, <2>1, <2>2, Zenon DEF StepRequest, HandlerRequest, BeforeRequests, PromotionSteps
<1>11. CASE AgentHandler(q)
  <2>1. UNCHANGED <<pc, call, req, settled>>
    BY <1>11, Zenon
    DEF AgentHandler, AgentStep, VerifyEpoch, VerifyOperation, WaitForGTID, CheckCaughtUp,
        CheckWritable, PollReplica, RunStatement, HandlerFails, Step, opVars
  <2>2. hpc[q] \notin {"ok", "none"} /\ hpc'[q] # "none"
    <3>1. CASE VerifyOperation(q)
      BY <1>t, <1>i, <3>1 DEF VerifyOperation, Step, FirstStep, HandlerRequest, Request, Kinds
    <3>2. CASE RunStatement(q)
      BY <1>t, <3>2, Zenon DEF RunStatement, Step
    <3>3. CASE VerifyEpoch(q) \/ WaitForGTID(q) \/ CheckCaughtUp(q) \/ CheckWritable(q) \/ PollReplica(q) \/ HandlerFails(q)
      BY <1>t, <3>3, ZenonT(60)
      DEF VerifyEpoch, WaitForGTID, CheckCaughtUp, CheckWritable, PollReplica, HandlerFails,
          Step, Steps
    <3>4. QED
      BY <1>11, <3>1, <3>2, <3>3 DEF AgentHandler, AgentStep
  <2>3. StepRequest(q)'
    BY <1>i, <2>1, <2>2 DEF StepRequest
  <2>4. HandlerRequest(q)'
    <3>1. CASE VerifyOperation(q)
      BY <1>t, <1>i, <2>1, <3>1
      DEF VerifyOperation, Step, FirstStep, HandlerRequest, Request, Kinds
    <3>2. CASE RunStatement(q)
      BY <1>t, <1>i, <2>1, <3>2, ZenonT(60) DEF RunStatement, Step, HandlerRequest
    <3>3. CASE VerifyEpoch(q) \/ WaitForGTID(q) \/ CheckCaughtUp(q) \/ CheckWritable(q) \/ PollReplica(q) \/ HandlerFails(q)
      BY <1>t, <1>i, <2>1, <2>2, <3>3, ZenonT(60)
      DEF VerifyEpoch, WaitForGTID, CheckCaughtUp, CheckWritable, PollReplica, HandlerFails,
          Step, HandlerRequest
    <3>4. QED
      BY <1>11, <3>1, <3>2, <3>3 DEF AgentHandler, AgentStep
  <2>5. QED
    BY <2>3, <2>4
<1>12. QED
  BY <1>t, <1>1, <1>2, <1>3, <1>4, <1>5, <1>6, <1>7, <1>8, <1>9, <1>10, <1>11, LocalStep, Zenon
  DEF OwnStep, OperationStep

(* What the transaction of PutClusterIfEpoch replaces, and by what, when   *)
(* it succeeds.                                                            *)
LEMMA CasRecord ==
  ASSUME BasicInv, NEW o \in Ops, CasTxn(o)
  PROVE  /\ cluster.epoch = seen[o].epoch /\ cluster.primary = seen[o].primary
         /\ o \in Settings =>
              cluster' = [primary |-> cluster.primary, epoch |-> cluster.epoch, auto |-> call[o].enabled]
         /\ o \in Switches =>
              /\ call[o].target \in Nodes \ {cluster.primary}
              /\ cluster' = [primary |-> call[o].target, epoch |-> cluster.epoch + 1, auto |-> seen[o].auto]
<1>1. cluster.epoch = seen[o].epoch /\ cluster' = NewState(o)
  BY Zenon DEF CasTxn, PutClusterIfRev, BasicInv, CasInv
<1>2. HasRead(o) /\ SeenOK(o)
  BY Zenon DEF CasTxn, HasRead, TaskSteps, Switches, BasicInv, SeenInv
<1>3. o \in Switches => call[o].target \in Nodes
  BY DEF CasTxn, BasicInv, CallInv, SwitchCall
<1>4. QED
  BY <1>1, <1>2, <1>3, Zenon DEF SeenOK, NewState, Switches

(* The basic invariant holds initially. *)
LEMMA BasicInit == Init => BasicInv
<1> SUFFICES ASSUME Init PROVE BasicInv
  OBVIOUS
<1> USE NoneAssumption, OpsAssumption, MySQLAssumption, ControllerAssumption
<1>1. PICK p \in Nodes : MySQLInit(p) /\ EtcdInit(p, Automatic # {})
  BY DEF Init
<1>2. MySQLTypeOK
  BY <1>1 DEF MySQLInit, MySQLTypeOK
<1>3. EtcdTypeOK
  BY <1>1 DEF EtcdInit, EtcdTypeOK, ClusterState, TaskStates
<1>4. AgentTypeOK
  BY Zenon DEF Init, AgentInit, AgentTypeOK, NoRequest, NewRequest, Request, Kinds, Steps, Answers
<1>5. TypeOK
  BY <1>2, <1>3, <1>4 DEF Init, TypeOK, PCs, Call, ClusterState
<1>6. CallInv
  BY
  DEF Init, AgentInit, NoRequest, NewRequest, CallInv, SettingCall, SwitchCall, SettingSteps,
      Switches
<1>7. SeenInv
  BY <1>1 DEF Init, EtcdInit, SeenInv, HasRead, TaskSteps
<1>8. CasInv
  BY <1>1 DEF Init, EtcdInit, CasInv
<1>9. LockInv
  BY <1>1 DEF Init, EtcdInit, LockInv
<1>10. RequestInv
  BY
  DEF Init, AgentInit, NoRequest, NewRequest, RequestInv, StepRequest, HandlerRequest, Switches,
      BeforeRequests, PromotionSteps
<1>11. QED
  BY <1>5, <1>6, <1>7, <1>8, <1>9, <1>10 DEF BasicInv, Init

(* Every step keeps the basic invariant. *)
LEMMA BasicStep == BasicInv /\ [Next]_vars => BasicInv'
<1> SUFFICES ASSUME BasicInv, [Next]_vars PROVE BasicInv'
  OBVIOUS
<1> USE DEF BasicInv
<1>1. TypeOK'
  BY TypeOKStep
<1>2. CallInv' /\ SeenInv' /\ CasInv' /\ LockInv'
  BY CallStep, SeenStep, CasStep, LockStep
<1>3. RequestInv'
  BY RequestStep DEF RequestInv, Switches
<1>4. settled' \subseteq Switches
  <2>1. ASSUME NEW q \in Ops, q \in settled', OwnStep(q) PROVE q \in Switches
    <3>1. settled' = settled \/ CasTxn(q)
      BY <2>1, Zenon
      DEF OwnStep, BeginSwitch, BeginSetAutoFailover, OperationStep, GetCluster, CheckEpoch,
          NewSession, Lock, ReadState, PublishOperation, Recheck, CheckCandidate, StartTask,
          StartTaskFails, DemoteReply, ConfirmReadOnly, ReadGTID, WaitReply, PromoteReply,
          VerifyPromoted, CasGet, Reconfigure, ReplicaReply, CallFails, Finish,
          ReleaseOperation, Unlock, AgentHandler, LeaseEnds, opVars
    <3>2. QED
      BY <2>1, <3>1 DEF CasTxn
  <2>2. settled' \subseteq Ops
    BY <1>1 DEF TypeOK
  <2>3. QED
    BY <2>1, <2>2, LocalStep DEF Kept
<1>5. QED
  BY <1>1, <1>2, <1>3, <1>4

(* The basic invariant holds in every state, for any nodes, controllers,   *)
(* operations and faults: Switch, SetAutoFailover, the store and the       *)
(* agents keep their books right.                                          *)
THEOREM BasicInvariant == Spec => []BasicInv
BY BasicInit, BasicStep, PTL DEF Spec

(* Every variable of controllers, store, agents and servers keeps its      *)
(* type.                                                                   *)
THEOREM TypeCorrect == Spec => []TypeOK
<1>1. BasicInv => TypeOK
  BY DEF BasicInv
<1>2. QED
  BY <1>1, BasicInvariant, PTL

(* The cluster key implements the abstract register: whatever controllers, *)
(* crashes, lost answers and expired leases do, PutClusterIfEpoch lets     *)
(* every change of the primary take the next epoch and nothing else move   *)
(* the two.                                                                *)
THEOREM RegisterImplemented == Spec => ImplementsRegister
<1>1. Init => Register!RegisterInit
  BY Zenon DEF Init, EtcdInit, Register!RegisterInit
<1>2. BasicInv /\ [Next]_vars => [Register!Advance \/ Register!SetAuto]_cluster
  <2> SUFFICES ASSUME BasicInv, [Next]_vars, cluster' # cluster
               PROVE  Register!Advance \/ Register!SetAuto
    OBVIOUS
  <2>1. PICK o \in Ops : CasTxn(o)
    BY OnlyCasWrites
  <2>2. cluster \in ClusterState /\ call[o].enabled \in BOOLEAN /\ seen[o].auto \in BOOLEAN
    BY DEF BasicInv, TypeOK, EtcdTypeOK, Call, ClusterState
  <2>3. CASE o \in Settings
    <3>1. cluster' = [cluster EXCEPT !.auto = call[o].enabled]
      BY <2>1, <2>2, <2>3, CasRecord DEF ClusterState
    <3>2. QED
      BY <2>2, <3>1 DEF Register!SetAuto
  <2>4. CASE o \in Switches
    BY <2>1, <2>2, <2>4, CasRecord DEF Register!Advance
  <2>5. QED
    BY <2>3, <2>4 DEF Switches
<1>3. QED
  BY <1>1, <1>2, BasicInvariant, PTL DEF Spec, ImplementsRegister, Register!RegisterSpec

(* /switch-operation goes when its lease goes, and is put under a living   *)
(* lease only.                                                             *)
LEMMA AuthorizedLeaseStep == AuthorizedLease /\ [Next]_vars => AuthorizedLease'
<1> SUFFICES ASSUME AuthorizedLease, [Next]_vars PROVE AuthorizedLease'
  OBVIOUS
<1> USE DEF AuthorizedLease
<1>1. UNCHANGED etcdVars => AuthorizedLease'
  BY DEF etcdVars
<1>2. ASSUME NEW o \in Ops,
             \/ CreateLockKey(o) \/ PutOperation(o) \/ DeleteOperation
             \/ EndLease(o) \/ DeleteLockKey(o)
      PROVE  AuthorizedLease'
  BY <1>2 DEF CreateLockKey, PutOperation, DeleteOperation, EndLease, DeleteLockKey
<1>3. ASSUME NEW o \in Ops, UNCHANGED <<lease, operation>> PROVE AuthorizedLease'
  BY <1>3
<1>4. ASSUME NEW o \in Ops, OwnStep(o) PROVE AuthorizedLease'
  <2>1. CASE NewSession(o) \/ PublishOperation(o) \/ ReleaseOperation(o) \/ Unlock(o) \/ LeaseEnds(o)
    BY <1>1, <1>2, <2>1, Zenon
    DEF NewSession, PublishOperation, ReleaseOperation, Unlock, LeaseEnds, LeaseExpires
  <2>2. CASE StartTask(o) \/ StartTaskFails(o) \/ Finish(o) \/ CasTxn(o)
    BY <1>1, <2>2, Zenon DEF StartTask, StartTaskFails, Finish, CasTxn, PutTask, PutClusterIfRev
  <2>3. CASE AgentHandler(o)
    BY <1>1, <2>3, Zenon
    DEF AgentHandler, AgentStep, VerifyEpoch, VerifyOperation, WaitForGTID, CheckCaughtUp,
        CheckWritable, PollReplica, RunStatement, HandlerFails
  <2>4. QED
    BY <1>1, <1>4, <2>1, <2>2, <2>3, Zenon
    DEF OwnStep, BeginSwitch, BeginSetAutoFailover, OperationStep, GetCluster, CheckEpoch, Lock,
        ReadState, Recheck, CheckCandidate, DemoteReply, ConfirmReadOnly, ReadGTID, WaitReply,
        PromoteReply, VerifyPromoted, CasGet, Reconfigure, ReplicaReply, CallFails
<1>5. ASSUME NEW c \in Controllers, BecomeLeader(c) \/ LoseLeadership(c) \/ Crash(c)
      PROVE  AuthorizedLease'
  BY <1>1, <1>5, Zenon DEF BecomeLeader, LoseLeadership, Crash
<1>6. CASE Servers \/ UNCHANGED vars
  BY <1>1, <1>6, Zenon DEF Servers, vars
<1>7. QED
  BY <1>4, <1>5, <1>6, Zenon DEF Next, OwnStep

(* No agent starts to carry out a request of a switch whose lease has      *)
(* ended: authorize refuses it, because /switch-operation went with the    *)
(* lease and only a lock session that is alive puts it again.              *)
THEOREM LateRequestsRefused == Spec => LateRequestRefused
<1> DEFINE Waits(h) == h \in {"epoch", "operation", "forbidden"}
<1>1. Init => AuthorizedLease
  BY DEF Init, EtcdInit, AuthorizedLease
<1>2. ASSUME TypeOK, AuthorizedLease, [Next]_vars, NEW o \in Switches,
             o \notin lease, hpc[o] \in {"epoch", "operation"}
      PROVE  Waits(hpc'[o])
  <2>1. o \in Ops /\ operation # o /\ hpc \in [Ops -> Steps \cup Answers \cup {"none"}]
    BY <1>2, OpsAssumption DEF Switches, AuthorizedLease, TypeOK, AgentTypeOK
  <2>2. CASE AgentHandler(o)
    BY <1>2, <2>1, <2>2, Zenon
    DEF AgentHandler, AgentStep, VerifyEpoch, VerifyOperation, WaitForGTID, CheckCaughtUp,
        CheckWritable, PollReplica, RunStatement, HandlerFails, Step
  <2>3. ASSUME NEW r, Send(o, r) PROVE Waits(hpc'[o])
    BY <2>1, <2>3 DEF Send
  <2>4. hpc' = hpc => Waits(hpc'[o])
    BY <1>2
  <2>5. CASE OwnStep(o)
    BY <2>2, <2>3, <2>4, <2>5, ZenonT(60)
    DEF OwnStep, BeginSwitch, BeginSetAutoFailover, OperationStep, GetCluster, CheckEpoch,
        NewSession, Lock, ReadState, PublishOperation, Recheck, CheckCandidate, StartTask,
        StartTaskFails, DemoteReply, ConfirmReadOnly, ReadGTID, WaitReply, PromoteReply,
        VerifyPromoted, CasGet, CasTxn, Reconfigure, ReplicaReply, CallFails, Finish,
        ReleaseOperation, Unlock, LeaseEnds, agentVars
  <2>6. QED
    BY <1>2, <2>1, <2>5, LocalStep, Zenon DEF Kept
<1>3. TypeOK /\ AuthorizedLease /\ [Next]_vars =>
        [\A o \in Switches :
           o \notin lease /\ hpc[o] \in {"epoch", "operation"} =>
             hpc'[o] \in {"epoch", "operation", "forbidden"}]_vars
  BY <1>2, Zenon
<1>4. QED
  BY <1>1, <1>3, AuthorizedLeaseStep, TypeCorrect, PTL DEF Spec, LateRequestRefused

-----------------------------------------------------------------------------
(* What sessions that are kept alive guarantee: the lock is then a mutual  *)
(* exclusion, and the key /switch-operation names the switch that has it.  *)

Held == \A o \in Ops : pc[o] \in PastLock => ticket[o] > 0

(* The steps that write or delete lock keys and /switch-operation. *)
LEMMA KeysStep ==
  ASSUME [Next]_vars
  PROVE  \/ UNCHANGED <<ticket, operation>>
         \/ \E o \in Ops : \/ NewSession(o) \/ PublishOperation(o) \/ ReleaseOperation(o)
                          \/ Unlock(o) \/ LeaseEnds(o)
<1>1. ASSUME NEW o \in Ops, OperationStep(o)
      PROVE  \/ UNCHANGED <<ticket, operation>>
             \/ NewSession(o) \/ PublishOperation(o) \/ ReleaseOperation(o) \/ Unlock(o)
  BY <1>1, Zenon
  DEF OperationStep, GetCluster, CheckEpoch, Lock, ReadState, Recheck, CheckCandidate, StartTask,
      StartTaskFails, PutTask, DemoteReply, ConfirmReadOnly, ReadGTID, WaitReply, PromoteReply,
      VerifyPromoted, CasGet, CasTxn, PutClusterIfRev, Reconfigure, ReplicaReply, CallFails,
      Finish, etcdVars
<1>2. ASSUME NEW o \in Ops, AgentStep(o) PROVE UNCHANGED <<ticket, operation>>
  BY <1>2, Zenon
  DEF AgentStep, VerifyEpoch, VerifyOperation, WaitForGTID, CheckCaughtUp, CheckWritable,
      PollReplica, RunStatement, HandlerFails, etcdVars
<1>3. ASSUME NEW o \in Ops, BeginSwitch(o) \/ BeginSetAutoFailover(o)
      PROVE  UNCHANGED <<ticket, operation>>
  BY <1>3, Zenon DEF BeginSwitch, BeginSetAutoFailover, etcdVars
<1>4. ASSUME NEW c \in Controllers, BecomeLeader(c) \/ LoseLeadership(c) \/ Crash(c)
      PROVE  UNCHANGED <<ticket, operation>>
  BY <1>4, Zenon DEF BecomeLeader, LoseLeadership, Crash, etcdVars
<1>5. CASE Servers \/ UNCHANGED vars
  BY <1>5, ZenonT(60) DEF Servers, vars, etcdVars
<1>6. QED
  BY <1>1, <1>2, <1>3, <1>4, <1>5, Zenon DEF Next, AgentHandler

(* An operation past the lock keeps its key as long as its session is kept *)
(* alive.                                                                  *)
LEMMA HeldStep ==
  ASSUME "lease" \notin Faults, BasicInv, Held, [Next]_vars
  PROVE  Held'
<1> SUFFICES ASSUME NEW q \in Ops, pc'[q] \in PastLock PROVE ticket'[q] > 0
  BY DEF Held
<1>1. /\ TypeOK /\ pc \in [Ops -> PCs] /\ ticket \in [Ops -> Nat] /\ nextTicket \in Nat \ {0}
  BY DEF BasicInv, TypeOK, EtcdTypeOK
<1>2. ticket[q] > 0
  BY <1>1, PastLockStep DEF Held, Lock, OwnsLock
<1>3. ASSUME NEW o \in Ops, NewSession(o) \/ PublishOperation(o) \/ ReleaseOperation(o)
      PROVE  ticket'[q] > 0
  BY <1>1, <1>2, <1>3, SMTT(30)
  DEF NewSession, CreateLockKey, PublishOperation, PutOperation, ReleaseOperation,
      DeleteOperation, etcdVars
<1>4. ASSUME NEW o \in Ops, Unlock(o) \/ LeaseEnds(o) PROVE ticket'[q] > 0
  <2>1. pc'[o] \in {"done", "crashed"}
    BY <1>1, <1>4 DEF Unlock, LeaseEnds, Goto, opVars
  <2>2. o # q
    BY <2>1 DEF PastLock, LockedSteps, TaskSteps, Outcomes
  <2>3. QED
    BY <1>1, <1>2, <1>4, <2>2, ZenonT(60)
    DEF Unlock, LeaseEnds, LeaseExpires, EndLease, DeleteLockKey, etcdVars
<1>5. QED
  BY <1>2, <1>3, <1>4, KeysStep

(* Sessions kept alive exclude operations from the lock of another one. *)
LEMMA HeldExcludes ==
  ASSUME BasicInv, Held, NEW o \in Ops, NEW p \in Ops, pc[o] \in PastLock, pc[p] \in PastLock
  PROVE  o = p
<1>1. OwnsLock(o) /\ OwnsLock(p) /\ ticket[o] \in Nat /\ ticket[p] \in Nat
  BY DEF Held, BasicInv, LockInv, TypeOK, EtcdTypeOK
<1>2. QED
  BY <1>1 DEF OwnsLock

(* /switch-operation names a switch from the moment the switch has put it  *)
(* until the switch deletes it.                                            *)
LEMMA AuthorizedStep ==
  ASSUME BasicInv, Held, ActiveOperationAuthorized, [Next]_vars, "lease" \notin Faults
  PROVE  ActiveOperationAuthorized'
<1> DEFINE Active == {"recheck", "candidate", "putTask"} \cup TaskSteps
<1> SUFFICES ASSUME NEW q \in Switches, pc'[q] \in Active PROVE operation' = q
  BY DEF ActiveOperationAuthorized
<1>1. q \in Ops /\ TypeOK /\ pc \in [Ops -> PCs] /\ SwitchCall(q)
  BY DEF Switches, BasicInv, TypeOK, CallInv
<1>2. CASE PublishOperation(q)
  BY <1>2 DEF PublishOperation, PutOperation
<1>3. CASE ~PublishOperation(q)
  <2>1. pc[q] \in Active
    <3>1. CASE pc'[q] = pc[q] \/ pc'[q] = "crashed"
      BY <3>1 DEF TaskSteps
    <3>2. CASE BeginSwitch(q) \/ BeginSetAutoFailover(q) \/ AgentHandler(q) \/ LeaseEnds(q)
      BY <1>1, <3>2, Zenon
      DEF BeginSwitch, BeginSetAutoFailover, AgentHandler, LeaseEnds, opVars, Goto, TaskSteps
    <3>3. CASE GetCluster(q) \/ CheckEpoch(q) \/ NewSession(q) \/ Lock(q) \/ ReadState(q)
      BY <1>1, <3>3, ZenonT(60)
      DEF GetCluster, CheckEpoch, NewSession, Lock, ReadState, Goto, TaskSteps, SwitchCall
    <3>4. CASE CallFails(q) \/ Finish(q) \/ ReleaseOperation(q) \/ Unlock(q) \/ StartTaskFails(q)
      BY <1>1, <3>4, ZenonT(60)
      DEF CallFails, Finish, ReleaseOperation, Unlock, StartTaskFails, Goto, TaskSteps
    <3>5. CASE \/ Recheck(q) \/ CheckCandidate(q) \/ StartTask(q) \/ DemoteReply(q)
               \/ ConfirmReadOnly(q) \/ ReadGTID(q) \/ WaitReply(q) \/ PromoteReply(q)
               \/ VerifyPromoted(q) \/ CasGet(q) \/ CasTxn(q) \/ Reconfigure(q)
               \/ ReplicaReply(q)
      BY <3>5, Zenon
      DEF Recheck, CheckCandidate, StartTask, DemoteReply, ConfirmReadOnly, ReadGTID, WaitReply,
          PromoteReply, VerifyPromoted, CasGet, CasTxn, Reconfigure, ReplicaReply, TaskSteps
    <3>6. QED
      BY <1>1, <1>3, <3>1, <3>2, <3>3, <3>4, <3>5, LocalStep, ZenonT(60) DEF OwnStep, OperationStep
  <2>2. operation = q /\ pc[q] \in PastLock
    BY <1>1, <2>1, Zenon
    DEF ActiveOperationAuthorized, Held, BasicInv, LockInv, PastLock, LockedSteps
  <2>3. ASSUME NEW o \in Ops, PublishOperation(o) \/ ReleaseOperation(o) PROVE FALSE
    <3>1. pc[o] \in {"putOperation", "deleteOperation"}
      BY <2>3 DEF PublishOperation, ReleaseOperation
    <3>2. o = q
      BY <1>1, <2>2, <3>1, HeldExcludes DEF PastLock, LockedSteps
    <3>3. QED
      BY <2>1, <3>1, <3>2 DEF TaskSteps
  <2>4. ASSUME NEW o \in Ops, Unlock(o) \/ LeaseEnds(o) PROVE operation' = q
    <3>1. pc[o] \in {"unlock", "done", "crashed"}
      BY <2>4 DEF Unlock, LeaseEnds
    <3>2. o # q
      BY <2>1, <3>1 DEF TaskSteps
    <3>3. QED
      BY <2>2, <2>4, <3>2, ZenonT(60)
      DEF Unlock, LeaseEnds, LeaseExpires, EndLease, DeleteLockKey, etcdVars
  <2>5. ASSUME NEW o \in Ops, NewSession(o) PROVE operation' = operation
    BY <2>5 DEF NewSession, CreateLockKey
  <2>6. QED
    BY <2>2, <2>3, <2>4, <2>5, KeysStep
<1>4. QED
  BY <1>2, <1>3

(* What store_test.go:69 asks for holds as long as sessions are kept       *)
(* alive, whatever crashes and whichever answers are lost: a switch under  *)
(* the lock is the one its agents authorize.  The counterexample of        *)
(* StaleRelease needs a lease that expires while its switch runs.          *)
THEOREM KeptSessionsAuthorize ==
  ASSUME "lease" \notin Faults
  PROVE  Spec => []ActiveOperationAuthorized
<1>1. Init => Held /\ ActiveOperationAuthorized
  <2> SUFFICES ASSUME Init PROVE Held /\ ActiveOperationAuthorized
    OBVIOUS
  <2>1. \A o \in Ops : pc[o] = "idle"
    BY DEF Init
  <2>2. QED
    BY <2>1
    DEF Held, ActiveOperationAuthorized, PastLock, LockedSteps, TaskSteps, Outcomes, Switches
<1>2. BasicInv /\ Held /\ ActiveOperationAuthorized /\ [Next]_vars =>
        Held' /\ ActiveOperationAuthorized'
  BY HeldStep, AuthorizedStep
<1>3. QED
  BY <1>1, <1>2, BasicInvariant, PTL DEF Spec

-----------------------------------------------------------------------------
(* What PutClusterIfEpoch, which compares epochs only, replaces.           *)

(* An operation reads the whole record, and only the record. *)
LEMMA ReadStep ==
  ASSUME [Next]_vars
  PROVE  seen' = seen \/ \E o \in Ops : seen' = [seen EXCEPT ![o] = cluster]
<1>1. ASSUME NEW o \in Ops, OperationStep(o)
      PROVE  seen' = seen \/ seen' = [seen EXCEPT ![o] = cluster]
  BY <1>1, Zenon
  DEF OperationStep, GetCluster, CheckEpoch, NewSession, Lock, ReadState, PublishOperation,
      Recheck, CheckCandidate, StartTask, StartTaskFails, DemoteReply, ConfirmReadOnly,
      ReadGTID, WaitReply, PromoteReply, VerifyPromoted, CasGet, CasTxn, Reconfigure,
      ReplicaReply, CallFails, Finish, ReleaseOperation, Unlock
<1>2. ASSUME NEW o \in Ops, BeginSwitch(o) \/ BeginSetAutoFailover(o) \/ AgentHandler(o) \/ LeaseEnds(o)
      PROVE  seen' = seen
  BY <1>2, Zenon DEF BeginSwitch, BeginSetAutoFailover, AgentHandler, LeaseEnds, opVars
<1>3. ASSUME NEW c \in Controllers, BecomeLeader(c) \/ LoseLeadership(c) \/ Crash(c)
      PROVE  seen' = seen
  BY <1>3, ZenonT(60) DEF BecomeLeader, LoseLeadership, Crash, opVars
<1>4. CASE Servers \/ UNCHANGED vars
  BY <1>4 DEF Servers, vars, opVars
<1>5. QED
  BY <1>1, <1>2, <1>3, <1>4, Zenon DEF Next

(* The flag that was read is the recorded one. *)
FlagInv == \A o \in Ops : seen[o].primary # None => seen[o].auto = cluster.auto

(* Without SetAutoFailover no write changes the flag. *)
LEMMA FlagStep ==
  ASSUME Settings = {}, BasicInv, FlagInv, [Next]_vars
  PROVE  FlagInv'
<1>1. seen \in [Ops -> ClusterState]
  BY DEF BasicInv, TypeOK
<1>2. CASE cluster' = cluster
  BY <1>1, <1>2, ReadStep DEF FlagInv
<1>3. ASSUME NEW o \in Ops, CasTxn(o) PROVE FlagInv'
  <2>1. o \in Switches /\ HasRead(o)
    BY <1>3, Zenon DEF Switches, CasTxn, HasRead, TaskSteps
  <2>2. seen[o].auto = cluster.auto
    BY <2>1, NoneAssumption, ZenonT(60) DEF BasicInv, SeenInv, SeenOK, FlagInv
  <2>3. cluster'.auto = seen[o].auto
    BY <1>3, <2>1, CasRecord
  <2>4. seen' = seen
    BY <1>3 DEF CasTxn
  <2>5. QED
    BY <2>2, <2>3, <2>4, Zenon DEF FlagInv
<1>4. QED
  BY <1>2, <1>3, OnlyCasWrites

(* Where the flag is not set while switches run, PutClusterIfEpoch rejects *)
(* the stale writer that store_test.go:11 names: the record is replaced by *)
(* an operation that read exactly this record.  The counterexample of      *)
(* StaleFlag needs a SetAutoFailover, which keeps the epoch.               *)
THEOREM SwitchesRejectStaleWriters ==
  ASSUME Settings = {}
  PROVE  Spec => StaleWriterRejected
<1>1. Init => FlagInv
  <2> SUFFICES ASSUME Init PROVE FlagInv
    OBVIOUS
  <2>1. \A o \in Ops : seen[o].primary = None
    BY DEF Init
  <2>2. QED
    BY <2>1 DEF FlagInv
<1>2. BasicInv /\ FlagInv /\ [Next]_vars =>
        [cluster' # cluster => \E o \in Ops : pc[o] = "casTxn" /\ seen[o] = cluster]_vars
  <2> SUFFICES ASSUME BasicInv, FlagInv, [Next]_vars, cluster' # cluster
               PROVE  \E o \in Ops : pc[o] = "casTxn" /\ seen[o] = cluster
    OBVIOUS
  <2>1. PICK o \in Ops : CasTxn(o)
    BY OnlyCasWrites
  <2>2. seen[o].epoch = cluster.epoch /\ seen[o].primary = cluster.primary
    BY <2>1, CasRecord
  <2>3. seen[o].auto = cluster.auto
    BY <2>2, NoneAssumption DEF FlagInv, BasicInv, SeenInv
  <2>4. seen[o] \in ClusterState /\ cluster \in ClusterState
    BY DEF BasicInv, TypeOK, EtcdTypeOK
  <2>5. seen[o] = cluster
    BY <2>2, <2>3, <2>4 DEF ClusterState
  <2>6. QED
    BY <2>1, <2>5, Zenon DEF CasTxn
<1>3. BasicInv /\ FlagInv /\ [Next]_vars => FlagInv'
  BY FlagStep
<1>4. QED
  BY <1>1, <1>2, <1>3, BasicInvariant, PTL DEF Spec, StaleWriterRejected

-----------------------------------------------------------------------------
(* Which steps of the whole system a promotion, the record and the         *)
(* writable nodes can notice, and that a disturbed system stays disturbed. *)

(* The request of an operation at each of its steps, for both kinds of     *)
(* operations.                                                             *)
LEMMA FactsOf ==
  ASSUME BasicInv, NEW q \in Ops
  PROVE  /\ req[q].kind = "none" <=> hpc[q] = "none"
         /\ pc[q] \in BeforeRequests => req[q].kind = "none"
         /\ pc[q] \in {"demoting", "confirm", "gtid"} => req[q].kind \in {"none", "demote"}
         /\ pc[q] = "catchingUp" => req[q].kind \in {"none", "wait"}
         /\ pc[q] = "promoting" => req[q].kind \in {"none", "promote"}
         /\ pc[q] = "reconfigure" => req[q].kind \in {"promote", "replica"} /\ hpc[q] = "ok"
         /\ q \in settled => q \in Switches
<1>1. CASE q \in Settings
  BY <1>1 DEF BasicInv, CallInv, SettingCall, SettingSteps, BeforeRequests
<1>2. CASE q \in Switches
  BY <1>2, Zenon DEF BasicInv, RequestInv, StepRequest, HandlerRequest
<1>3. QED
  BY <1>1, <1>2, ZenonT(60) DEF Switches

(* A promotion begins when the agent authorizes it and ends when the new   *)
(* primary is recorded; no other step starts, ends or redirects it.        *)
LEMMA PromotingKept ==
  ASSUME BasicInv, [Next]_vars, NEW q \in Ops
  PROVE  \/ VerifyOperation(q) /\ UNCHANGED <<opVars, ctlVars>>
         \/ CasTxn(q)
         \/ (Promoting(q)' <=> Promoting(q)) /\ (Promoting(q) => call'[q].target = call[q].target)
<1> DEFINE Same == (Promoting(q)' <=> Promoting(q)) /\ (Promoting(q) => call'[q].target = call[q].target)
<1>t. /\ req \in [Ops -> Request] /\ hpc \in [Ops -> Steps \cup Answers \cup {"none"}]
      /\ TypeOK /\ CallInv /\ RequestInv
  BY Zenon DEF BasicInv, TypeOK, AgentTypeOK
<1>1. CASE Kept(q)
  BY <1>1, Zenon DEF Kept, Promoting
<1>2. CASE BeginSwitch(q) \/ BeginSetAutoFailover(q)
  <2>1. pc[q] \in BeforeRequests /\ UNCHANGED <<req, hpc, settled>>
    BY <1>2, Zenon DEF BeginSwitch, BeginSetAutoFailover, BeforeRequests, agentVars
  <2>2. QED
    BY <2>1, FactsOf, Zenon DEF Promoting
<1>3. CASE StartTask(q) \/ ReadGTID(q) \/ WaitReply(q)
  <2>1. settled' = settled /\ req[q].kind \in {"none", "demote", "wait"}
    BY <1>3, FactsOf, Zenon DEF StartTask, ReadGTID, WaitReply, BeforeRequests
  <2>2. \/ UNCHANGED <<req, hpc>>
        \/ req'[q].kind \in {"demote", "wait", "promote"} /\ hpc'[q] = "epoch"
    <3>1. \/ UNCHANGED <<req, hpc>>
          \/ \E k \in {"demote", "wait", "promote"} : \E n, e, g, s : Send(q, NewRequest(k, n, e, g, s))
      BY <1>3, ZenonT(60) DEF StartTask, ReadGTID, WaitReply, agentVars
    <3>2. ASSUME NEW k \in {"demote", "wait", "promote"}, NEW n, NEW e, NEW g, NEW s,
                 Send(q, NewRequest(k, n, e, g, s))
          PROVE  req'[q].kind = k /\ hpc'[q] = "epoch"
      BY <1>t, <3>2 DEF Send, NewRequest
    <3>3. QED
      BY <3>1, <3>2, Zenon
  <2>3. QED
    BY <2>1, <2>2, Zenon DEF Promoting
<1>4. CASE Reconfigure(q)
  <2>1. UNCHANGED <<settled, call>> /\ req'[q].kind = "replica"
    <3>1. UNCHANGED <<settled, call>> /\ \E n, e, g, s : Send(q, NewRequest("replica", n, e, g, s))
      BY <1>4, ZenonT(60) DEF Reconfigure
    <3>2. ASSUME NEW n, NEW e, NEW g, NEW s, Send(q, NewRequest("replica", n, e, g, s))
          PROVE  req'[q].kind = "replica"
      BY <1>t, <3>2 DEF Send, NewRequest
    <3>3. QED
      BY <3>1, <3>2, Zenon
  <2>2. req[q].kind \in {"promote", "replica"} /\ hpc[q] = "ok"
    BY <1>4, FactsOf, Zenon DEF Reconfigure
  <2>3. QED
    BY <2>1, <2>2, Zenon DEF Promoting
<1>5. CASE \/ GetCluster(q) \/ CheckEpoch(q) \/ NewSession(q) \/ Lock(q) \/ ReadState(q)
           \/ PublishOperation(q) \/ Recheck(q) \/ CheckCandidate(q) \/ StartTaskFails(q)
           \/ DemoteReply(q) \/ ConfirmReadOnly(q) \/ PromoteReply(q) \/ VerifyPromoted(q)
           \/ CasGet(q) \/ ReplicaReply(q) \/ CallFails(q) \/ Finish(q) \/ ReleaseOperation(q)
           \/ Unlock(q) \/ LeaseEnds(q)
  <2>1. UNCHANGED <<req, hpc, call, settled>>
    BY <1>5, Zenon
    DEF GetCluster, CheckEpoch, NewSession, Lock, ReadState, PublishOperation, Recheck,
        CheckCandidate, StartTaskFails, DemoteReply, ConfirmReadOnly, PromoteReply,
        VerifyPromoted, CasGet, ReplicaReply, CallFails, Finish, ReleaseOperation, Unlock,
        LeaseEnds, agentVars, opVars
  <2>2. QED
    BY <2>1, Zenon DEF Promoting
<1>6. CASE AgentHandler(q) /\ ~VerifyOperation(q)
  <2>1. UNCHANGED <<call, settled, req>>
    BY <1>6, <1>t, AgentFrame, Zenon DEF AgentHandler, opVars, TypeOK
  <2>2. CASE RunStatement(q)
    <3>1. hpc[q] \notin {"epoch", "operation", "forbidden"} /\ hpc'[q] \notin {"epoch", "operation", "forbidden"}
      BY <1>t, <2>2, StatementEffect, Zenon DEF Steps
    <3>2. QED
      BY <2>1, <3>1, Zenon DEF Promoting
  <2>3. CASE VerifyEpoch(q) \/ WaitForGTID(q) \/ CheckCaughtUp(q) \/ CheckWritable(q) \/ PollReplica(q) \/ HandlerFails(q)
    BY <1>t, <2>1, <2>3, Zenon
    DEF VerifyEpoch, WaitForGTID, CheckCaughtUp, CheckWritable, PollReplica, HandlerFails, Step,
        Steps, Promoting
  <2>4. QED
    BY <1>6, <2>2, <2>3, Zenon DEF AgentHandler, AgentStep
<1>7. CASE VerifyOperation(q) /\ AgentHandler(q)
  BY <1>7, Zenon DEF AgentHandler
<1>8. QED
  BY <1>t, <1>1, <1>2, <1>3, <1>4, <1>5, <1>6, <1>7, LocalStep, ZenonT(60) DEF OwnStep, OperationStep

(* The only ways into the steps of a switch that matter: Recheck,          *)
(* ConfirmReadOnly, ReadGTID and WaitReply. What it read and its lock key  *)
(* stay from then on.                                                      *)
LEMMA Entry ==
  ASSUME TypeOK, CallInv, [Next]_vars, NEW q \in Switches
  PROVE  /\ pc'[q] \in CheckedSteps =>
              /\ seen'[q] = seen[q] /\ call'[q] = call[q]
              /\ ticket'[q] > 0 => ticket'[q] = ticket[q]
              /\ pc[q] \in CheckedSteps \/ Recheck(q)
         /\ pc'[q] \in FrozenSteps => pc[q] \in FrozenSteps \/ ConfirmReadOnly(q)
         /\ pc'[q] \in PromotionSteps => pc[q] \in PromotionSteps \/ WaitReply(q)
         /\ pc'[q] = "catchingUp" => pc[q] = "catchingUp" \/ ReadGTID(q)
         /\ pc'[q] = "promoting" => pc[q] = "promoting" \/ WaitReply(q)
<1> USE DEF CheckedSteps, FrozenSteps, PromotionSteps
<1>t. /\ pc \in [Ops -> PCs] /\ ticket \in [Ops -> Nat] /\ q \in Ops /\ q \notin Settings
      /\ pc[q] # "readState"
  BY Zenon DEF TypeOK, EtcdTypeOK, Switches, CallInv, SwitchCall
<1>1. CASE Kept(q) /\ pc'[q] \in {pc[q], "crashed"}
  BY <1>1, Zenon DEF Kept
<1>2. CASE \/ BeginSwitch(q) \/ BeginSetAutoFailover(q) \/ GetCluster(q) \/ CheckEpoch(q) \/ NewSession(q)
           \/ Lock(q) \/ ReadState(q) \/ PublishOperation(q) \/ StartTaskFails(q)
           \/ CallFails(q) \/ Finish(q) \/ ReleaseOperation(q) \/ Unlock(q)
  <2>1. pc'[q] \in {"getCluster", "checkEpoch", "newSession", "lockWait", "putOperation", "recheck",
                    "deleteOperation", "unlock", "done", "failed"}
    <3>1. CASE BeginSwitch(q) \/ BeginSetAutoFailover(q) \/ GetCluster(q) \/ CheckEpoch(q) \/ NewSession(q)
      BY <1>t, <3>1, Zenon
      DEF BeginSwitch, BeginSetAutoFailover, GetCluster, CheckEpoch, NewSession, Goto
    <3>2. CASE Lock(q) \/ ReadState(q) \/ PublishOperation(q) \/ StartTaskFails(q)
      BY <1>t, <3>2, Zenon DEF Lock, ReadState, PublishOperation, StartTaskFails, Goto
    <3>3. CASE CallFails(q) \/ Finish(q) \/ ReleaseOperation(q) \/ Unlock(q)
      BY <1>t, <3>3, Zenon DEF CallFails, Finish, ReleaseOperation, Unlock, Goto
    <3>4. QED
      BY <1>2, <3>1, <3>2, <3>3, Zenon
  <2>2. /\ pc'[q] \notin CheckedSteps /\ pc'[q] \notin FrozenSteps /\ pc'[q] \notin PromotionSteps
        /\ pc'[q] # "catchingUp" /\ pc'[q] # "promoting"
    BY <2>1
  <2>3. QED
    BY <2>2, Zenon
<1>3. CASE \/ Recheck(q) \/ CheckCandidate(q) \/ StartTask(q) \/ DemoteReply(q) \/ ConfirmReadOnly(q)
           \/ ReadGTID(q) \/ WaitReply(q) \/ PromoteReply(q) \/ VerifyPromoted(q)
           \/ CasGet(q) \/ CasTxn(q) \/ Reconfigure(q) \/ ReplicaReply(q)
  <2>1. UNCHANGED <<seen, call, ticket>>
    BY <1>3, Zenon
    DEF Recheck, CheckCandidate, StartTask, PutTask, DemoteReply, ConfirmReadOnly, ReadGTID,
        WaitReply, PromoteReply, VerifyPromoted, CasGet, CasTxn, PutClusterIfRev, Reconfigure,
        ReplicaReply, etcdVars
  <2>2. CASE Recheck(q) \/ CheckCandidate(q) \/ StartTask(q) \/ DemoteReply(q)
    <3>1. CASE Recheck(q) \/ CheckCandidate(q)
      <4>1. pc'[q] \in {"candidate", "putTask"} /\ (Recheck(q) \/ pc[q] = "candidate")
        BY <1>t, <3>1, ZenonT(60) DEF Recheck, CheckCandidate, Goto
      <4>2. QED
        BY <2>1, <4>1, Zenon
    <3>2. CASE StartTask(q)
      <4>1. pc[q] = "putTask" /\ pc'[q] \in {"dry-run", "demoting"}
        BY <1>t, <3>2, Zenon DEF StartTask, Goto
      <4>2. QED
        BY <1>t, <2>1, <3>2, <4>1, SMTT(30)
    <3>3. CASE DemoteReply(q)
      <4>1. pc[q] = "demoting" /\ pc'[q] = "confirm"
        BY <1>t, <3>3, Zenon DEF DemoteReply, Goto
      <4>2. QED
        BY <2>1, <4>1, Zenon
    <3>4. QED
      BY <2>2, <3>1, <3>2, <3>3, Zenon
  <2>3. CASE ConfirmReadOnly(q) \/ ReadGTID(q)
    BY <1>t, <2>1, <2>3, Zenon DEF ConfirmReadOnly, ReadGTID, Goto
  <2>4. CASE WaitReply(q) \/ PromoteReply(q) \/ VerifyPromoted(q)
    BY <1>t, <2>1, <2>4, Zenon DEF WaitReply, PromoteReply, VerifyPromoted, Goto
  <2>5. CASE CasGet(q) \/ CasTxn(q) \/ Reconfigure(q) \/ ReplicaReply(q)
    BY <1>t, <2>1, <2>5, Zenon DEF CasGet, CasTxn, Reconfigure, ReplicaReply, Goto
  <2>6. QED
    BY <1>3, <2>2, <2>3, <2>4, <2>5, ZenonT(60)
<1>4. CASE AgentHandler(q)
  <2>1. UNCHANGED <<pc, call, seen, ticket>>
    <3>1. UNCHANGED opVars
      BY <1>4, Zenon DEF AgentHandler
    <3>2. AgentTypeOK
      BY Zenon DEF TypeOK
    <3>3. UNCHANGED etcdVars
      BY <1>t, <1>4, <3>2, AgentFrame, Zenon DEF AgentHandler
    <3>4. QED
      BY <3>1, <3>3, Zenon DEF opVars, etcdVars
  <2>2. QED
    BY <2>1, Zenon
<1>5. CASE LeaseEnds(q)
  <2>1. UNCHANGED <<pc, call, seen>>
    BY <1>5 DEF LeaseEnds, opVars
  <2>2. ticket'[q] = 0
    BY <1>t, <1>5, Zenon DEF LeaseEnds, LeaseExpires, EndLease
  <2>3. ~(ticket'[q] > 0)
    BY <2>2
  <2>4. QED
    BY <2>1, <2>3, Zenon
<1>6. QED
  BY <1>t, <1>1, <1>2, <1>3, <1>4, <1>5, LocalStep, ZenonT(60) DEF OwnStep, OperationStep

(* A promotion that lost its lock or its controller stays unfinished:      *)
(* nothing makes a disturbed system count as undisturbed again.            *)
LEMMA PromotionKept ==
  ASSUME BasicInv, [Next]_vars, NEW q \in Ops,
         Promoting(q), ~(pc[q] \in PromotionSteps /\ ticket[q] > 0)
  PROVE  Promoting(q)' /\ ~(pc'[q] \in PromotionSteps /\ ticket'[q] > 0)
<1>t. /\ TypeOK /\ CallInv /\ ticket \in [Ops -> Nat] /\ req[q].kind # "none"
      /\ hpc \in [Ops -> Steps \cup Answers \cup {"none"}]
  BY Zenon DEF BasicInv, TypeOK, EtcdTypeOK, AgentTypeOK, Promoting
<1>s. q \in Switches
  BY <1>t, Zenon DEF CallInv, SettingCall, Switches
<1>1. Promoting(q)'
  <2>1. CASE VerifyOperation(q) /\ UNCHANGED <<opVars, ctlVars>>
    BY <2>1, Zenon DEF VerifyOperation, Step, opVars, Promoting
  <2>2. CASE CasTxn(q)
    BY <2>2, <1>t, Zenon DEF CasTxn, PromotionSteps, agentVars, Promoting
  <2>3. QED
    BY <2>1, <2>2, PromotingKept, Zenon
<1>2. CASE pc[q] \notin PromotionSteps
  <2>1. ~WaitReply(q)
    BY FactsOf, Zenon DEF WaitReply, Promoting
  <2>2. QED
    BY <1>1, <1>2, <1>s, <1>t, <2>1, Entry, Zenon
<1>3. CASE pc[q] \in PromotionSteps
  <2>1. ticket[q] = 0 /\ ~NewSession(q)
    BY <1>3, <1>t, SMTT(30) DEF PromotionSteps, NewSession
  <2>2. ASSUME NEW o \in Ops, NewSession(o) PROVE ticket'[q] = 0
    BY <1>t, <2>1, <2>2, Zenon DEF NewSession, CreateLockKey
  <2>3. ticket'[q] = 0
    BY <1>t, <2>1, <2>2, TicketStep, Zenon
  <2>4. QED
    BY <1>1, <2>3, SMTT(30)
<1>4. QED
  BY <1>2, <1>3, Zenon

(* A restart that made a read-only node writable is never forgotten. *)
LEMMA TaintKept ==
  ASSUME TypeOK, CallInv, RequestInv, [Next]_vars
  PROVE  tainted \subseteq tainted'
<1>1. CASE UNCHANGED mysqlVars
  BY <1>1 DEF mysqlVars
<1>2. ASSUME NEW o \in Ops, RunStatement(o) PROVE tainted' = tainted
  BY <1>2, StatementEffect, Zenon
<1>3. CASE Servers
  BY <1>3, ZenonT(60) DEF Servers, MySQLStep, Write, Replicate, RestartMySQL
<1>4. QED
  BY <1>1, <1>2, <1>3, StepFrame

(* A state that follows a disturbed one is disturbed. *)
LEMMA UndisturbedBefore ==
  ASSUME BasicInv, [Next]_vars, Undisturbed'
  PROVE  Undisturbed
<1>1. tainted \subseteq tainted'
  BY TaintKept DEF BasicInv
<1>2. ASSUME NEW q \in Ops, Promoting(q) PROVE pc[q] \in PromotionSteps /\ ticket[q] > 0
  <2>1. SUFFICES ASSUME ~(pc[q] \in PromotionSteps /\ ticket[q] > 0) PROVE FALSE
    OBVIOUS
  <2>2. Promoting(q)' /\ ~(pc'[q] \in PromotionSteps /\ ticket'[q] > 0)
    BY <1>2, <2>1, PromotionKept
  <2>3. QED
    BY <2>2 DEF Undisturbed
<1>3. QED
  BY <1>1, <1>2 DEF Undisturbed

(* The steps that can change the record, the data, the writable nodes or   *)
(* the promotions; every other step is quiet.                              *)
LEMMA StepKinds ==
  ASSUME BasicInv, tainted' = {}, [Next]_vars
  PROVE  \/ QuietStep
         \/ \E o \in Ops : VerifyOperation(o) /\ UNCHANGED <<opVars, ctlVars>>
         \/ \E o \in Ops : CasTxn(o)
         \/ \E o \in Ops : RunStatement(o) /\ UNCHANGED <<etcdVars, opVars, ctlVars>>
         \/ \E n \in Nodes, t \in Txns :
              (Write(n, t) \/ Replicate(n, t)) /\ UNCHANGED <<etcdVars, agentVars, opVars, ctlVars>>
<1> SUFFICES ASSUME ~\E o \in Ops : VerifyOperation(o) /\ UNCHANGED <<opVars, ctlVars>>,
                    ~\E o \in Ops : CasTxn(o)
             PROVE  \/ QuietStep
                    \/ \E o \in Ops : RunStatement(o) /\ UNCHANGED <<etcdVars, opVars, ctlVars>>
                    \/ \E n \in Nodes, t \in Txns :
                         (Write(n, t) \/ Replicate(n, t)) /\ UNCHANGED <<etcdVars, agentVars, opVars, ctlVars>>
  BY Zenon
<1>1. cluster' = cluster
  BY OnlyCasWrites
<1>2. \A q \in Ops : (Promoting(q)' <=> Promoting(q)) /\ (Promoting(q) => call'[q].target = call[q].target)
  BY PromotingKept, Zenon
<1>3. CASE UNCHANGED mysqlVars
  BY <1>1, <1>2, <1>3, Zenon DEF mysqlVars, Writable, QuietStep
<1>4. ASSUME NEW n \in Nodes, RestartMySQL(n) PROVE QuietStep
  <2>1. executed' = executed /\ \A m \in Nodes : mode'[m] = "rw" => mode[m] = "rw"
    BY <1>4, Zenon DEF RestartMySQL, BasicInv, TypeOK, MySQLTypeOK, Writable
  <2>2. QED
    BY <1>1, <1>2, <2>1, Zenon DEF Writable, QuietStep
<1>5. QED
  BY <1>3, <1>4, StepFrame, Zenon DEF Servers, MySQLStep
=============================================================================
