---------------------------- MODULE BasicProofs ----------------------------
(***************************************************************************)
(* What one step changes: the frame of every action, and that every step   *)
(* keeps the types of all variables; then the parts of BasicInv that do    *)
(* not depend on the agents: which steps an operation takes, what it has   *)
(* read, the compared revision and the ownership of the lock.  For every   *)
(* value of the constants.                                                 *)
(***************************************************************************)
EXTENDS ControllerInv, TLAPS

(* Time limits of the provers, in seconds, where a step names none. *)
USE SMTT(30), ZenonT(30)

(* A step of a handler leaves Etcd, the data and the other handlers alone. *)
LEMMA AgentFrame ==
  ASSUME NEW o \in Ops, AgentStep(o), AgentTypeOK
  PROVE  /\ UNCHANGED <<etcdVars, req, executed, tainted>>
         /\ hpc[o] \in Steps
         /\ hpc' = [hpc EXCEPT ![o] = hpc'[o]]
BY
DEF AgentStep, VerifyEpoch, VerifyOperation, WaitForGTID, CheckCaughtUp, CheckWritable,
    PollReplica, RunStatement, HandlerFails, Step, StopReplica, ResetReplicaAll,
    ChangeReplicationSource, StartReplica, SetSuperReadOnly, SetGlobalReadOnly, AgentTypeOK,
    mysqlVars, Steps

(* What one SQL statement of an agent handler changes and where it leads:  *)
(* it touches neither Etcd nor the data, and only SET GLOBAL read_only=OFF *)
(* makes a node writable.                                                  *)
LEMMA StatementEffect ==
  ASSUME TypeOK, CallInv, RequestInv, NEW o \in Ops, RunStatement(o)
  PROVE  /\ UNCHANGED <<etcdVars, req, executed, tainted>>
         /\ mode' \in [Nodes -> {"rw", "ro", "sro"}]
         /\ source' \in [Nodes -> Nodes \cup {None}]
         /\ running' \in [Nodes -> BOOLEAN]
         /\ hpc' \in [Ops -> Steps \cup Answers \cup {"none"}]
         /\ \A p \in Ops \ {o} : hpc'[p] = hpc[p]
         /\ hpc[o] \in Steps \ {"epoch", "operation"}
         /\ hpc'[o] \in {"reset", "superOff", "change", "start", "superOn", "roOn", "ok", "poll", "roOff", "written"}
         /\ hpc'[o] \in {"superOff", "roOff", "written"} => req[o].kind = "promote"
         /\ hpc'[o] = "reset" => req[o].kind \in {"promote", "replica"}
         /\ hpc'[o] \in {"change", "start", "poll"} => req[o].kind = "replica"
         /\ hpc'[o] \in {"superOn", "roOn"} => req[o].kind \in {"demote", "replica"}
         /\ hpc'[o] = "ok" => req[o].kind = "demote"
         /\ \A n \in Nodes : Writable(n)' =>
              Writable(n) \/ (n = req[o].node /\ hpc[o] = "roOff")
<1>1. o \in Switches /\ req[o].kind # "none" /\ req[o].node \in Nodes /\ req[o].kind \in Kinds
  <2>1. hpc[o] # "none"
    BY ZenonT(60) DEF RunStatement
  <2>2. QED
    BY <2>1
    DEF CallInv, SettingCall, RequestInv, HandlerRequest, Switches, TypeOK, AgentTypeOK, Request
<1> USE <1>1 DEF TypeOK, MySQLTypeOK, AgentTypeOK, Writable
<1>2. UNCHANGED <<etcdVars, req, executed, tainted>>
  BY
  DEF RunStatement, Step, StopReplica, ResetReplicaAll, ChangeReplicationSource, StartReplica,
      SetSuperReadOnly, SetGlobalReadOnly
<1>3. /\ hpc' \in [Ops -> Steps \cup Answers \cup {"none"}]
      /\ \A p \in Ops \ {o} : hpc'[p] = hpc[p]
  BY ZenonT(60) DEF RunStatement, Step, Steps, Answers
<1>4. /\ hpc[o] \in Steps \ {"epoch", "operation"}
      /\ hpc'[o] \in {"reset", "superOff", "change", "start", "superOn", "roOn", "ok", "poll", "roOff", "written"}
      /\ hpc'[o] \in {"superOff", "roOff", "written"} => req[o].kind = "promote"
      /\ hpc'[o] = "reset" => req[o].kind \in {"promote", "replica"}
      /\ hpc'[o] \in {"change", "start", "poll"} => req[o].kind = "replica"
      /\ hpc'[o] \in {"superOn", "roOn"} => req[o].kind \in {"demote", "replica"}
      /\ hpc'[o] = "ok" => req[o].kind = "demote"
  <2>1. HandlerRequest(o)
    BY DEF RequestInv
  <2>2. QED
    BY <2>1, ZenonT(60) DEF RunStatement, Step, Steps, HandlerRequest, Kinds
<1>5. source' \in [Nodes -> Nodes \cup {None}] /\ running' \in [Nodes -> BOOLEAN]
  <2>1. req[o].source \in Nodes \cup {None}
    BY DEF Request
  <2>2. QED
    BY <2>1, Zenon
    DEF RunStatement, StopReplica, ResetReplicaAll, ChangeReplicationSource, StartReplica,
        SetSuperReadOnly, SetGlobalReadOnly
<1>6. ASSUME NEW on \in BOOLEAN, SetSuperReadOnly(req[o].node, on)
      PROVE  mode' \in [Nodes -> {"rw", "ro", "sro"}] /\ \A n \in Nodes : Writable(n)' => Writable(n)
  BY <1>6 DEF SetSuperReadOnly
<1>7. ASSUME NEW on \in BOOLEAN, SetGlobalReadOnly(req[o].node, on)
      PROVE  /\ mode' \in [Nodes -> {"rw", "ro", "sro"}]
             /\ \A n \in Nodes : Writable(n)' => Writable(n) \/ (n = req[o].node /\ ~on)
  BY <1>7 DEF SetGlobalReadOnly
<1>8. /\ mode' \in [Nodes -> {"rw", "ro", "sro"}]
      /\ \A n \in Nodes : Writable(n)' => Writable(n) \/ (n = req[o].node /\ hpc[o] = "roOff")
  BY <1>6, <1>7, Zenon
  DEF RunStatement, StopReplica, ResetReplicaAll, ChangeReplicationSource, StartReplica
<1>9. QED
  BY <1>2, <1>3, <1>4, <1>5, <1>8

(* Only a statement of an agent or a step of the servers themselves        *)
(* changes a MySQL server.                                                 *)
LEMMA StepFrame ==
  ASSUME [Next]_vars
  PROVE  \/ UNCHANGED mysqlVars
         \/ \E o \in Ops : RunStatement(o) /\ UNCHANGED <<etcdVars, opVars, ctlVars>>
         \/ Servers
<1>1. ASSUME NEW o \in Ops, OperationStep(o) PROVE UNCHANGED mysqlVars
  BY <1>1, Zenon
  DEF OperationStep, GetCluster, CheckEpoch, NewSession, Lock, ReadState, PublishOperation,
      Recheck, CheckCandidate, StartTask, StartTaskFails, DemoteReply, ConfirmReadOnly,
      ReadGTID, WaitReply, PromoteReply, VerifyPromoted, CasGet, CasTxn, Reconfigure,
      ReplicaReply, CallFails, Finish, ReleaseOperation, Unlock
<1>2. ASSUME NEW o \in Ops, AgentStep(o) PROVE UNCHANGED mysqlVars \/ (RunStatement(o) /\ UNCHANGED etcdVars)
  BY <1>2, Zenon
  DEF AgentStep, VerifyEpoch, VerifyOperation, WaitForGTID, CheckCaughtUp, CheckWritable,
      PollReplica, RunStatement, HandlerFails
<1>3. ASSUME NEW o \in Ops, BeginSwitch(o) \/ BeginSetAutoFailover(o) \/ LeaseEnds(o)
      PROVE  UNCHANGED mysqlVars
  BY <1>3 DEF BeginSwitch, BeginSetAutoFailover, LeaseEnds
<1>4. ASSUME NEW c \in Controllers, BecomeLeader(c) \/ LoseLeadership(c) \/ Crash(c)
      PROVE  UNCHANGED mysqlVars
  BY <1>4 DEF BecomeLeader, LoseLeadership, Crash
<1>5. QED
  BY <1>1, <1>2, <1>3, <1>4 DEF Next, AgentHandler, vars

(* Every step keeps the types of the servers' state. *)
LEMMA MySQLTypes ==
  ASSUME TypeOK, CallInv, RequestInv, [Next]_vars
  PROVE  MySQLTypeOK'
<1>1. CASE UNCHANGED mysqlVars
  BY <1>1 DEF TypeOK, MySQLTypeOK, mysqlVars
<1>2. ASSUME NEW o \in Ops, RunStatement(o) PROVE MySQLTypeOK'
  BY <1>2, StatementEffect DEF TypeOK, MySQLTypeOK
<1>3. CASE Servers
  <2>1. ASSUME NEW n \in Nodes, NEW t \in Txns, Write(n, t) \/ Replicate(n, t) PROVE MySQLTypeOK'
    BY <2>1 DEF Write, Replicate, TypeOK, MySQLTypeOK
  <2>2. ASSUME NEW n \in Nodes, RestartMySQL(n) PROVE MySQLTypeOK'
    BY <2>2 DEF RestartMySQL, TypeOK, MySQLTypeOK
  <2>3. QED
    BY <1>3, <2>1, <2>2 DEF Servers, MySQLStep
<1>4. QED
  BY <1>1, <1>2, <1>3, StepFrame

(* Every step keeps the types of the keys in Etcd. *)
LEMMA EtcdTypes ==
  ASSUME TypeOK, [Next]_vars
  PROVE  EtcdTypeOK'
<1>1. EtcdTypeOK
  BY DEF TypeOK
<1>2. UNCHANGED etcdVars => EtcdTypeOK'
  BY <1>1 DEF etcdVars, EtcdTypeOK
<1>3. ASSUME NEW o \in Ops,
             \/ CreateLockKey(o) \/ PutOperation(o) \/ DeleteOperation
             \/ EndLease(o) \/ DeleteLockKey(o)
             \/ \E s \in TaskStates : PutTask(o, s)
             \/ \E s \in ClusterState : PutClusterIfRev(casRev[o], s)
      PROVE  EtcdTypeOK'
  BY <1>1, <1>3
  DEF CreateLockKey, PutOperation, DeleteOperation, EndLease, DeleteLockKey, PutTask,
      PutClusterIfRev, EtcdTypeOK
<1>4. ASSUME NEW o \in Ops, OperationStep(o) PROVE EtcdTypeOK'
  <2>1. CASE \/ GetCluster(o) \/ CheckEpoch(o) \/ Lock(o) \/ ReadState(o) \/ Recheck(o)
             \/ CheckCandidate(o) \/ DemoteReply(o) \/ ConfirmReadOnly(o) \/ ReadGTID(o)
             \/ WaitReply(o) \/ PromoteReply(o) \/ VerifyPromoted(o) \/ CasGet(o)
             \/ Reconfigure(o) \/ ReplicaReply(o) \/ CallFails(o)
    BY <1>2, <2>1, Zenon
    DEF GetCluster, CheckEpoch, Lock, ReadState, Recheck, CheckCandidate, DemoteReply,
        ConfirmReadOnly, ReadGTID, WaitReply, PromoteReply, VerifyPromoted, CasGet, Reconfigure,
        ReplicaReply, CallFails
  <2>2. CASE \/ NewSession(o) \/ PublishOperation(o) \/ ReleaseOperation(o) \/ Unlock(o)
    BY <1>2, <1>3, <2>2, Zenon DEF NewSession, PublishOperation, ReleaseOperation, Unlock
  <2>3. CASE StartTask(o) \/ StartTaskFails(o) \/ Finish(o)
    BY <1>2, <1>3, <2>3, Zenon DEF StartTask, StartTaskFails, Finish, Outcomes, TaskStates
  <2>4. CASE CasTxn(o)
    <3>1. seen[o] \in ClusterState /\ call[o] \in Call
      BY DEF TypeOK
    <3>2. NewState(o) \in ClusterState
      BY <3>1 DEF NewState, ClusterState, Call
    <3>3. QED
      BY <1>3, <2>4, <3>2, Zenon DEF CasTxn
  <2>5. QED
    BY <1>4, <2>1, <2>2, <2>3, <2>4 DEF OperationStep
<1>5. ASSUME NEW o \in Ops, AgentHandler(o) PROVE EtcdTypeOK'
  BY <1>2, <1>5, AgentFrame DEF AgentHandler, TypeOK
<1>6. ASSUME NEW o \in Ops, BeginSwitch(o) \/ BeginSetAutoFailover(o) \/ LeaseEnds(o)
      PROVE  EtcdTypeOK'
  BY <1>2, <1>3, <1>6 DEF BeginSwitch, BeginSetAutoFailover, LeaseEnds, LeaseExpires
<1>7. ASSUME NEW c \in Controllers, BecomeLeader(c) \/ LoseLeadership(c) \/ Crash(c)
      PROVE  EtcdTypeOK'
  BY <1>2, <1>7 DEF BecomeLeader, LoseLeadership, Crash
<1>8. CASE Servers \/ UNCHANGED vars
  BY <1>2, <1>8 DEF Servers, vars
<1>9. QED
  BY <1>4, <1>5, <1>6, <1>7, <1>8 DEF Next

(* Every step keeps the types of the requests and their handlers. *)
LEMMA AgentTypes ==
  ASSUME TypeOK, CallInv, SeenInv, RequestInv, [Next]_vars
  PROVE  AgentTypeOK'
<1>1. AgentTypeOK
  BY DEF TypeOK
<1>2. UNCHANGED agentVars => AgentTypeOK'
  BY <1>1 DEF agentVars, AgentTypeOK
<1>3. ASSUME NEW o \in Ops, NEW r \in Request, Send(o, r) PROVE AgentTypeOK'
  BY <1>1, <1>3 DEF Send, AgentTypeOK, Steps
<1>4. ASSUME NEW o \in Ops, OperationStep(o) PROVE AgentTypeOK'
  <2>1. seen[o].primary \in Nodes \cup {None} /\ seen[o].epoch \in Nat /\ call[o].target \in Nodes \cup {None}
    BY DEF TypeOK, ClusterState, Call
  <2>2. ASSUME NEW k \in Kinds, NEW n \in Nodes \cup {None}, NEW g \in SUBSET Txns, NEW s \in Nodes \cup {None}
        PROVE  NewRequest(k, n, seen[o].epoch, g, s) \in Request
    BY <2>1 DEF NewRequest, Request
  <2>3. CASE \/ GetCluster(o) \/ CheckEpoch(o) \/ NewSession(o) \/ Lock(o) \/ ReadState(o)
             \/ PublishOperation(o) \/ Recheck(o) \/ CheckCandidate(o) \/ StartTaskFails(o)
             \/ DemoteReply(o) \/ ConfirmReadOnly(o) \/ PromoteReply(o) \/ VerifyPromoted(o)
             \/ CasGet(o) \/ CasTxn(o) \/ ReplicaReply(o) \/ CallFails(o) \/ Finish(o)
             \/ ReleaseOperation(o) \/ Unlock(o)
    BY <1>2, <2>3, Zenon
    DEF GetCluster, CheckEpoch, NewSession, Lock, ReadState, PublishOperation, Recheck,
        CheckCandidate, StartTaskFails, DemoteReply, ConfirmReadOnly, PromoteReply,
        VerifyPromoted, CasGet, CasTxn, ReplicaReply, CallFails, Finish, ReleaseOperation,
        Unlock
  <2>4. CASE StartTask(o) \/ WaitReply(o)
    BY <1>2, <1>3, <2>1, <2>2, <2>4, Zenon DEF StartTask, WaitReply, Kinds
  <2>5. CASE Reconfigure(o)
    <3>1. todo[o] \subseteq Nodes
      BY DEF TypeOK
    <3>2. QED
      BY <1>3, <2>1, <2>2, <2>5, <3>1, Zenon DEF Reconfigure, Kinds
  <2>6. CASE ReadGTID(o)
    <3>1. o \in Switches /\ seen[o].primary \in Nodes
      BY <2>6, Zenon
      DEF ReadGTID, CallInv, SettingCall, SettingSteps, Switches, SeenInv, SeenOK, HasRead,
          TaskSteps
    <3>2. executed[seen[o].primary] \in SUBSET Txns
      BY <3>1 DEF TypeOK, MySQLTypeOK
    <3>3. QED
      BY <1>3, <2>1, <2>2, <2>6, <3>2 DEF ReadGTID, Kinds
  <2>7. QED
    BY <1>4, <2>3, <2>4, <2>5, <2>6 DEF OperationStep
<1>5. ASSUME NEW o \in Ops, AgentStep(o) PROVE AgentTypeOK'
  <2>1. CASE VerifyOperation(o)
    <3>1. o \in Switches /\ req[o].kind \in {"demote", "wait", "promote", "replica"}
      BY <1>1, <2>1
      DEF VerifyOperation, CallInv, SettingCall, RequestInv, HandlerRequest, Switches,
          AgentTypeOK, Request, Kinds
    <3>2. FirstStep(req[o].kind) \in Steps
      BY <3>1 DEF FirstStep, Steps
    <3>3. QED
      BY <1>1, <2>1, <3>2 DEF VerifyOperation, Step, AgentTypeOK, Answers
  <2>2. CASE RunStatement(o)
    BY <1>1, <2>2, StatementEffect DEF AgentTypeOK
  <2>3. CASE \/ VerifyEpoch(o) \/ WaitForGTID(o) \/ CheckCaughtUp(o) \/ CheckWritable(o)
             \/ PollReplica(o) \/ HandlerFails(o)
    BY <1>1, <2>3, ZenonT(60)
    DEF VerifyEpoch, WaitForGTID, CheckCaughtUp, CheckWritable, PollReplica, HandlerFails, Step,
        AgentTypeOK, Steps, Answers
  <2>4. QED
    BY <1>5, <2>1, <2>2, <2>3 DEF AgentStep
<1>6. ASSUME NEW o \in Ops, BeginSwitch(o) \/ BeginSetAutoFailover(o) \/ LeaseEnds(o)
      PROVE  AgentTypeOK'
  BY <1>2, <1>6, Zenon DEF BeginSwitch, BeginSetAutoFailover, LeaseEnds
<1>7. ASSUME NEW c \in Controllers, BecomeLeader(c) \/ LoseLeadership(c) \/ Crash(c)
      PROVE  AgentTypeOK'
  BY <1>2, <1>7 DEF BecomeLeader, LoseLeadership, Crash
<1>8. CASE Servers \/ UNCHANGED vars
  BY <1>2, <1>8 DEF Servers, vars
<1>9. QED
  BY <1>4, <1>5, <1>6, <1>7, <1>8 DEF Next, AgentHandler

(* Every step keeps the types of the controllers' state. *)
LEMMA OperationTypes ==
  ASSUME TypeOK, CallInv, [Next]_vars
  PROVE  /\ (pc \in [Ops -> PCs] /\ call \in [Ops -> Call] /\ seen \in [Ops -> ClusterState])'
         /\ (casRev \in [Ops -> Nat] /\ todo \in [Ops -> SUBSET Nodes] /\ settled \in SUBSET Ops)'
         /\ (leading \in SUBSET Controllers /\ tripping \in [Controllers -> BOOLEAN])'
         /\ (lastDryRunPrimary \in [Controllers -> Nodes \cup {None}])'
<1> DEFINE Types ==
         /\ pc \in [Ops -> PCs] /\ call \in [Ops -> Call] /\ seen \in [Ops -> ClusterState]
         /\ casRev \in [Ops -> Nat] /\ todo \in [Ops -> SUBSET Nodes] /\ settled \in SUBSET Ops
         /\ leading \in SUBSET Controllers /\ tripping \in [Controllers -> BOOLEAN]
         /\ lastDryRunPrimary \in [Controllers -> Nodes \cup {None}]
<1>1. Types
  BY DEF TypeOK
<1>2. cluster \in ClusterState /\ clusterRev \in Nat
  BY DEF TypeOK, EtcdTypeOK
<1>3. ASSUME NEW o \in Ops, OperationStep(o) PROVE Types'
  <2> USE <1>1 DEF ctlVars
  <2>1. ASSUME NEW l \in PCs, Goto(o, l) PROVE pc' \in [Ops -> PCs]
    BY <2>1 DEF Goto
  <2> USE <2>1 DEF PCs, LockedSteps, TaskSteps, Outcomes
  <2>2. CASE \/ CheckEpoch(o) \/ NewSession(o) \/ Lock(o) \/ PublishOperation(o) \/ Recheck(o)
             \/ CheckCandidate(o) \/ DemoteReply(o) \/ ConfirmReadOnly(o) \/ ReadGTID(o)
             \/ WaitReply(o) \/ PromoteReply(o) \/ VerifyPromoted(o) \/ Reconfigure(o)
             \/ CallFails(o) \/ ReleaseOperation(o) \/ Unlock(o)
    BY <2>2, Zenon
    DEF CheckEpoch, NewSession, Lock, PublishOperation, Recheck, CheckCandidate, DemoteReply,
        ConfirmReadOnly, ReadGTID, WaitReply, PromoteReply, VerifyPromoted, Reconfigure,
        CallFails, ReleaseOperation, Unlock
  <2>3. CASE GetCluster(o) \/ ReadState(o) \/ CasGet(o)
    <3>1. CASE GetCluster(o)
      BY <1>2, <3>1, Zenon DEF GetCluster
    <3>2. CASE ReadState(o)
      BY <1>2, <3>2, Zenon DEF ReadState
    <3>3. CASE CasGet(o)
      BY <1>2, <3>3, Zenon DEF CasGet
    <3>4. QED
      BY <2>3, <3>1, <3>2, <3>3, Zenon
  <2>4. CASE CasTxn(o) \/ ReplicaReply(o)
    BY <2>4, ZenonT(60) DEF CasTxn, ReplicaReply
  <2>5. CASE StartTask(o)
    <3>1. seen[o].primary \in Nodes \cup {None}
      BY DEF ClusterState
    <3>2. QED
      BY <2>5, <3>1, Zenon DEF StartTask
  <2>6. CASE StartTaskFails(o) \/ Finish(o)
    <3>1. 0 \in Nat
      OBVIOUS
    <3>2. QED
      BY <2>6, <3>1, ZenonT(60) DEF StartTaskFails, Finish
  <2>7. QED
    BY <1>3, <2>2, <2>3, <2>4, <2>5, <2>6, ZenonT(60) DEF OperationStep
<1>4. ASSUME NEW o \in Ops, BeginSwitch(o) \/ BeginSetAutoFailover(o) PROVE Types'
  <2>1. ASSUME NEW c \in Controllers, NEW t \in Nodes \cup {None}, NEW b \in BOOLEAN, NEW e \in BOOLEAN
        PROVE  [ctl |-> c, target |-> t, automatic |-> b, enabled |-> e] \in Call
    BY DEF Call
  <2>2. pc' \in [Ops -> PCs]
    BY <1>1, <1>4 DEF BeginSwitch, BeginSetAutoFailover, Goto, PCs
  <2>3. call' \in [Ops -> Call]
    <3>1. PICK r \in Call : call' = [call EXCEPT ![o] = r]
      BY <1>1, <1>4, <2>1, Zenon DEF BeginSwitch, BeginSetAutoFailover
    <3>2. QED
      BY <1>1, <3>1
  <2>4. QED
    BY <1>1, <1>4, <2>2, <2>3 DEF BeginSwitch, BeginSetAutoFailover, ctlVars
<1>5. ASSUME NEW c \in Controllers, BecomeLeader(c) \/ LoseLeadership(c) \/ Crash(c) PROVE Types'
  BY <1>1, <1>5, Zenon DEF BecomeLeader, LoseLeadership, Crash, opVars, PCs
<1>6. ASSUME NEW o \in Ops, AgentHandler(o) \/ LeaseEnds(o) PROVE Types'
  BY <1>1, <1>6 DEF AgentHandler, LeaseEnds, opVars, ctlVars
<1>7. CASE Servers \/ UNCHANGED vars
  BY <1>1, <1>7 DEF Servers, vars, opVars, ctlVars
<1>8. QED
  BY <1>3, <1>4, <1>5, <1>6, <1>7, Zenon DEF Next

(* Every step keeps the variables in their types. *)
LEMMA TypeOKStep == TypeOK /\ CallInv /\ SeenInv /\ RequestInv /\ [Next]_vars => TypeOK'
BY MySQLTypes, EtcdTypes, AgentTypes, OperationTypes, Zenon DEF TypeOK

(* A step of one operation, or of the handler of its request, leaves what  *)
(* belongs to another operation alone.                                     *)
LEMMA OthersKeep ==
  ASSUME TypeOK, NEW o \in Ops, NEW q \in Ops \ {o}, OwnStep(o)
  PROVE  Kept(q) /\ pc'[q] = pc[q]
<1> DEFINE Fixed == Kept(q) /\ pc'[q] = pc[q]
<1>1. /\ pc \in [Ops -> PCs] /\ call \in [Ops -> Call] /\ seen \in [Ops -> ClusterState]
      /\ casRev \in [Ops -> Nat] /\ ticket \in [Ops -> Nat]
      /\ req \in [Ops -> Request] /\ hpc \in [Ops -> Steps \cup Answers \cup {"none"}]
  BY Zenon DEF TypeOK, EtcdTypeOK, AgentTypeOK
<1> USE <1>1 DEF Kept, Goto, etcdVars, agentVars
<1>2. CASE \/ BeginSwitch(o) \/ BeginSetAutoFailover(o) \/ GetCluster(o) \/ CheckEpoch(o)
           \/ NewSession(o) \/ Lock(o) \/ ReadState(o)
  BY <1>2, Zenon
  DEF BeginSwitch, BeginSetAutoFailover, GetCluster, CheckEpoch, NewSession, CreateLockKey,
      Lock, ReadState
<1>3. CASE \/ PublishOperation(o) \/ Recheck(o) \/ CheckCandidate(o) \/ StartTask(o)
           \/ StartTaskFails(o)
  BY <1>3, Zenon
  DEF PublishOperation, PutOperation, Recheck, CheckCandidate, StartTask, StartTaskFails,
      PutTask, Send
<1>4. CASE \/ DemoteReply(o) \/ ConfirmReadOnly(o) \/ ReadGTID(o) \/ WaitReply(o)
           \/ PromoteReply(o) \/ VerifyPromoted(o)
  BY <1>4, Zenon
  DEF DemoteReply, ConfirmReadOnly, ReadGTID, WaitReply, PromoteReply, VerifyPromoted, Send
<1>5. CASE CasGet(o) \/ CasTxn(o) \/ Reconfigure(o) \/ ReplicaReply(o)
  BY <1>5, ZenonT(60) DEF CasGet, CasTxn, PutClusterIfRev, Reconfigure, ReplicaReply, Send
<1>6. CASE CallFails(o) \/ Finish(o) \/ ReleaseOperation(o) \/ Unlock(o) \/ LeaseEnds(o)
  BY <1>6, Zenon
  DEF CallFails, Finish, PutTask, ReleaseOperation, DeleteOperation, Unlock, EndLease,
      DeleteLockKey, LeaseEnds, LeaseExpires, opVars
<1>7. CASE AgentHandler(o)
  <2>1. UNCHANGED <<etcdVars, req>> /\ hpc' = [hpc EXCEPT ![o] = hpc'[o]]
    BY <1>7, Zenon
    DEF AgentHandler, AgentStep, VerifyEpoch, VerifyOperation, WaitForGTID, CheckCaughtUp,
        CheckWritable, PollReplica, RunStatement, HandlerFails, Step
  <2>2. QED
    BY <1>7, <2>1 DEF AgentHandler, opVars
<1>8. QED
  BY <1>2, <1>3, <1>4, <1>5, <1>6, <1>7, Zenon DEF OwnStep, OperationStep

(* What belongs to an operation changes by its own steps and by the crash  *)
(* of its controller only.                                                 *)
LEMMA LocalStep ==
  ASSUME TypeOK, [Next]_vars, NEW q \in Ops
  PROVE  \/ OwnStep(q)
         \/ Kept(q) /\ pc'[q] = pc[q]
         \/ Kept(q) /\ pc'[q] = "crashed" /\ pc[q] \notin {"idle", "done"} /\ UNCHANGED <<etcdVars, mysqlVars>>
<1>1. ASSUME NEW o \in Ops, OwnStep(o) PROVE OwnStep(q) \/ (Kept(q) /\ pc'[q] = pc[q])
  BY <1>1, OthersKeep, Zenon
<1>2. ASSUME NEW c \in Controllers, BecomeLeader(c) \/ LoseLeadership(c) PROVE Kept(q) /\ pc'[q] = pc[q]
  BY <1>2, Zenon DEF BecomeLeader, LoseLeadership, Kept, etcdVars, agentVars, opVars
<1>3. ASSUME NEW c \in Controllers, Crash(c)
      PROVE  Kept(q) /\ (pc'[q] = pc[q] \/ (pc'[q] = "crashed" /\ pc[q] \notin {"idle", "done"} /\ UNCHANGED <<etcdVars, mysqlVars>>))
  BY <1>3, Zenon DEF Crash, Kept, etcdVars, agentVars
<1>4. CASE Servers \/ UNCHANGED vars
  BY <1>4, Zenon DEF Servers, vars, Kept, etcdVars, agentVars, opVars
<1>5. QED
  BY <1>1, <1>2, <1>3, <1>4, Zenon DEF Next, OwnStep

-----------------------------------------------------------------------------
(* SetAutoFailover and Switch keep to their own steps, and only Switch     *)
(* sends requests to agents.                                               *)
LEMMA CallStep == TypeOK /\ CallInv /\ [Next]_vars => CallInv'
<1> SUFFICES ASSUME TypeOK, CallInv, [Next]_vars PROVE CallInv'
  OBVIOUS
<1>t. pc \in [Ops -> PCs] /\ call \in [Ops -> Call] /\ hpc \in [Ops -> Steps \cup Answers \cup {"none"}]
  BY DEF TypeOK, AgentTypeOK
<1>1. ASSUME NEW q \in Settings PROVE SettingCall(q)'
  <2>1. q \in Ops /\ q \notin Switches /\ SettingCall(q)
    BY <1>1, ControllerAssumption DEF CallInv, Switches
  <2>2. CASE Kept(q) /\ pc'[q] \in {pc[q], "crashed"}
    BY <2>1, <2>2, Zenon DEF Kept, SettingCall, SettingSteps
  <2>3. CASE BeginSwitch(q) \/ BeginSetAutoFailover(q)
    BY <1>t, <2>1, <2>3, Zenon
    DEF BeginSwitch, BeginSetAutoFailover, Goto, agentVars, SettingCall, SettingSteps
  <2>4. CASE OperationStep(q)
    <3>1. \/ NewSession(q) \/ Lock(q) \/ ReadState(q) \/ CasGet(q) \/ CasTxn(q) \/ CallFails(q) \/ Unlock(q)
      BY <2>1, <2>4, Zenon
      DEF OperationStep, GetCluster, CheckEpoch, PublishOperation, Recheck, CheckCandidate,
          StartTask, StartTaskFails, DemoteReply, ConfirmReadOnly, ReadGTID, WaitReply,
          PromoteReply, VerifyPromoted, Reconfigure, ReplicaReply, Finish, ReleaseOperation,
          Outcomes, SettingCall, SettingSteps
    <3>2. QED
      BY <1>1, <1>t, <2>1, <3>1, Zenon
      DEF NewSession, Lock, ReadState, CasGet, CasTxn, CallFails, Unlock, Goto, agentVars,
          SettingCall, SettingSteps
  <2>5. ~AgentHandler(q)
    BY <2>1, Zenon
    DEF AgentHandler, AgentStep, VerifyEpoch, VerifyOperation, WaitForGTID, CheckCaughtUp,
        CheckWritable, PollReplica, RunStatement, HandlerFails, Steps, SettingCall
  <2>6. CASE LeaseEnds(q)
    BY <2>1, <2>6, Zenon DEF LeaseEnds, opVars, agentVars, SettingCall
  <2>7. QED
    BY <2>1, <2>2, <2>3, <2>4, <2>5, <2>6, LocalStep, Zenon DEF OwnStep
<1>2. ASSUME NEW q \in Switches PROVE SwitchCall(q)'
  <2>1. q \in Ops /\ q \notin Settings /\ SwitchCall(q)
    BY <1>2 DEF CallInv, Switches
  <2>2. CASE Kept(q) /\ (pc'[q] = pc[q] \/ (pc'[q] = "crashed" /\ pc[q] # "idle"))
    BY <2>1, <2>2, ZenonT(60) DEF Kept, SwitchCall
  <2>3. CASE BeginSwitch(q) \/ BeginSetAutoFailover(q)
    BY <1>t, <2>1, <2>3, ControllerAssumption, SMTT(30)
    DEF BeginSwitch, BeginSetAutoFailover, Goto, SwitchCall, TypeOK
  <2>4. CASE OperationStep(q)
    <3>1. call' = call /\ pc[q] # "idle"
      BY <2>1, <2>4, Zenon
      DEF OperationStep, GetCluster, CheckEpoch, NewSession, Lock, ReadState, PublishOperation,
          Recheck, CheckCandidate, StartTask, StartTaskFails, DemoteReply, ConfirmReadOnly,
          ReadGTID, WaitReply, PromoteReply, VerifyPromoted, CasGet, CasTxn, Reconfigure,
          ReplicaReply, CallFails, Finish, ReleaseOperation, Unlock, Outcomes, TaskSteps
    <3>2. pc'[q] # "readState"
      BY <1>t, <2>1, <2>4, Zenon
      DEF OperationStep, GetCluster, CheckEpoch, NewSession, Lock, ReadState, PublishOperation,
          Recheck, CheckCandidate, StartTask, StartTaskFails, DemoteReply, ConfirmReadOnly,
          ReadGTID, WaitReply, PromoteReply, VerifyPromoted, CasGet, CasTxn, Reconfigure,
          ReplicaReply, CallFails, Finish, ReleaseOperation, Unlock, Outcomes, TaskSteps, Goto
    <3>3. QED
      BY <2>1, <3>1, <3>2 DEF SwitchCall
  <2>5. CASE AgentHandler(q) \/ LeaseEnds(q)
    BY <2>1, <2>5, Zenon DEF AgentHandler, LeaseEnds, opVars, SwitchCall
  <2>6. QED
    BY <2>1, <2>2, <2>3, <2>4, <2>5, LocalStep, Zenon DEF OwnStep
<1>3. QED
  BY <1>1, <1>2 DEF CallInv, Switches

(* Only the transaction of PutClusterIfEpoch changes the cluster key. *)
LEMMA OnlyCasWrites ==
  ASSUME [Next]_vars
  PROVE  UNCHANGED <<cluster, clusterRev>> \/ \E o \in Ops : CasTxn(o)
<1>1. ASSUME NEW o \in Ops, OperationStep(o) PROVE UNCHANGED <<cluster, clusterRev>> \/ CasTxn(o)
  BY <1>1, Zenon
  DEF OperationStep, GetCluster, CheckEpoch, NewSession, CreateLockKey, Lock, ReadState,
      PublishOperation, PutOperation, Recheck, CheckCandidate, StartTask, StartTaskFails,
      PutTask, DemoteReply, ConfirmReadOnly, ReadGTID, WaitReply, PromoteReply, VerifyPromoted,
      CasGet, Reconfigure, ReplicaReply, CallFails, Finish, ReleaseOperation, DeleteOperation,
      Unlock, EndLease, DeleteLockKey, etcdVars
<1>2. ASSUME NEW o \in Ops, AgentStep(o) PROVE UNCHANGED <<cluster, clusterRev>>
  BY <1>2, Zenon
  DEF AgentStep, VerifyEpoch, VerifyOperation, WaitForGTID, CheckCaughtUp, CheckWritable,
      PollReplica, RunStatement, HandlerFails, etcdVars
<1>3. ASSUME NEW o \in Ops, BeginSwitch(o) \/ BeginSetAutoFailover(o) \/ LeaseEnds(o)
      PROVE  UNCHANGED <<cluster, clusterRev>>
  BY <1>3, Zenon
  DEF BeginSwitch, BeginSetAutoFailover, LeaseEnds, LeaseExpires, EndLease, etcdVars
<1>4. ASSUME NEW c \in Controllers, BecomeLeader(c) \/ LoseLeadership(c) \/ Crash(c)
      PROVE  UNCHANGED <<cluster, clusterRev>>
  BY <1>4, Zenon DEF BecomeLeader, LoseLeadership, Crash, etcdVars
<1>5. CASE Servers \/ UNCHANGED vars
  BY <1>5, Zenon DEF Servers, vars, etcdVars
<1>6. QED
  BY <1>1, <1>2, <1>3, <1>4, <1>5, Zenon DEF Next, AgentHandler

(* What an operation has read is never ahead of the record and agrees with *)
(* it on the primary of the epoch.                                         *)
LEMMA SeenStep == TypeOK /\ CallInv /\ SeenInv /\ CasInv /\ [Next]_vars => SeenInv'
<1> SUFFICES ASSUME TypeOK, CallInv, SeenInv, CasInv, [Next]_vars PROVE SeenInv'
  OBVIOUS
<1>t. /\ pc \in [Ops -> PCs] /\ call \in [Ops -> Call] /\ seen \in [Ops -> ClusterState]
      /\ cluster.epoch \in Nat /\ cluster.primary \in Nodes
      /\ \A o \in Ops : seen[o].epoch \in Nat
  BY DEF TypeOK, EtcdTypeOK, ClusterState, SeenInv
<1>1. CASE UNCHANGED cluster
  <2>1. ASSUME NEW q \in Ops, HasRead(q)' PROVE SeenOK(q)'
    <3>1. CASE Kept(q) /\ pc'[q] = pc[q]
      BY <1>1, <2>1, <3>1, Zenon DEF Kept, HasRead, SeenOK, SeenInv
    <3>2. CASE pc'[q] = "crashed"
      BY <2>1, <3>2 DEF HasRead, TaskSteps
    <3>3. CASE BeginSwitch(q) \/ BeginSetAutoFailover(q)
      BY <1>t, <2>1, <3>3, ZenonT(60)
      DEF BeginSwitch, BeginSetAutoFailover, Goto, HasRead, TaskSteps, Switches
    <3>4. CASE GetCluster(q)
      BY <1>t, <1>1, <3>4 DEF GetCluster, Goto, SeenOK
    <3>5. CASE ReadState(q)
      <4>1. q \notin Switches
        BY <3>5, ZenonT(60) DEF ReadState, CallInv, SwitchCall
      <4>2. QED
        BY <1>t, <1>1, <3>5, <4>1 DEF ReadState, SeenOK
    <3>6. CASE OperationStep(q) /\ ~GetCluster(q) /\ ~ReadState(q)
      <4>1. UNCHANGED <<call, seen>>
        BY <3>6, Zenon
        DEF OperationStep, CheckEpoch, NewSession, Lock, PublishOperation, Recheck,
            CheckCandidate, StartTask, StartTaskFails, DemoteReply, ConfirmReadOnly, ReadGTID,
            WaitReply, PromoteReply, VerifyPromoted, CasGet, CasTxn, Reconfigure, ReplicaReply,
            CallFails, Finish, ReleaseOperation, Unlock
      <4>2. HasRead(q)
        BY <1>t, <2>1, <3>6, ZenonT(60)
        DEF OperationStep, CheckEpoch, NewSession, Lock, PublishOperation, Recheck,
            CheckCandidate, StartTask, StartTaskFails, DemoteReply, ConfirmReadOnly, ReadGTID,
            WaitReply, PromoteReply, VerifyPromoted, CasGet, CasTxn, Reconfigure, ReplicaReply,
            CallFails, Finish, ReleaseOperation, Unlock, Goto, Outcomes, HasRead, TaskSteps,
            CallInv, SettingCall, SettingSteps, Switches
      <4>3. QED
        BY <1>1, <4>1, <4>2 DEF SeenOK, SeenInv
    <3>7. CASE AgentHandler(q) \/ LeaseEnds(q)
      BY <1>1, <2>1, <3>7, Zenon DEF AgentHandler, LeaseEnds, opVars, HasRead, SeenOK, SeenInv
    <3>8. QED
      BY <3>1, <3>2, <3>3, <3>4, <3>5, <3>6, <3>7, LocalStep, Zenon DEF OwnStep
  <2>2. QED
    BY <1>1, <2>1 DEF SeenInv
<1>2. ASSUME NEW o \in Ops, CasTxn(o) PROVE SeenInv'
  <2>1. UNCHANGED <<call, seen>> /\ cluster' = NewState(o)
    BY <1>2, Zenon DEF CasTxn, PutClusterIfRev
  <2>2. HasRead(o) /\ SeenOK(o)
    BY <1>2, Zenon DEF CasTxn, HasRead, TaskSteps, Switches, SeenInv
  <2>3. cluster.epoch = seen[o].epoch
    BY <1>2, Zenon DEF CasTxn, PutClusterIfRev, CasInv
  <2>4. ASSUME NEW q \in Ops, HasRead(q)' PROVE HasRead(q)
    BY <1>t, <1>2, <2>4, Zenon DEF CasTxn, Goto, HasRead, TaskSteps, Switches
  <2>5. CASE o \in Settings
    <3>1. cluster'.primary = cluster.primary /\ cluster'.epoch = cluster.epoch
      BY <2>1, <2>2, <2>3, <2>5, Zenon DEF NewState, SeenOK
    <3>2. QED
      BY <1>t, <2>1, <2>4, <3>1, Zenon DEF SeenInv, SeenOK
  <2>6. CASE o \in Switches
    <3>1. cluster'.primary = call[o].target /\ cluster'.epoch = cluster.epoch + 1
      BY <2>1, <2>3, <2>6 DEF NewState, Switches
    <3>2. call[o].target \in Nodes
      BY <1>2, <2>6, ZenonT(60) DEF CallInv, SwitchCall, CasTxn
    <3>3. ASSUME NEW q \in Ops, HasRead(q)' PROVE SeenOK(q)'
      <4>1. SeenOK(q)
        BY <2>4, <3>3 DEF SeenInv
      <4>2. QED
        BY <1>t, <2>1, <3>1, <4>1, SMTT(30) DEF SeenOK
    <3>4. QED
      BY <3>1, <3>2, <3>3, ZenonT(60) DEF SeenInv
  <2>7. QED
    BY <2>5, <2>6 DEF Switches
<1>3. QED
  BY <1>1, <1>2, OnlyCasWrites

(* As long as the key has the revision that PutClusterIfEpoch read, it     *)
(* holds the epoch it compared.                                            *)
LEMMA CasStep == TypeOK /\ CasInv /\ [Next]_vars => CasInv'
<1> SUFFICES ASSUME TypeOK, CasInv, [Next]_vars, NEW q \in Ops
             PROVE  /\ casRev'[q] <= clusterRev'
                    /\ pc'[q] = "casTxn" /\ casRev'[q] = clusterRev' => cluster'.epoch = seen'[q].epoch
  BY DEF CasInv
<1>t. pc \in [Ops -> PCs] /\ casRev \in [Ops -> Nat] /\ clusterRev \in Nat /\ seen \in [Ops -> ClusterState]
  BY DEF TypeOK, EtcdTypeOK
<1>i. /\ casRev[q] <= clusterRev
      /\ pc[q] = "casTxn" /\ casRev[q] = clusterRev => cluster.epoch = seen[q].epoch
  BY DEF CasInv
<1>1. ASSUME NEW o \in Ops, CasTxn(o)
      PROVE  casRev'[q] = casRev[q] /\ clusterRev' = clusterRev + 1
  BY <1>1 DEF CasTxn, PutClusterIfRev
<1>2. CASE UNCHANGED <<cluster, clusterRev>>
  <2>1. CASE Kept(q) /\ pc'[q] \in {pc[q], "crashed"}
    BY <1>2, <1>i, <2>1, ZenonT(60) DEF Kept
  <2>2. CASE CasGet(q)
    BY <1>2, <1>t, <2>2, SMTT(30) DEF CasGet, Goto
  <2>3. CASE Finish(q)
    <3>1. pc'[q] # "casTxn"
      BY <1>t, <2>3, Zenon DEF Finish, Goto
    <3>2. casRev'[q] = 0
      BY <1>t, <2>3, Zenon DEF Finish
    <3>3. QED
      BY <1>2, <1>t, <3>1, <3>2
  <2>4. CASE OwnStep(q) /\ ~CasGet(q) /\ ~Finish(q)
    <3>1. casRev' = casRev
      BY <2>4, Zenon
      DEF OwnStep, BeginSwitch, BeginSetAutoFailover, OperationStep, GetCluster, CheckEpoch,
          NewSession, Lock, ReadState, PublishOperation, Recheck, CheckCandidate, StartTask,
          StartTaskFails, DemoteReply, ConfirmReadOnly, ReadGTID, WaitReply, PromoteReply,
          VerifyPromoted, CasTxn, Reconfigure, ReplicaReply, CallFails,
          ReleaseOperation, Unlock, AgentHandler, LeaseEnds, opVars
    <3>2. CASE AgentHandler(q) \/ LeaseEnds(q)
      BY <1>2, <1>i, <3>2, Zenon DEF AgentHandler, LeaseEnds, opVars
    <3>3. CASE ~AgentHandler(q) /\ ~LeaseEnds(q)
      <4>1. pc'[q] # "casTxn"
        BY <1>t, <2>4, <3>3, ZenonT(60)
        DEF OwnStep, BeginSwitch, BeginSetAutoFailover, OperationStep, GetCluster, CheckEpoch,
            NewSession, Lock, ReadState, PublishOperation, Recheck, CheckCandidate, StartTask,
            StartTaskFails, DemoteReply, ConfirmReadOnly, ReadGTID, WaitReply, PromoteReply,
            VerifyPromoted, CasTxn, Reconfigure, ReplicaReply, CallFails, ReleaseOperation,
            Unlock, Goto
      <4>2. QED
        BY <1>2, <1>i, <3>1, <4>1, Zenon
    <3>4. QED
      BY <3>2, <3>3, Zenon
  <2>5. QED
    BY <2>1, <2>2, <2>3, <2>4, LocalStep, Zenon
<1>3. ASSUME NEW o \in Ops, CasTxn(o)
      PROVE  /\ casRev'[q] <= clusterRev'
             /\ pc'[q] = "casTxn" /\ casRev'[q] = clusterRev' => cluster'.epoch = seen'[q].epoch
  BY <1>1, <1>3, <1>i, <1>t, SMTT(30)
<1>4. QED
  BY <1>2, <1>3, OnlyCasWrites

(* Lock keys come from mutex.Lock, with a new revision, and go one at a    *)
(* time.                                                                   *)
LEMMA TicketStep ==
  ASSUME [Next]_vars
  PROVE  \/ UNCHANGED <<ticket, nextTicket>>
         \/ \E o \in Ops : NewSession(o)
         \/ \E o \in Ops : ticket' = [ticket EXCEPT ![o] = 0] /\ nextTicket' = nextTicket
<1>1. ASSUME NEW o \in Ops, OperationStep(o) \/ LeaseEnds(o)
      PROVE  \/ UNCHANGED <<ticket, nextTicket>>
             \/ NewSession(o)
             \/ ticket' = [ticket EXCEPT ![o] = 0] /\ nextTicket' = nextTicket
  BY <1>1, Zenon
  DEF OperationStep, GetCluster, CheckEpoch, Lock, ReadState, PublishOperation, PutOperation,
      Recheck, CheckCandidate, StartTask, StartTaskFails, PutTask, DemoteReply, ConfirmReadOnly,
      ReadGTID, WaitReply, PromoteReply, VerifyPromoted, CasGet, CasTxn, PutClusterIfRev,
      Reconfigure, ReplicaReply, CallFails, Finish, ReleaseOperation, DeleteOperation, Unlock,
      EndLease, DeleteLockKey, LeaseEnds, LeaseExpires, etcdVars
<1>2. ASSUME NEW o \in Ops, AgentStep(o) PROVE UNCHANGED <<ticket, nextTicket>>
  BY <1>2, Zenon
  DEF AgentStep, VerifyEpoch, VerifyOperation, WaitForGTID, CheckCaughtUp, CheckWritable,
      PollReplica, RunStatement, HandlerFails, etcdVars
<1>3. ASSUME NEW o \in Ops, BeginSwitch(o) \/ BeginSetAutoFailover(o)
      PROVE  UNCHANGED <<ticket, nextTicket>>
  BY <1>3, Zenon DEF BeginSwitch, BeginSetAutoFailover, etcdVars
<1>4. ASSUME NEW c \in Controllers, BecomeLeader(c) \/ LoseLeadership(c) \/ Crash(c)
      PROVE  UNCHANGED <<ticket, nextTicket>>
  BY <1>4, Zenon DEF BecomeLeader, LoseLeadership, Crash, etcdVars
<1>5. CASE Servers \/ UNCHANGED vars
  BY <1>5, Zenon DEF Servers, vars, etcdVars
<1>6. QED
  BY <1>1, <1>2, <1>3, <1>4, <1>5, Zenon DEF Next, AgentHandler

(* An operation gets past the lock by way of the lock only. *)
LEMMA PastLockStep ==
  ASSUME TypeOK, [Next]_vars, NEW q \in Ops, pc'[q] \in PastLock
  PROVE  pc[q] \in PastLock \/ Lock(q)
<1>t. pc \in [Ops -> PCs]
  BY DEF TypeOK
<1>1. CASE pc'[q] = pc[q]
  BY <1>1
<1>2. CASE pc'[q] = "crashed"
  BY <1>2 DEF PastLock, LockedSteps, TaskSteps, Outcomes
<1>3. CASE BeginSwitch(q) \/ BeginSetAutoFailover(q) \/ AgentHandler(q) \/ LeaseEnds(q)
  BY <1>t, <1>3, Zenon
  DEF BeginSwitch, BeginSetAutoFailover, AgentHandler, LeaseEnds, opVars, Goto, PastLock,
      LockedSteps, TaskSteps, Outcomes
<1>4. CASE OperationStep(q) /\ pc[q] \in {"getCluster", "checkEpoch", "newSession", "lockWait", "unlock"}
  BY <1>t, <1>4, ZenonT(60)
  DEF OperationStep, GetCluster, CheckEpoch, NewSession, ReadState, PublishOperation, Recheck,
      CheckCandidate, StartTask, StartTaskFails, DemoteReply, ConfirmReadOnly, ReadGTID,
      WaitReply, PromoteReply, VerifyPromoted, CasGet, CasTxn, Reconfigure, ReplicaReply,
      CallFails, Finish, ReleaseOperation, Unlock, Goto, PastLock, LockedSteps, TaskSteps,
      Outcomes
<1>5. CASE OperationStep(q) /\ pc[q] \notin {"getCluster", "checkEpoch", "newSession", "lockWait", "unlock"}
  BY <1>5, Zenon
  DEF OperationStep, GetCluster, CheckEpoch, NewSession, Lock, ReadState, PublishOperation,
      Recheck, CheckCandidate, StartTask, StartTaskFails, DemoteReply, ConfirmReadOnly,
      ReadGTID, WaitReply, PromoteReply, VerifyPromoted, CasGet, CasTxn, Reconfigure,
      ReplicaReply, CallFails, Finish, ReleaseOperation, Unlock, PastLock, LockedSteps,
      TaskSteps, Outcomes
<1>6. QED
  BY <1>1, <1>2, <1>3, <1>4, <1>5, LocalStep, ZenonT(60) DEF OwnStep

(* An operation that got the lock stays its owner while its key exists:    *)
(* later keys have later revisions.                                        *)
LEMMA LockStep == TypeOK /\ LockInv /\ [Next]_vars => LockInv'
<1> SUFFICES ASSUME TypeOK, LockInv, [Next]_vars PROVE LockInv'
  OBVIOUS
<1>t. pc \in [Ops -> PCs] /\ ticket \in [Ops -> Nat] /\ nextTicket \in Nat \ {0}
  BY DEF TypeOK, EtcdTypeOK
<1>1. \A q \in Ops : pc'[q] \in PastLock => pc[q] \in PastLock \/ Lock(q)
  BY PastLockStep
<1>2. ASSUME NEW q \in Ops, Lock(q) PROVE OwnsLock(q) /\ UNCHANGED <<ticket, nextTicket>>
  BY <1>2 DEF Lock, etcdVars
<1>3. CASE UNCHANGED <<ticket, nextTicket>>
  BY <1>1, <1>2, <1>3, ZenonT(60) DEF LockInv, OwnsLock
<1>4. ASSUME NEW o \in Ops, NewSession(o) PROVE LockInv'
  <2>1. /\ ticket' = [ticket EXCEPT ![o] = nextTicket] /\ nextTicket' = nextTicket + 1
        /\ pc'[o] \notin PastLock
    BY <1>t, <1>4
    DEF NewSession, CreateLockKey, Goto, PastLock, LockedSteps, TaskSteps, Outcomes
  <2>2. ASSUME NEW q \in Ops, Lock(q) PROVE FALSE
    BY <1>t, <1>2, <2>1, <2>2
  <2>3. QED
    BY <1>t, <1>1, <2>1, <2>2 DEF LockInv, OwnsLock
<1>5. ASSUME NEW o \in Ops, ticket' = [ticket EXCEPT ![o] = 0], nextTicket' = nextTicket PROVE LockInv'
  BY <1>t, <1>1, <1>2, <1>5 DEF LockInv, OwnsLock
<1>6. QED
  BY <1>3, <1>4, <1>5, TicketStep
=============================================================================
