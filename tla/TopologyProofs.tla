--------------------------- MODULE TopologyProofs ---------------------------
(***************************************************************************)
(* What a switch leaves behind: the proofs of CompletedTopology, of        *)
(* TasksExplainRecord and of EpochTakenOnce.  The loop over the other nodes*)
(* keeps an account of the nodes it is done with; a switch that alone      *)
(* sends requests, to servers that no restart made writable, finds them as *)
(* its handlers left them.  The task of a switch goes with its steps, and  *)
(* what it has recorded is not recorded by another one.                    *)
(***************************************************************************)
EXTENDS ControllerProofs

(* Time limits of the provers, in seconds, where a step names none. *)
USE SMTT(30), ZenonT(30)

(* No other operation has sent a request, and no restart has made a        *)
(* read-only node writable.                                                *)
Alone(o) == (\A p \in Ops \ {o} : req[p].kind = "none") /\ tainted = {}

ReplicaOf(n, t) == mode[n] = "sro" /\ source[n] = t /\ running[n]

(* Where the loop of a switch is: it waits for the answer of a node that   *)
(* is still to do, and ends when there is none.                            *)
LoopOf(o) ==
  /\ pc[o] = "reconfiguring" => req[o].node \in todo[o] /\ req[o].source = call[o].target
  /\ pc[o] = "completed" => todo[o] = {} /\ hpc[o] = "ok"

LoopInv == \A o \in Switches : LoopOf(o)

(* What the handler of a replica request has reached, statement by         *)
(* statement, ...                                                          *)
Rejoining(o) ==
  /\ hpc[o] \in {"start", "superOn", "roOn", "poll", "ok"} => source[req[o].node] = call[o].target
  /\ hpc[o] \in {"superOn", "roOn", "poll", "ok"} => running[req[o].node]
  /\ hpc[o] \in {"roOn", "poll", "ok"} => mode[req[o].node] = "sro"

(* ... and that the nodes before it have kept what theirs reached. *)
Rejoined(o) ==
  pc[o] \in LoopSteps /\ Alone(o) =>
    /\ \A n \in Nodes \ ({call[o].target} \cup todo[o]) : ReplicaOf(n, call[o].target)
    /\ pc[o] = "reconfiguring" => Rejoining(o)

TopologyInv == BasicInv /\ LoopInv /\ \A o \in Switches : Rejoined(o)

-----------------------------------------------------------------------------
(* The account of the loop changes by three steps of its own switch only. *)
LEMMA TodoKept ==
  ASSUME TypeOK, [Next]_vars, NEW q \in Ops
  PROVE  todo'[q] = todo[q] \/ CasTxn(q) \/ ReplicaReply(q) \/ Finish(q)
<1>1. todo \in [Ops -> SUBSET Nodes]
  BY DEF TypeOK
<1>2. ASSUME NEW o \in Ops, OperationStep(o)
      PROVE  todo' = todo \/ CasTxn(o) \/ ReplicaReply(o) \/ Finish(o)
  BY <1>2, Zenon
  DEF OperationStep, GetCluster, CheckEpoch, NewSession, Lock, ReadState, PublishOperation,
      Recheck, CheckCandidate, StartTask, StartTaskFails, DemoteReply, ConfirmReadOnly,
      ReadGTID, WaitReply, PromoteReply, VerifyPromoted, CasGet, Reconfigure, CallFails,
      ReleaseOperation, Unlock
<1>3. ASSUME NEW o \in Ops, CasTxn(o) \/ ReplicaReply(o) \/ Finish(o)
      PROVE  o = q \/ todo'[q] = todo[q]
  BY <1>1, <1>3, Zenon DEF CasTxn, ReplicaReply, Finish
<1>4. ASSUME NEW o \in Ops, BeginSwitch(o) \/ BeginSetAutoFailover(o) \/ AgentHandler(o) \/ LeaseEnds(o)
      PROVE  todo' = todo
  BY <1>4 DEF BeginSwitch, BeginSetAutoFailover, AgentHandler, LeaseEnds, opVars
<1>5. ASSUME NEW c \in Controllers, BecomeLeader(c) \/ LoseLeadership(c) \/ Crash(c)
      PROVE  todo' = todo
  BY <1>5 DEF BecomeLeader, LoseLeadership, Crash, opVars
<1>6. CASE Servers \/ UNCHANGED vars
  BY <1>6 DEF Servers, vars, opVars
<1>7. QED
  BY <1>2, <1>3, <1>4, <1>5, <1>6, Zenon DEF Next

(* How a switch gets into the loop and what ends it. *)
LEMMA LoopSwitch ==
  ASSUME TypeOK, NEW q \in Switches, OwnStep(q), pc'[q] \in LoopSteps
  PROVE  \/ CasTxn(q) /\ pc'[q] = "reconfigure"
         \/ Reconfigure(q) /\ pc'[q] = "reconfiguring"
         \/ ReplicaReply(q) /\ pc'[q] \in {"reconfigure", "completed"}
         \/ AgentHandler(q)
         \/ LeaseEnds(q)
<1>1. q \in Ops /\ pc \in [Ops -> PCs]
  BY DEF TypeOK, Switches
<1> USE <1>1 DEF Goto, LoopSteps
<1>2. CASE BeginSwitch(q) \/ BeginSetAutoFailover(q)
  BY <1>2 DEF BeginSwitch, BeginSetAutoFailover, Switches
<1>3. CASE \/ GetCluster(q) \/ CheckEpoch(q) \/ NewSession(q) \/ Lock(q) \/ ReadState(q)
           \/ PublishOperation(q) \/ Recheck(q) \/ CheckCandidate(q)
  BY <1>3
  DEF GetCluster, CheckEpoch, NewSession, Lock, ReadState, PublishOperation, Recheck, CheckCandidate
<1>4. CASE StartTask(q) \/ StartTaskFails(q) \/ DemoteReply(q) \/ ConfirmReadOnly(q)
           \/ ReadGTID(q) \/ WaitReply(q) \/ PromoteReply(q) \/ VerifyPromoted(q) \/ CasGet(q)
  BY <1>4, ZenonT(60)
  DEF StartTask, StartTaskFails, DemoteReply, ConfirmReadOnly, ReadGTID, WaitReply,
      PromoteReply, VerifyPromoted, CasGet
<1>5. CASE CasTxn(q)
  BY <1>5 DEF CasTxn
<1>6. CASE Reconfigure(q) \/ ReplicaReply(q)
  BY <1>6, Zenon DEF Reconfigure, ReplicaReply
<1>7. CASE CallFails(q) \/ Finish(q) \/ ReleaseOperation(q) \/ Unlock(q)
  BY <1>7 DEF CallFails, Finish, ReleaseOperation, Unlock
<1>8. QED
  BY <1>2, <1>3, <1>4, <1>5, <1>6, <1>7, ZenonT(60) DEF OwnStep, OperationStep

(* The account of the loop is right after every step. *)
LEMMA LoopStep ==
  ASSUME BasicInv, LoopInv, [Next]_vars
  PROVE  LoopInv'
<1> SUFFICES ASSUME NEW q \in Switches, pc'[q] \in LoopSteps PROVE LoopOf(q)'
  BY DEF LoopInv, LoopOf, LoopSteps
<1>1. /\ q \in Ops /\ LoopOf(q) /\ TypeOK /\ AgentTypeOK /\ pc \in [Ops -> PCs]
      /\ todo \in [Ops -> SUBSET Nodes] /\ req \in [Ops -> Request]
  BY DEF LoopInv, Switches, BasicInv, TypeOK, AgentTypeOK
<1>2. CASE CasTxn(q) /\ pc'[q] = "reconfigure"
  BY <1>2 DEF LoopOf
<1>3. CASE Reconfigure(q) /\ pc'[q] = "reconfiguring"
  <2>1. PICK n \in todo[q] : req' = [req EXCEPT ![q] = NewRequest("replica", n, seen[q].epoch, {}, call[q].target)]
    BY <1>3, Zenon DEF Reconfigure, Send
  <2>2. req'[q].node = n /\ req'[q].source = call[q].target
    BY <1>1, <2>1 DEF NewRequest
  <2>3. QED
    BY <1>3, <2>2 DEF Reconfigure, LoopOf
<1>4. CASE ReplicaReply(q) /\ pc'[q] \in {"reconfigure", "completed"}
  BY <1>1, <1>4 DEF ReplicaReply, Goto, LoopOf, agentVars
<1>5. CASE AgentHandler(q)
  <2>1. hpc[q] # "ok"
    BY <1>1, <1>5, AgentFrame DEF AgentHandler, Steps
  <2>2. UNCHANGED <<req, opVars>>
    BY <1>1, <1>5, AgentFrame DEF AgentHandler
  <2>3. QED
    BY <1>1, <2>1, <2>2 DEF LoopOf, opVars
<1>6. CASE LeaseEnds(q)
  BY <1>1, <1>6 DEF LeaseEnds, LoopOf, agentVars, opVars
<1>7. CASE ~OwnStep(q)
  <2>1. Kept(q) /\ pc'[q] = pc[q]
    BY <1>1, <1>7, LocalStep DEF LoopSteps
  <2>2. todo'[q] = todo[q]
    BY <1>1, <1>7, TodoKept, Zenon DEF OwnStep, OperationStep
  <2>3. QED
    BY <1>1, <2>1, <2>2 DEF Kept, LoopOf
<1>8. QED
  BY <1>1, <1>2, <1>3, <1>4, <1>5, <1>6, <1>7, LoopSwitch

(* A switch that is alone after a step was alone before it. *)
LEMMA AloneBefore ==
  ASSUME BasicInv, [Next]_vars, NEW q \in Ops, Alone(q)'
  PROVE  Alone(q)
<1>1. tainted = {}
  BY TaintKept DEF BasicInv, Alone
<1>2. TypeOK /\ req \in [Ops -> Request]
  BY DEF BasicInv, TypeOK, AgentTypeOK
<1>3. ASSUME NEW p \in Ops, OwnStep(p), req'[p].kind = "none" PROVE req[p].kind = "none"
  <2>1. CASE req' = req
    BY <1>3, <2>1
  <2>2. ASSUME NEW r, req' = [req EXCEPT ![p] = r], r.kind # "none" PROVE FALSE
    BY <1>2, <1>3, <2>2
  <2>3. CASE StartTask(p) \/ ReadGTID(p) \/ WaitReply(p) \/ Reconfigure(p)
    BY <2>1, <2>2, <2>3, ZenonT(60) DEF StartTask, ReadGTID, WaitReply, Reconfigure, Send, NewRequest, agentVars
  <2>4. CASE AgentHandler(p) \/ BeginSwitch(p) \/ BeginSetAutoFailover(p) \/ LeaseEnds(p)
    BY <2>1, <2>4, AgentFrame, Zenon
    DEF AgentHandler, BeginSwitch, BeginSetAutoFailover, LeaseEnds, agentVars, BasicInv, TypeOK
  <2>5. CASE \/ GetCluster(p) \/ CheckEpoch(p) \/ NewSession(p) \/ Lock(p) \/ ReadState(p)
             \/ PublishOperation(p) \/ Recheck(p) \/ CheckCandidate(p) \/ StartTaskFails(p)
             \/ DemoteReply(p) \/ ConfirmReadOnly(p) \/ PromoteReply(p) \/ VerifyPromoted(p)
             \/ CasGet(p) \/ CasTxn(p) \/ ReplicaReply(p) \/ CallFails(p) \/ Finish(p)
             \/ ReleaseOperation(p) \/ Unlock(p)
    BY <2>1, <2>5, Zenon
    DEF GetCluster, CheckEpoch, NewSession, Lock, ReadState, PublishOperation, Recheck,
        CheckCandidate, StartTaskFails, DemoteReply, ConfirmReadOnly, PromoteReply,
        VerifyPromoted, CasGet, CasTxn, ReplicaReply, CallFails, Finish, ReleaseOperation,
        Unlock, agentVars
  <2>6. QED
    BY <1>3, <2>3, <2>4, <2>5, Zenon DEF OwnStep, OperationStep
<1>4. ASSUME NEW p \in Ops \ {q} PROVE req[p].kind = "none"
  <2>1. req'[p].kind = "none"
    BY DEF Alone
  <2>2. QED
    BY <1>2, <1>3, <2>1, LocalStep, Zenon DEF Kept
<1>5. QED
  BY <1>1, <1>4 DEF Alone

(* Only the switch that is alone has a handler that runs statements. *)
LEMMA OwnStatements ==
  ASSUME BasicInv, NEW q \in Ops, Alone(q), NEW p \in Ops, RunStatement(p)
  PROVE  p = q
<1>1. hpc[p] # "none"
  BY Zenon DEF RunStatement
<1>2. req[p].kind # "none"
  BY <1>1, Zenon DEF BasicInv, CallInv, SettingCall, RequestInv, HandlerRequest, Switches
<1>3. QED
  BY <1>2 DEF Alone

-----------------------------------------------------------------------------
(* A restart leaves a running read-only replica what it is, or taints it:  *)
(* the source is persisted, and the threads start by themselves.           *)
LEMMA RestartKeeps ==
  ASSUME BasicInv, tainted' = {}, NEW m \in Nodes, RestartMySQL(m), NEW n \in Nodes
  PROVE  /\ source'[n] = source[n]
         /\ running[n] /\ source[n] # None => running'[n]
         /\ mode[n] = "sro" => mode'[n] = "sro"
<1>1. MySQLTypeOK
  BY DEF BasicInv, TypeOK
<1>2. QED
  BY <1>1 DEF RestartMySQL, MySQLTypeOK, Writable

(* The steps of the servers themselves keep what the loop has reached. *)
LEMMA RejoinedServers ==
  ASSUME BasicInv, NEW q \in Switches, Rejoined(q), Servers, Alone(q)', LoopInv
  PROVE  Rejoined(q)'
<1>1. UNCHANGED <<req, hpc, pc, call, todo>>
  BY DEF Servers, agentVars, opVars
<1>2. tainted' = {} /\ tainted = {}
  BY DEF Alone, Servers, MySQLStep, Write, Replicate, RestartMySQL
<1>3. Alone(q)
  BY <1>1, <1>2 DEF Alone
<1>4. SUFFICES ASSUME pc[q] \in LoopSteps PROVE Rejoined(q)'
  BY <1>1, Zenon DEF Rejoined
<1>5. call[q].target \in Nodes /\ call[q].target # None
  BY <1>4, NoneAssumption DEF BasicInv, CallInv, SwitchCall, LoopSteps
<1>6. pc[q] = "reconfiguring" => req[q].node \in Nodes
  BY DEF LoopInv, LoopOf, BasicInv, TypeOK, Switches
<1>7. ASSUME NEW n \in Nodes
      PROVE  /\ source'[n] = source[n]
             /\ running[n] /\ source[n] # None => running'[n]
             /\ mode[n] = "sro" => mode'[n] = "sro"
  BY <1>2, RestartKeeps, ZenonT(60) DEF Servers, MySQLStep, Write, Replicate
<1>8. \A n \in Nodes : ReplicaOf(n, call[q].target) => ReplicaOf(n, call[q].target)'
  BY <1>1, <1>5, <1>7 DEF ReplicaOf
<1>9. pc[q] = "reconfiguring" /\ Rejoining(q) => Rejoining(q)'
  BY <1>1, <1>5, <1>6, <1>7 DEF Rejoining
<1>10. QED
  BY <1>1, <1>3, <1>4, <1>8, <1>9, Zenon DEF Rejoined

(* A statement of the switch's own handler touches the node it is about,   *)
(* and brings that node a step closer.                                     *)
LEMMA RejoinedStatement ==
  ASSUME BasicInv, LoopInv, NEW q \in Switches, Rejoined(q), Alone(q),
         RunStatement(q), UNCHANGED opVars
  PROVE  Rejoined(q)'
<1>1. /\ q \in Ops /\ MySQLTypeOK /\ AgentTypeOK /\ LoopOf(q)
      /\ StepRequest(q) /\ HandlerRequest(q)
  BY DEF Switches, BasicInv, TypeOK, LoopInv, RequestInv
<1>2. UNCHANGED <<req, pc, call, todo>>
  BY Zenon DEF RunStatement, Step, opVars
<1>3. SUFFICES ASSUME pc[q] \in LoopSteps PROVE Rejoined(q)'
  BY <1>2, ZenonT(60) DEF Rejoined
<1>4. pc[q] = "reconfiguring"
  <2>1. hpc[q] # "ok"
    BY Zenon DEF RunStatement
  <2>2. QED
    BY <1>1, <1>3, <2>1 DEF LoopSteps, LoopOf, StepRequest
<1>5. /\ req[q].kind = "replica" /\ req[q].node \in todo[q] /\ req[q].node \in Nodes
      /\ req[q].source = call[q].target
  BY <1>1, <1>4, Zenon DEF LoopOf, StepRequest, HandlerRequest
<1>6. ASSUME NEW n \in Nodes \ {req[q].node}
      PROVE  mode'[n] = mode[n] /\ source'[n] = source[n] /\ running'[n] = running[n]
  BY <1>1, <1>5, Zenon
  DEF RunStatement, MySQLTypeOK, StopReplica, ResetReplicaAll, ChangeReplicationSource,
      StartReplica, SetSuperReadOnly, SetGlobalReadOnly
<1>7. Rejoining(q)'
  <2>1. Rejoining(q)
    BY <1>4, <1>3, ZenonT(60) DEF Rejoined
  <2>2. hpc[q] \notin {"superOff", "roOff"}
    BY <1>1, <1>5 DEF HandlerRequest
  <2>3. CASE hpc[q] \in {"stop", "reset"}
    <3>1. hpc'[q] \in {"reset", "change"}
      BY <1>1, <1>5, <2>3, Zenon DEF RunStatement, Step, AgentTypeOK
    <3>2. QED
      BY <3>1 DEF Rejoining
  <2>4. CASE hpc[q] = "change"
    BY <1>1, <1>2, <1>5, <2>4, Zenon
    DEF RunStatement, Step, ChangeReplicationSource, AgentTypeOK, MySQLTypeOK, Rejoining
  <2>5. CASE hpc[q] = "start"
    BY <1>1, <1>2, <1>5, <2>1, <2>5, ZenonT(60)
    DEF RunStatement, Step, StartReplica, AgentTypeOK, MySQLTypeOK, Rejoining
  <2>6. CASE hpc[q] = "superOn"
    BY <1>1, <1>2, <1>5, <2>1, <2>6, ZenonT(60)
    DEF RunStatement, Step, SetSuperReadOnly, AgentTypeOK, MySQLTypeOK, Rejoining
  <2>7. CASE hpc[q] = "roOn"
    BY <1>1, <1>2, <1>5, <2>1, <2>7, ZenonT(60)
    DEF RunStatement, Step, SetGlobalReadOnly, AgentTypeOK, MySQLTypeOK, Rejoining
  <2>8. QED
    BY <2>2, <2>3, <2>4, <2>5, <2>6, <2>7, Zenon DEF RunStatement
<1>8. QED
  BY <1>2, <1>3, <1>5, <1>6, <1>7, ZenonT(60) DEF Rejoined, ReplicaOf

(* A step of the switch that leaves the servers alone enters the loop with *)
(* every node to do, or goes on with what the handler has reached.         *)
LEMMA RejoinedOwn ==
  ASSUME BasicInv, LoopInv, NEW q \in Switches, Rejoined(q), Alone(q), OwnStep(q),
         UNCHANGED mysqlVars
  PROVE  Rejoined(q)'
<1> SUFFICES ASSUME pc'[q] \in LoopSteps PROVE Rejoined(q)'
  BY ZenonT(60) DEF Rejoined
<1>1. /\ q \in Ops /\ TypeOK /\ AgentTypeOK /\ LoopOf(q) /\ StepRequest(q) /\ HandlerRequest(q)
      /\ todo \in [Ops -> SUBSET Nodes] /\ hpc \in [Ops -> Steps \cup Answers \cup {"none"}]
      /\ pc \in [Ops -> PCs]
  BY DEF Switches, BasicInv, TypeOK, AgentTypeOK, LoopInv, RequestInv
<1>2. mode' = mode /\ source' = source /\ running' = running
  BY DEF mysqlVars
<1>3. CASE CasTxn(q) /\ pc'[q] = "reconfigure"
  <2>1. call' = call /\ todo'[q] = Nodes \ {call[q].target}
    BY <1>1, <1>3, Zenon DEF CasTxn
  <2>2. QED
    BY <1>3, <2>1, Zenon DEF Rejoined
<1>4. CASE Reconfigure(q) /\ pc'[q] = "reconfiguring"
  <2>1. UNCHANGED <<call, todo>> /\ pc[q] = "reconfigure" /\ hpc'[q] = "epoch"
    BY <1>1, <1>4, Zenon DEF Reconfigure, Send
  <2>2. Rejoining(q)'
    BY <2>1, Zenon DEF Rejoining
  <2>3. QED
    BY <1>2, <2>1, <2>2, Zenon DEF Rejoined, ReplicaOf, LoopSteps
<1>5. CASE ReplicaReply(q) /\ pc'[q] \in {"reconfigure", "completed"}
  <2>1. /\ UNCHANGED <<call, req, hpc>> /\ pc[q] = "reconfiguring" /\ hpc[q] = "ok"
        /\ todo'[q] = todo[q] \ {req[q].node}
    BY <1>1, <1>5, Zenon DEF ReplicaReply, agentVars
  <2>2. Rejoining(q) /\ \A n \in Nodes \ ({call[q].target} \cup todo[q]) : ReplicaOf(n, call[q].target)
    BY <2>1, Zenon DEF Rejoined, LoopSteps
  <2>3. ReplicaOf(req[q].node, call[q].target)
    BY <2>1, <2>2, Zenon DEF Rejoining, ReplicaOf
  <2>4. QED
    BY <1>2, <1>5, <2>1, <2>2, <2>3, Zenon DEF Rejoined, ReplicaOf
<1>6. CASE AgentHandler(q)
  <2>1. UNCHANGED <<req, pc, call, todo>> /\ hpc[q] \in Steps
    BY <1>1, <1>6, AgentFrame DEF AgentHandler, opVars
  <2>2. pc[q] = "reconfiguring" /\ req[q].kind = "replica"
    BY <1>1, <2>1, Zenon DEF LoopSteps, LoopOf, StepRequest, Steps
  <2>3. Rejoining(q)
    BY <2>2, Zenon DEF Rejoined, LoopSteps
  <2>4. CASE RunStatement(q)
    BY <1>6, <2>4, RejoinedStatement DEF AgentHandler
  <2>5. CASE VerifyEpoch(q) \/ VerifyOperation(q) \/ CheckCaughtUp(q) \/ HandlerFails(q)
    <3>1. hpc'[q] \in {"operation", "forbidden", "stop", "conflict"}
      BY <1>1, <2>2, <2>5
      DEF VerifyEpoch, VerifyOperation, CheckCaughtUp, HandlerFails, Step, FirstStep
    <3>2. Rejoining(q)'
      BY <3>1 DEF Rejoining
    <3>3. QED
      BY <1>2, <2>1, <2>2, <3>2 DEF Rejoined, ReplicaOf
  <2>6. CASE PollReplica(q)
    <3>1. hpc[q] = "poll"
      BY <2>6, Zenon DEF PollReplica
    <3>2. Rejoining(q)'
      BY <1>2, <2>1, <2>3, <3>1, Zenon DEF Rejoining
    <3>3. QED
      BY <1>2, <2>1, <2>2, <3>2 DEF Rejoined, ReplicaOf
  <2>7. CASE WaitForGTID(q) \/ CheckWritable(q)
    BY <1>1, <2>2, <2>7, Zenon DEF WaitForGTID, CheckWritable, HandlerRequest
  <2>8. QED
    BY <1>6, <2>4, <2>5, <2>6, <2>7, ZenonT(60) DEF AgentHandler, AgentStep
<1>7. CASE LeaseEnds(q)
  BY <1>2, <1>7, Zenon DEF LeaseEnds, agentVars, opVars, Rejoined, ReplicaOf, Rejoining
<1>8. QED
  BY <1>1, <1>3, <1>4, <1>5, <1>6, <1>7, LoopSwitch

(* Every step keeps the nodes that the loop is done with. *)
LEMMA RejoinedStep ==
  ASSUME TopologyInv, [Next]_vars, NEW q \in Switches
  PROVE  Rejoined(q)'
<1>1. q \in Ops /\ BasicInv /\ TypeOK /\ LoopInv /\ Rejoined(q)
  BY DEF TopologyInv, BasicInv, Switches
<1>2. SUFFICES ASSUME Alone(q)', pc'[q] \in LoopSteps PROVE Rejoined(q)'
  BY DEF Rejoined
<1>3. Alone(q)
  BY <1>1, <1>2, AloneBefore
<1>4. CASE Servers
  BY <1>1, <1>2, <1>4, RejoinedServers
<1>5. ASSUME NEW p \in Ops, RunStatement(p), UNCHANGED <<etcdVars, opVars, ctlVars>>
      PROVE  Rejoined(q)'
  <2>1. p = q
    BY <1>1, <1>3, <1>5, OwnStatements
  <2>2. QED
    BY <1>1, <1>3, <1>5, <2>1, RejoinedStatement
<1>6. CASE UNCHANGED mysqlVars
  <2>1. CASE OwnStep(q)
    BY <1>1, <1>3, <1>6, <2>1, RejoinedOwn
  <2>2. CASE ~OwnStep(q)
    <3>1. Kept(q) /\ pc'[q] = pc[q]
      BY <1>1, <1>2, <2>2, LocalStep DEF LoopSteps
    <3>2. todo'[q] = todo[q]
      BY <1>1, <2>2, TodoKept, Zenon DEF OwnStep, OperationStep
    <3>3. QED
      BY <1>1, <1>3, <1>6, <3>1, <3>2, ZenonT(60) DEF Kept, mysqlVars, Rejoined, Rejoining, ReplicaOf
  <2>3. QED
    BY <2>1, <2>2
<1>7. QED
  BY <1>4, <1>5, <1>6, StepFrame

(* A switch that completed, in a system where no other operation sent a    *)
(* request and no restart made a read-only node writable, leaves every     *)
(* other node a running read-only replica of the new primary, whatever     *)
(* crashed, restarted or expired meanwhile: for any number of nodes,       *)
(* controllers and operations.                                             *)
THEOREM SwitchLeavesReplicas == Spec => []CompletedTopology
<1>1. Init => TopologyInv
  <2> SUFFICES ASSUME Init PROVE TopologyInv
    OBVIOUS
  <2>1. \A o \in Switches : pc[o] = "idle"
    BY DEF Init, Switches
  <2>2. QED
    BY <2>1, BasicInit DEF TopologyInv, LoopInv, LoopOf, Rejoined, LoopSteps
<1>2. TopologyInv /\ [Next]_vars => TopologyInv'
  <2> SUFFICES ASSUME TopologyInv, [Next]_vars PROVE TopologyInv'
    OBVIOUS
  <2>1. BasicInv' /\ LoopInv'
    BY BasicStep, LoopStep DEF TopologyInv
  <2>2. \A o \in Switches : Rejoined(o)'
    BY RejoinedStep
  <2>3. QED
    BY <2>1, <2>2 DEF TopologyInv
<1>3. TopologyInv => CompletedTopology
  BY ZenonT(60) DEF TopologyInv, LoopInv, LoopOf, Rejoined, LoopSteps, Alone, ReplicaOf, CompletedTopology
<1>4. QED
  BY <1>1, <1>2, <1>3, PTL DEF Spec

-----------------------------------------------------------------------------
(* A task changes by three steps of its own switch only. *)
LEMMA TasksKept ==
  ASSUME TypeOK, [Next]_vars, NEW q \in Ops
  PROVE  tasks'[q] = tasks[q] \/ StartTask(q) \/ StartTaskFails(q) \/ Finish(q)
<1>1. DOMAIN tasks = Ops
  BY DEF TypeOK, EtcdTypeOK
<1>2. ASSUME NEW o \in Ops, OperationStep(o)
      PROVE  tasks' = tasks \/ StartTask(o) \/ StartTaskFails(o) \/ Finish(o)
  BY <1>2, Zenon
  DEF OperationStep, GetCluster, CheckEpoch, NewSession, CreateLockKey, Lock, ReadState,
      PublishOperation, PutOperation, Recheck, CheckCandidate, DemoteReply, ConfirmReadOnly,
      ReadGTID, WaitReply, PromoteReply, VerifyPromoted, CasGet, CasTxn, PutClusterIfRev,
      Reconfigure, ReplicaReply, CallFails, ReleaseOperation, DeleteOperation, Unlock, EndLease,
      DeleteLockKey, etcdVars
<1>3. ASSUME NEW o \in Ops, StartTask(o) \/ StartTaskFails(o) \/ Finish(o)
      PROVE  o = q \/ tasks'[q] = tasks[q]
  BY <1>1, <1>3, Zenon DEF StartTask, StartTaskFails, Finish, PutTask, etcdVars
<1>4. ASSUME NEW o \in Ops, BeginSwitch(o) \/ BeginSetAutoFailover(o) \/ AgentHandler(o) \/ LeaseEnds(o)
      PROVE  tasks' = tasks
  <2>1. CASE AgentHandler(o)
    BY <2>1, Zenon
    DEF AgentHandler, AgentStep, VerifyEpoch, VerifyOperation, WaitForGTID, CheckCaughtUp,
        CheckWritable, PollReplica, RunStatement, HandlerFails, etcdVars
  <2>2. QED
    BY <1>4, <2>1, Zenon
    DEF BeginSwitch, BeginSetAutoFailover, LeaseEnds, LeaseExpires, EndLease, etcdVars
<1>5. ASSUME NEW c \in Controllers, BecomeLeader(c) \/ LoseLeadership(c) \/ Crash(c)
      PROVE  tasks' = tasks
  BY <1>5, Zenon DEF BecomeLeader, LoseLeadership, Crash, etcdVars
<1>6. CASE Servers \/ UNCHANGED vars
  BY <1>6, ZenonT(60) DEF Servers, vars, etcdVars
<1>7. QED
  BY <1>2, <1>3, <1>4, <1>5, <1>6, Zenon DEF Next

(* What a switch has recorded stays recorded: the next epoch is never      *)
(* taken twice.                                                            *)
LEMMA RecordedKept ==
  ASSUME BasicInv, [Next]_vars, NEW q \in Switches, Recorded(q), UNCHANGED <<call[q], seen[q]>>
  PROVE  Recorded(q)'
<1>1. q \in Ops /\ cluster.epoch \in Nat /\ seen[q].epoch \in Nat
  BY DEF BasicInv, TypeOK, EtcdTypeOK, ClusterState, Switches
<1>2. CASE UNCHANGED cluster
  BY <1>2 DEF Recorded
<1>3. ASSUME NEW o \in Ops, CasTxn(o) PROVE Recorded(q)'
  <2>1. CASE o \in Settings
    BY <1>3, <2>1, CasRecord DEF Recorded
  <2>2. CASE o \in Switches
    BY <1>1, <1>3, <2>2, CasRecord DEF Recorded
  <2>3. QED
    BY <2>1, <2>2 DEF Switches
<1>4. QED
  BY <1>2, <1>3, OnlyCasWrites

(* The steps of a switch up to its task, ... *)
LEMMA TaskBefore ==
  ASSUME BasicInv, NEW q \in Switches, TaskOf(q), tasks'[q] = tasks[q],
         \/ BeginSwitch(q) \/ GetCluster(q) \/ CheckEpoch(q) \/ NewSession(q) \/ Lock(q)
         \/ PublishOperation(q) \/ Recheck(q) \/ CheckCandidate(q)
  PROVE  TaskOf(q)'
<1>1. pc \in [Ops -> PCs] /\ q \in Ops /\ q \notin Settings
  BY DEF BasicInv, TypeOK, Switches
<1>2. /\ pc[q] \in BeforeRequests /\ pc'[q] \in BeforeRequests \cup {"unlock"}
      /\ req' = req
  BY <1>1, Zenon
  DEF BeginSwitch, GetCluster, CheckEpoch, NewSession, Lock, PublishOperation, Recheck,
      CheckCandidate, Goto, BeforeRequests, agentVars
<1>3. tasks'[q] = "none"
  BY <1>2, Zenon DEF TaskOf
<1>4. req'[q].kind = "none"
  BY <1>2, Zenon DEF BasicInv, RequestInv, StepRequest
<1>5. pc'[q] \notin TaskSteps \cup Outcomes /\ pc'[q] \notin LoopSteps
  BY <1>2, Zenon DEF BeforeRequests, TaskSteps, Outcomes, LoopSteps
<1>6. QED
  BY <1>3, <1>4, <1>5, ZenonT(60) DEF TaskOf

(* ... the start of the task, ... *)
LEMMA TaskStart ==
  ASSUME BasicInv, NEW q \in Switches, TaskOf(q), StartTask(q) \/ StartTaskFails(q)
  PROVE  TaskOf(q)'
<1>1. /\ pc \in [Ops -> PCs] /\ q \in Ops /\ DOMAIN tasks = Ops
      /\ pc[q] = "putTask" /\ pc[q] \in BeforeRequests
  BY DEF BasicInv, TypeOK, EtcdTypeOK, Switches, StartTask, StartTaskFails, BeforeRequests
<1>2. req[q].kind = "none" /\ tasks[q] = "none"
  BY <1>1, Zenon DEF BasicInv, RequestInv, StepRequest, TaskOf
<1>3. CASE StartTask(q)
  <2>1. /\ tasks'[q] = "running" /\ pc'[q] \in {"dry-run", "demoting"}
        /\ pc'[q] = "dry-run" => req' = req
    BY <1>1, <1>3, Zenon DEF StartTask, PutTask, Goto, agentVars
  <2>2. QED
    BY <1>2, <2>1, Zenon DEF TaskOf, BeforeRequests, LoopSteps
<1>4. CASE StartTaskFails(q)
  <2>1. /\ tasks'[q] \in {"none", "running"} /\ pc'[q] = "deleteOperation"
        /\ req' = req
    BY <1>1, <1>2, <1>4, Zenon DEF StartTaskFails, PutTask, Goto, agentVars, etcdVars
  <2>2. QED
    BY <1>2, <2>1, Zenon DEF TaskOf, BeforeRequests, TaskSteps, Outcomes, LoopSteps
<1>5. QED
  BY <1>3, <1>4

(* ... the steps of the task, ... *)
LEMMA TaskRuns ==
  ASSUME BasicInv, [Next]_vars, NEW q \in Switches, TaskOf(q), tasks'[q] = tasks[q],
         \/ DemoteReply(q) \/ ConfirmReadOnly(q) \/ ReadGTID(q) \/ WaitReply(q)
         \/ PromoteReply(q) \/ VerifyPromoted(q) \/ CasGet(q) \/ CasTxn(q)
         \/ Reconfigure(q) \/ ReplicaReply(q)
  PROVE  TaskOf(q)'
<1>1. pc \in [Ops -> PCs] /\ q \in Ops /\ q \notin Settings
  BY DEF BasicInv, TypeOK, Switches
<1>2. pc[q] \in TaskSteps /\ UNCHANGED <<call, seen>>
  BY Zenon
  DEF DemoteReply, ConfirmReadOnly, ReadGTID, WaitReply, PromoteReply, VerifyPromoted, CasGet,
      CasTxn, Reconfigure, ReplicaReply, TaskSteps
<1>3. tasks'[q] = "running"
  BY <1>2, Zenon DEF TaskOf
<1>4. CASE \/ DemoteReply(q) \/ ConfirmReadOnly(q) \/ ReadGTID(q) \/ WaitReply(q)
           \/ PromoteReply(q) \/ VerifyPromoted(q) \/ CasGet(q)
  <2>1. pc'[q] \in {"confirm", "gtid", "catchingUp", "promoting", "verify", "casGet", "casTxn"}
    BY <1>1, <1>4, Zenon
    DEF DemoteReply, ConfirmReadOnly, ReadGTID, WaitReply, PromoteReply, VerifyPromoted, CasGet, Goto
  <2>2. QED
    BY <1>3, <2>1, Zenon DEF TaskOf, BeforeRequests, LoopSteps
<1>5. CASE CasTxn(q)
  <2>1. pc'[q] \in {"reconfigure", "failed"}
    BY <1>1, <1>5, ZenonT(60) DEF CasTxn, Goto
  <2>2. cluster.epoch = seen[q].epoch /\ cluster'.epoch = cluster.epoch + 1 /\ cluster'.primary = call[q].target
    BY <1>1, <1>5, CasRecord
  <2>3. Recorded(q)'
    <3>1. seen[q].epoch \in Nat
      BY <1>1 DEF BasicInv, TypeOK, ClusterState
    <3>2. QED
      BY <1>2, <2>2, <3>1 DEF Recorded
  <2>4. QED
    BY <1>3, <2>1, <2>3, Zenon DEF TaskOf, BeforeRequests
<1>6. CASE Reconfigure(q) \/ ReplicaReply(q)
  <2>1. pc[q] \in LoopSteps /\ pc'[q] \in LoopSteps
    BY <1>1, <1>6, ZenonT(60) DEF Reconfigure, ReplicaReply, Goto, LoopSteps
  <2>2. Recorded(q)'
    BY <1>2, <2>1, RecordedKept DEF TaskOf
  <2>3. QED
    BY <1>3, <2>1, <2>2, Zenon DEF TaskOf, BeforeRequests, LoopSteps
<1>7. QED
  BY <1>4, <1>5, <1>6, ZenonT(60)

(* ... and every way to the end. *)
LEMMA TaskEnds ==
  ASSUME BasicInv, [Next]_vars, NEW q \in Switches, TaskOf(q),
         \/ tasks'[q] = tasks[q] /\ (CallFails(q) \/ ReleaseOperation(q) \/ Unlock(q))
         \/ Finish(q)
  PROVE  TaskOf(q)'
<1>1. /\ pc \in [Ops -> PCs] /\ q \in Ops /\ q \notin Settings /\ DOMAIN tasks = Ops
      /\ pc[q] # "readState"
  BY DEF BasicInv, TypeOK, EtcdTypeOK, Switches, CallInv, SwitchCall
<1>2. UNCHANGED <<call, seen, req>>
  BY ZenonT(60) DEF CallFails, ReleaseOperation, Unlock, Finish, agentVars
<1>3. Recorded(q) => Recorded(q)'
  BY <1>2, RecordedKept, ZenonT(60)
<1>4. CASE CallFails(q) /\ tasks'[q] = tasks[q]
  <2>1. \/ pc[q] \in BeforeRequests /\ pc'[q] \in {"done", "unlock", "deleteOperation"}
        \/ pc[q] \in TaskSteps /\ pc'[q] = "failed"
    BY <1>1, <1>4, Zenon DEF CallFails, Goto, BeforeRequests
  <2>2. CASE pc[q] \in BeforeRequests /\ pc'[q] \in {"done", "unlock", "deleteOperation"}
    <3>1. tasks'[q] = "none" /\ req'[q].kind = "none"
      BY <1>2, <1>4, <2>2, Zenon DEF TaskOf
    <3>2. QED
      BY <2>2, <3>1, Zenon DEF TaskOf, BeforeRequests, TaskSteps, Outcomes, LoopSteps
  <2>3. CASE pc[q] \in TaskSteps /\ pc'[q] = "failed"
    <3>1. tasks'[q] = "running"
      BY <1>4, <2>3, Zenon DEF TaskOf
    <3>2. QED
      BY <2>3, <3>1, Zenon DEF TaskOf, BeforeRequests, LoopSteps
  <2>4. QED
    BY <2>1, <2>2, <2>3
<1>5. CASE (ReleaseOperation(q) \/ Unlock(q)) /\ tasks'[q] = tasks[q]
  <2>1. pc[q] \in {"deleteOperation", "unlock"} /\ pc'[q] \in {"unlock", "done"}
    BY <1>1, <1>5, ZenonT(60) DEF ReleaseOperation, Unlock, Goto
  <2>2. QED
    BY <1>2, <1>3, <1>5, <2>1, ZenonT(60) DEF TaskOf, BeforeRequests, TaskSteps, Outcomes, LoopSteps
<1>6. CASE Finish(q)
  <2>1. /\ pc[q] \in Outcomes /\ pc'[q] = "deleteOperation"
        /\ tasks'[q] \in {pc[q], tasks[q]}
    BY <1>1, <1>6, Zenon DEF Finish, PutTask, Goto, etcdVars
  <2>2. tasks[q] = "running"
    BY <2>1, Zenon DEF TaskOf
  <2>3. /\ pc[q] = "dry-run" => req'[q].kind = "none"
        /\ pc[q] = "completed" => Recorded(q)'
    BY <1>2, <1>3, Zenon DEF TaskOf, LoopSteps
  <2>4. pc'[q] \notin BeforeRequests \cup TaskSteps \cup Outcomes \cup LoopSteps
    BY <2>1, Zenon DEF BeforeRequests, TaskSteps, Outcomes, LoopSteps
  <2>5. CASE tasks'[q] = pc[q]
    BY <2>1, <2>3, <2>4, <2>5, ZenonT(60) DEF TaskOf, Outcomes
  <2>6. CASE tasks'[q] = tasks[q]
    BY <2>1, <2>2, <2>4, <2>6, ZenonT(60) DEF TaskOf
  <2>7. QED
    BY <2>1, <2>5, <2>6
<1>7. QED
  BY <1>4, <1>5, <1>6

(* The task of a switch goes with its steps, after every step. *)
LEMMA TaskStep ==
  ASSUME BasicInv, TaskInv, [Next]_vars
  PROVE  TaskInv'
<1> SUFFICES ASSUME NEW q \in Switches PROVE TaskOf(q)'
  BY DEF TaskInv
<1>1. q \in Ops /\ q \notin Settings /\ TypeOK /\ TaskOf(q) /\ pc[q] # "readState"
  BY DEF BasicInv, Switches, TaskInv, CallInv, SwitchCall
<1>2. CASE UNCHANGED <<pc[q], call[q], seen[q], req[q], tasks[q]>>
  <2>1. Recorded(q) => Recorded(q)'
    BY <1>2, RecordedKept
  <2>2. QED
    BY <1>1, <1>2, <2>1, ZenonT(60) DEF TaskOf
<1>3. CASE OwnStep(q)
  <2>1. CASE StartTask(q) \/ StartTaskFails(q)
    BY <1>1, <2>1, TaskStart
  <2>2. CASE Finish(q)
    BY <1>1, <2>2, TaskEnds
  <2>3. CASE ~(StartTask(q) \/ StartTaskFails(q) \/ Finish(q))
    <3>1. tasks'[q] = tasks[q]
      BY <1>1, <2>3, TasksKept
    <3>2. CASE AgentHandler(q) \/ LeaseEnds(q)
      <4>1. UNCHANGED <<opVars, req>>
        BY <1>1, <3>2, AgentFrame, Zenon DEF AgentHandler, LeaseEnds, agentVars, TypeOK
      <4>2. QED
        BY <1>2, <3>1, <4>1, Zenon DEF opVars
    <3>3. ~ReadState(q) /\ ~BeginSetAutoFailover(q)
      BY <1>1, ZenonT(60) DEF ReadState, BeginSetAutoFailover
    <3>4. QED
      BY <1>1, <1>3, <2>3, <3>1, <3>2, <3>3, TaskBefore, TaskRuns, TaskEnds, ZenonT(60)
      DEF OwnStep, OperationStep
  <2>4. QED
    BY <2>1, <2>2, <2>3
<1>4. CASE ~OwnStep(q)
  <2>1. tasks'[q] = tasks[q]
    BY <1>1, <1>4, TasksKept, Zenon DEF OwnStep, OperationStep
  <2>2. Kept(q) /\ (pc'[q] = pc[q] \/ pc'[q] = "crashed")
    BY <1>1, <1>4, LocalStep, Zenon
  <2>3. UNCHANGED <<call[q], seen[q], req[q]>>
    BY <2>2, ZenonT(60) DEF Kept
  <2>4. CASE pc'[q] = pc[q]
    BY <1>2, <2>1, <2>3, <2>4
  <2>5. CASE pc'[q] = "crashed"
    <3>1. Recorded(q) => Recorded(q)'
      BY <2>3, RecordedKept
    <3>2. QED
      BY <1>1, <2>1, <2>3, <2>5, <3>1, ZenonT(60)
      DEF TaskOf, BeforeRequests, TaskSteps, Outcomes, LoopSteps
  <2>6. QED
    BY <2>2, <2>4, <2>5
<1>5. QED
  BY <1>3, <1>4

(* No task is on record at the start. *)
LEMMA TaskInit == Init => TaskInv
<1> SUFFICES ASSUME Init, NEW o \in Switches PROVE TaskOf(o)
  BY DEF TaskInv
<1>1. o \in Ops /\ pc[o] = "idle" /\ tasks[o] = "none" /\ req[o] = NoRequest
  BY DEF Init, EtcdInit, AgentInit, Switches
<1>2. NoRequest.kind = "none"
  BY DEF NoRequest, NewRequest
<1>3. QED
  BY <1>1, <1>2, Zenon DEF TaskOf, TaskSteps, Outcomes, LoopSteps

(* A switch that has asked for a promotion keeps what it has read, its     *)
(* target and its place in the history.                                    *)
LEMMA PromotedKept ==
  ASSUME BasicInv, TaskInv, [Next]_vars, NEW q \in Switches,
         tasks[q] \in {"running", "failed", "completed"}, req[q].kind \in {"promote", "replica"}
  PROVE  /\ seen'[q] = seen[q] /\ call'[q] = call[q]
         /\ tasks'[q] \in {"running", "failed", "completed"}
         /\ req'[q].kind \in {"promote", "replica"}
<1>1. /\ q \in Ops /\ TypeOK /\ TaskOf(q) /\ StepRequest(q) /\ q \notin Settings
      /\ DOMAIN tasks = Ops /\ DOMAIN req = Ops /\ pc[q] # "readState"
  BY DEF BasicInv, Switches, TaskInv, RequestInv, TypeOK, EtcdTypeOK, AgentTypeOK, CallInv, SwitchCall
<1>2. pc[q] \notin BeforeRequests \cup {"demoting", "confirm", "gtid", "catchingUp", "dry-run"}
  BY <1>1 DEF StepRequest, TaskOf
<1>3. tasks'[q] \in {"running", "failed", "completed"}
  <2>1. ~StartTask(q) /\ ~StartTaskFails(q)
    BY <1>2, Zenon DEF StartTask, StartTaskFails, BeforeRequests
  <2>2. Finish(q) => tasks'[q] \in {pc[q], tasks[q]} /\ pc[q] \in Outcomes
    BY <1>1, Zenon DEF Finish, PutTask, etcdVars
  <2>3. Finish(q) => tasks'[q] \in {"failed", "completed", tasks[q]}
    BY <1>2, <2>2, Zenon DEF Outcomes
  <2>4. QED
    BY <1>1, <2>1, <2>3, TasksKept, Zenon
<1>4. CASE OwnStep(q)
  <2>1. OperationStep(q) => UNCHANGED <<seen, call>> /\ (req' = req \/ Reconfigure(q))
    BY <1>1, <1>2, ZenonT(60)
    DEF OperationStep, GetCluster, CheckEpoch, NewSession, Lock, ReadState, PublishOperation,
        Recheck, CheckCandidate, StartTask, StartTaskFails, DemoteReply, ConfirmReadOnly,
        ReadGTID, WaitReply, PromoteReply, VerifyPromoted, CasGet, CasTxn, Reconfigure,
        ReplicaReply, CallFails, Finish, ReleaseOperation, Unlock, BeforeRequests, agentVars
  <2>2. ASSUME Reconfigure(q) PROVE req'[q].kind = "replica"
    <3>1. PICK n \in todo[q] : Send(q, NewRequest("replica", n, seen[q].epoch, {}, call[q].target))
      BY <2>2, Zenon DEF Reconfigure
    <3>2. req'[q] = NewRequest("replica", n, seen[q].epoch, {}, call[q].target)
      BY <1>1, <3>1, Zenon DEF Send
    <3>3. QED
      BY <3>2 DEF NewRequest
  <2>3. BeginSwitch(q) \/ BeginSetAutoFailover(q) => FALSE
    BY <1>1, <1>2, Zenon DEF BeginSwitch, BeginSetAutoFailover, BeforeRequests
  <2>4. AgentHandler(q) \/ LeaseEnds(q) => UNCHANGED <<seen, call, req>>
    BY <1>1, AgentFrame, Zenon DEF AgentHandler, LeaseEnds, opVars, agentVars, TypeOK
  <2>5. QED
    BY <1>3, <1>4, <2>1, <2>2, <2>3, <2>4, Zenon DEF OwnStep
<1>5. CASE ~OwnStep(q)
  <2>1. Kept(q)
    BY <1>1, <1>5, LocalStep, Zenon
  <2>2. QED
    BY <1>3, <2>1, ZenonT(60) DEF Kept
<1>6. QED
  BY <1>4, <1>5

(* Every step leaves each epoch its task: the record moves on only with a  *)
(* task that is running, and a setting of the flag moves nothing.          *)
LEMMA ExplainStep ==
  ASSUME BasicInv, TaskInv, [Next]_vars, \A e \in 1..cluster.epoch : \E o \in Switches : Explains(o, e)
  PROVE  \A e \in 1..cluster'.epoch : \E o \in Switches : Explains(o, e)'
<1>1. cluster.epoch \in Nat
  BY DEF BasicInv, TypeOK, EtcdTypeOK, ClusterState
<1>2. ASSUME NEW o \in Switches, NEW e \in 1..cluster.epoch, Explains(o, e),
             e = cluster'.epoch => e = cluster.epoch /\ cluster'.primary = cluster.primary
      PROVE  Explains(o, e)'
  BY <1>2, PromotedKept, Zenon DEF Explains
<1>3. CASE UNCHANGED cluster
  BY <1>2, <1>3, Zenon
<1>4. ASSUME NEW q \in Ops, CasTxn(q), q \in Settings PROVE cluster'.epoch = cluster.epoch /\ cluster'.primary = cluster.primary
  BY <1>4, CasRecord
<1>5. ASSUME NEW q \in Switches, CasTxn(q)
      PROVE  \A e \in 1..cluster'.epoch : \E o \in Switches : Explains(o, e)'
  <2>a. q \in Ops /\ pc[q] = "casTxn"
    BY <1>5, Zenon DEF Switches, CasTxn
  <2>1. /\ cluster.epoch = seen[q].epoch
        /\ cluster'.epoch = cluster.epoch + 1 /\ cluster'.primary = call[q].target
    BY <1>5, <2>a, CasRecord
  <2>2. tasks[q] = "running" /\ req[q].kind = "promote"
    BY <2>a, Zenon DEF TaskInv, TaskOf, TaskSteps, BasicInv, RequestInv, StepRequest
  <2>b. /\ seen'[q] = seen[q] /\ call'[q] = call[q]
        /\ tasks'[q] \in {"running", "failed", "completed"}
        /\ req'[q].kind \in {"promote", "replica"}
    BY <2>2, PromotedKept, Zenon
  <2> SUFFICES ASSUME NEW e \in 1..cluster'.epoch PROVE \E o \in Switches : Explains(o, e)'
    OBVIOUS
  <2>3. CASE e = cluster'.epoch
    <3>1. Explains(q, e)'
      BY <2>1, <2>b, <2>3, Zenon DEF Explains
    <3>2. QED
      BY <3>1
  <2>4. CASE e # cluster'.epoch
    <3>1. e \in 1..cluster.epoch
      BY <1>1, <2>1, <2>4
    <3>2. QED
      BY <1>2, <2>4, <3>1, Zenon
  <2>5. QED
    BY <2>3, <2>4
<1>6. QED
  <2>1. CASE UNCHANGED cluster
    BY <1>3, <2>1
  <2>2. ASSUME NEW q \in Ops, CasTxn(q), q \in Settings
        PROVE  \A e \in 1..cluster'.epoch : \E o \in Switches : Explains(o, e)'
    BY <1>2, <1>4, <2>2, Zenon
  <2>3. QED
    BY <1>5, <2>1, <2>2, OnlyCasWrites, Zenon DEF Switches

(* The history of tasks explains the record, for any number of nodes,      *)
(* controllers and operations and whatever crashes, expires, is cancelled  *)
(* or gets lost: Switch writes its task before it sends its first request, *)
(* and its deferred functions never claim more than it has done.           *)
THEOREM HistoryExplainsRecord == Spec => []TasksExplainRecord
<1> DEFINE Explained == \A e \in 1..cluster.epoch : \E o \in Switches : Explains(o, e)
<1>1. Init => TaskInv /\ Explained
  <2> SUFFICES ASSUME Init PROVE Explained
    BY TaskInit
  <2>1. cluster.epoch = 0
    BY DEF Init, EtcdInit
  <2>2. QED
    BY <2>1
<1>2. BasicInv /\ TaskInv /\ Explained /\ [Next]_vars => TaskInv' /\ Explained'
  BY TaskStep, ExplainStep
<1>3. TaskInv /\ Explained => TasksExplainRecord
  BY Zenon DEF TaskInv, TaskOf, TasksExplainRecord
<1>4. QED
  BY <1>1, <1>2, <1>3, BasicInvariant, PTL DEF Spec

(* A switch gets its state recorded by one step only. *)
LEMMA TakenKept ==
  ASSUME BasicInv, TaskInv, [Next]_vars, NEW q \in Switches, HasTaken(q)'
  PROVE  seen'[q] = seen[q] /\ (HasTaken(q) \/ CasTxn(q))
<1>1. q \in Ops /\ TypeOK /\ TaskOf(q) /\ pc \in [Ops -> PCs] /\ DOMAIN tasks = Ops /\ q \notin Settings
  BY DEF BasicInv, Switches, TaskInv, TypeOK, EtcdTypeOK
<1>2. HasTaken(q) \/ CasTxn(q)
  <2>1. CASE tasks'[q] = "completed"
    <3>1. ~StartTask(q) /\ (StartTaskFails(q) => tasks'[q] = tasks[q])
      BY <1>1, <2>1, Zenon DEF StartTask, StartTaskFails, PutTask, etcdVars
    <3>2. Finish(q) => tasks'[q] \in {pc[q], tasks[q]}
      BY <1>1, Zenon DEF Finish, PutTask, etcdVars
    <3>3. QED
      BY <1>1, <2>1, <3>1, <3>2, TasksKept, Zenon DEF HasTaken, LoopSteps
  <2>2. CASE pc'[q] \in LoopSteps /\ OwnStep(q)
    <3>1. Reconfigure(q) \/ ReplicaReply(q) => pc[q] \in LoopSteps
      BY Zenon DEF Reconfigure, ReplicaReply, LoopSteps
    <3>2. AgentHandler(q) \/ LeaseEnds(q) => pc' = pc
      BY Zenon DEF AgentHandler, LeaseEnds, opVars
    <3>3. QED
      BY <1>1, <2>2, <3>1, <3>2, LoopSwitch, Zenon DEF HasTaken
  <2>3. CASE pc'[q] \in LoopSteps /\ ~OwnStep(q)
    <3>1. "crashed" \notin LoopSteps
      BY DEF LoopSteps
    <3>2. QED
      BY <1>1, <2>3, <3>1, LocalStep, Zenon DEF HasTaken
  <2>4. QED
    BY <2>1, <2>2, <2>3 DEF HasTaken
<1>3. pc[q] \notin BeforeRequests /\ pc[q] # "getCluster" /\ pc[q] # "readState"
  <2>1. pc[q] \notin BeforeRequests
    BY <1>1, <1>2, Zenon DEF HasTaken, TaskOf, LoopSteps, BeforeRequests, CasTxn
  <2>2. pc[q] # "readState"
    BY <1>1, Zenon DEF BasicInv, CallInv, SwitchCall
  <2>3. QED
    BY <2>1, <2>2, Zenon DEF BeforeRequests
<1>4. seen'[q] = seen[q]
  <2>1. CASE OwnStep(q)
    <3>1. OperationStep(q) => seen' = seen
      BY <1>3, Zenon
      DEF OperationStep, GetCluster, CheckEpoch, NewSession, Lock, ReadState, PublishOperation,
          Recheck, CheckCandidate, StartTask, StartTaskFails, DemoteReply, ConfirmReadOnly,
          ReadGTID, WaitReply, PromoteReply, VerifyPromoted, CasGet, CasTxn, Reconfigure,
          ReplicaReply, CallFails, Finish, ReleaseOperation, Unlock
    <3>2. BeginSwitch(q) \/ BeginSetAutoFailover(q) \/ AgentHandler(q) \/ LeaseEnds(q) => seen' = seen
      BY Zenon DEF BeginSwitch, BeginSetAutoFailover, AgentHandler, LeaseEnds, opVars
    <3>3. QED
      BY <2>1, <3>1, <3>2, Zenon DEF OwnStep
  <2>2. QED
    BY <1>1, <2>1, LocalStep, Zenon DEF Kept
<1>5. QED
  BY <1>2, <1>4

(* Two switches never take the same epoch: the one that has is ahead of    *)
(* what the other compares the record with.                                *)
LEMMA TakenStep ==
  ASSUME BasicInv, TaskInv, EpochTakenOnce, [Next]_vars
  PROVE  EpochTakenOnce'
<1> SUFFICES ASSUME NEW o \in Switches, NEW p \in Switches, HasTaken(o)', HasTaken(p)',
                    seen'[o].epoch = seen'[p].epoch
             PROVE  o = p
  BY DEF EpochTakenOnce
<1>1. /\ seen'[o] = seen[o] /\ (HasTaken(o) \/ CasTxn(o))
      /\ seen'[p] = seen[p] /\ (HasTaken(p) \/ CasTxn(p))
  BY TakenKept
<1>2. ASSUME NEW a \in Switches, NEW b \in Switches, CasTxn(a), HasTaken(b), seen[a].epoch = seen[b].epoch
      PROVE  FALSE
  <2>1. a \in Ops /\ seen[b].epoch < cluster.epoch /\ cluster.epoch = seen[a].epoch
    BY <1>2, CasRecord DEF TaskInv, TaskOf, HasTaken, Recorded, Switches
  <2>2. cluster.epoch \in Nat
    BY DEF BasicInv, TypeOK, EtcdTypeOK, ClusterState
  <2>3. QED
    BY <1>2, <2>1, <2>2
<1>3. CASE HasTaken(o) /\ HasTaken(p)
  BY <1>1, <1>3, ZenonT(60) DEF EpochTakenOnce
<1>4. CASE CasTxn(o) /\ CasTxn(p) /\ o # p
  <2>1. o \in Ops /\ p \in Ops \ {o} /\ TypeOK /\ OwnStep(o)
    BY <1>4, ZenonT(60) DEF Switches, BasicInv, OwnStep, OperationStep
  <2>2. pc'[p] = pc[p]
    BY <2>1, OthersKeep
  <2>3. pc[p] = "casTxn" /\ pc'[p] # "casTxn"
    BY <1>4, <2>1 DEF CasTxn, Goto, TypeOK
  <2>4. QED
    BY <2>2, <2>3
<1>5. QED
  BY <1>1, <1>2, <1>3, <1>4, ZenonT(60)

(* Of the switches that start from one epoch at most one goes on with its  *)
(* target as the recorded primary, for any number of them and whatever     *)
(* fails: the compare in PutClusterIfEpoch lets one of them through.       *)
THEOREM OneSwitchPerEpoch == Spec => []EpochTakenOnce
<1>1. Init => TaskInv /\ EpochTakenOnce
  <2> SUFFICES ASSUME Init PROVE TaskInv /\ EpochTakenOnce
    OBVIOUS
  <2>1. TaskInv
    BY TaskInit
  <2>2. ASSUME NEW o \in Switches PROVE ~HasTaken(o)
    BY Zenon DEF Init, EtcdInit, Switches, HasTaken, LoopSteps
  <2>3. QED
    BY <2>1, <2>2, Zenon DEF EpochTakenOnce
<1>2. BasicInv /\ TaskInv /\ EpochTakenOnce /\ [Next]_vars => TaskInv' /\ EpochTakenOnce'
  BY TaskStep, TakenStep
<1>3. QED
  BY <1>1, <1>2, BasicInvariant, PTL DEF Spec
=============================================================================
