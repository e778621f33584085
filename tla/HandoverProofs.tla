--------------------------- MODULE HandoverProofs ---------------------------
(***************************************************************************)
(* The proof of the inductive invariant IInv of ControllerInv and, from    *)
(* it, that an undisturbed system has one writer and loses no write. The   *)
(* argument: the lock's owner alone can promote (PromoterHolds), so its    *)
(* record and its frozen old primary stay (RecordHeldStep, FrozenStep), so *)
(* no node is writable when its agent authorizes the promotion             *)
(* (StartsFrozen) and the target has all data then (CaughtUpStep).         *)
(***************************************************************************)
EXTENDS ControllerProofs

(* Time limits of the provers, in seconds, where a step names none. *)
USE SMTT(30), ZenonT(30)

(* Two operations past the lock whose lock keys exist are the same one. *)
LEMMA LockHolder ==
  ASSUME BasicInv, NEW o \in Ops, NEW q \in Ops,
         pc[o] \in PastLock, ticket[o] > 0, pc[q] \in PastLock, ticket[q] > 0
  PROVE  o = q
BY DEF BasicInv, LockInv, OwnsLock, TypeOK, EtcdTypeOK

(* In an undisturbed system an authorized promotion belongs to the switch  *)
(* that owns the lock.                                                     *)
LEMMA PromoterHolds ==
  ASSUME BasicInv, Undisturbed, NEW o \in Ops, Promoting(o)
  PROVE  o \in Switches /\ pc[o] \in PromotionSteps /\ ticket[o] > 0 /\ pc[o] \in PastLock
<1>1. pc[o] \in PromotionSteps /\ ticket[o] > 0
  BY DEF Undisturbed
<1>2. o \in Switches
  BY DEF Promoting, BasicInv, CallInv, SettingCall, Switches
<1>3. QED
  BY <1>1, <1>2 DEF PromotionSteps, PastLock, TaskSteps

(* read_only is turned off on the target of a promotion only. *)
LEMMA RoOffPromotes ==
  ASSUME BasicInv, NEW o \in Ops, hpc[o] = "roOff"
  PROVE  Promoting(o) /\ req[o].node = call[o].target
<1>1. o \in Switches
  BY DEF BasicInv, CallInv, SettingCall, Switches
<1>2. QED
  BY <1>1 DEF BasicInv, RequestInv, StepRequest, HandlerRequest, Promoting

(* A switch that is about to record its target has promoted it. *)
LEMMA CasPromotes ==
  ASSUME BasicInv, NEW o \in Switches, CasTxn(o)
  PROVE  Promoting(o)
BY DEF BasicInv, RequestInv, StepRequest, Promoting, CasTxn, PromotionSteps

(* A node whose agent reports it read-only is not writable. *)
LEMMA StatusReadOnly ==
  ASSUME NEW n \in Nodes, NEW st \in Status(n), st.readOnly
  PROVE  ~Writable(n)
<1>1. SUFFICES ASSUME Writable(n) PROVE FALSE
  OBVIOUS
<1>2. st \in {NoReport(FALSE), NoReport(TRUE), PrimaryReport}
  BY <1>1, Zenon DEF Status
<1>3. ~NoReport(FALSE).readOnly /\ ~NoReport(TRUE).readOnly /\ ~PrimaryReport.readOnly
  BY DEF NoReport, PrimaryReport
<1>4. QED
  BY <1>2, <1>3, Zenon

(* No transaction moves the record under another switch that owns the      *)
(* lock.                                                                   *)
LEMMA RecordHeldCas ==
  ASSUME BasicInv, Undisturbed, Undisturbed', HandoverInv, NEW o \in Ops, CasTxn(o),
  NEW q \in Switches
  PROVE  RecordHeld(q)'
<1> SUFFICES ASSUME (pc[q] \in CheckedSteps)', (ticket[q] > 0)'
             PROVE  (cluster.epoch = seen[q].epoch /\ cluster.primary = seen[q].primary)'
  BY DEF RecordHeld
<1>1. pc' = [pc EXCEPT ![o] = pc'[o]] /\ pc'[o] \notin CheckedSteps /\ UNCHANGED <<ticket, seen>>
  BY DEF CasTxn, Goto, PutClusterIfRev, CheckedSteps, PromotionSteps, BasicInv, TypeOK
<1>2. q \in Ops /\ q # o /\ pc[q] \in CheckedSteps /\ ticket[q] > 0
  BY <1>1 DEF Switches, BasicInv, TypeOK
<1>3. o \in Settings
  <2>1. SUFFICES ASSUME o \in Switches PROVE FALSE
    BY DEF Switches
  <2>2. Promoting(o)
    BY <2>1, CasPromotes
  <2>3. pc[q] \in PastLock
    BY <1>2 DEF CheckedSteps, PromotionSteps, PastLock, LockedSteps, TaskSteps
  <2>4. QED
    BY <1>2, <2>2, <2>3, PromoterHolds, LockHolder
<1>4. cluster'.epoch = cluster.epoch /\ cluster'.primary = cluster.primary
  BY <1>3, CasRecord
<1>5. RecordHeld(q)
  BY DEF HandoverInv
<1>6. QED
  BY <1>1, <1>2, <1>4, <1>5 DEF RecordHeld

(* The record stays what a switch checked under its lock, until the switch *)
(* replaces it.                                                            *)
LEMMA RecordHeldStep ==
  ASSUME BasicInv, Undisturbed, Undisturbed', HandoverInv, [Next]_vars, NEW q \in Switches
  PROVE  RecordHeld(q)'
<1>1. ASSUME NEW o \in Ops, CasTxn(o) PROVE RecordHeld(q)'
  BY <1>1, RecordHeldCas
<1>2. CASE UNCHANGED cluster
  <2> SUFFICES ASSUME pc'[q] \in CheckedSteps, ticket'[q] > 0
               PROVE  cluster'.epoch = seen'[q].epoch /\ cluster'.primary = seen'[q].primary
    BY DEF RecordHeld
  <2>1. seen'[q] = seen[q] /\ ticket[q] > 0 /\ (pc[q] \in CheckedSteps \/ Recheck(q))
    BY Entry DEF BasicInv
  <2>2. QED
    BY <1>2, <2>1 DEF HandoverInv, RecordHeld, Recheck
<1>3. QED
  BY <1>1, <1>2, OnlyCasWrites

(* The check before controller.go:386 establishes that the old primary is  *)
(* read-only.                                                              *)
LEMMA FrozenConfirm ==
  ASSUME BasicInv, Undisturbed, Undisturbed', HandoverInv, NEW o \in Ops, ConfirmReadOnly(o),
  NEW q \in Switches
  PROVE  OldPrimaryFrozen(q)'
<1>1. UNCHANGED <<seen, ticket, mode>> /\ pc' = [pc EXCEPT ![o] = "gtid"]
  BY DEF ConfirmReadOnly, Goto, mysqlVars, etcdVars
<1>2. q \in Ops /\ OldPrimaryFrozen(q)
  BY DEF HandoverInv, Switches
<1>3. CASE q # o
  BY <1>1, <1>2, <1>3 DEF OldPrimaryFrozen, BasicInv, TypeOK, Writable
<1>4. CASE q = o
  <2>1. seen[o].primary \in Nodes
    BY <1>4 DEF BasicInv, SeenInv, HasRead, SeenOK, TaskSteps, ConfirmReadOnly
  <2>2. ~Writable(seen[o].primary)
    BY <2>1, StatusReadOnly DEF ConfirmReadOnly
  <2>3. QED
    BY <1>1, <1>4, <2>2 DEF OldPrimaryFrozen, Writable
<1>5. QED
  BY <1>3, <1>4

(* No statement makes the confirmed old primary of the lock's owner        *)
(* writable: only a promotion could, and the owner promotes another node.  *)
LEMMA FrozenStatement ==
  ASSUME BasicInv, Undisturbed, Undisturbed', HandoverInv, NEW o \in Ops, RunStatement(o),
  UNCHANGED <<opVars, ctlVars>>, NEW q \in Switches
  PROVE  OldPrimaryFrozen(q)'
<1> SUFFICES ASSUME (pc[q] \in FrozenSteps)', (ticket[q] > 0)'
             PROVE  ~Writable(seen[q].primary)'
  BY DEF OldPrimaryFrozen
<1>1. UNCHANGED <<pc, seen, ticket, call>>
  BY StatementEffect DEF BasicInv, opVars, etcdVars
<1>2. q \in Ops /\ pc[q] \in FrozenSteps /\ ticket[q] > 0 /\ pc[q] \in PastLock
  BY <1>1 DEF Switches, FrozenSteps, PromotionSteps, PastLock, TaskSteps
<1>3. ~Writable(seen[q].primary)
  BY <1>2 DEF HandoverInv, OldPrimaryFrozen
<1>4. seen[q].primary \in Nodes /\ call[q].target # seen[q].primary
  BY <1>2 DEF BasicInv, SeenInv, HasRead, SeenOK, FrozenSteps, PromotionSteps, TaskSteps
<1>5. SUFFICES ASSUME Writable(seen[q].primary)' PROVE FALSE
  OBVIOUS
<1>6. seen[q].primary = req[o].node /\ hpc[o] = "roOff"
  <2>1. \A n \in Nodes : Writable(n)' => Writable(n) \/ (n = req[o].node /\ hpc[o] = "roOff")
    BY StatementEffect, Zenon DEF BasicInv
  <2>2. mode'[seen[q].primary] = "rw"
    BY <1>1, <1>5 DEF Writable
  <2>3. QED
    BY <1>3, <1>4, <2>1, <2>2 DEF Writable
<1>7. Promoting(o) /\ req[o].node = call[o].target
  BY <1>6, RoOffPromotes
<1>8. o = q
  BY <1>2, <1>7, PromoterHolds, LockHolder
<1>9. QED
  BY <1>4, <1>6, <1>7, <1>8

(* An undisturbed restart makes no node writable. *)
LEMMA FrozenRestart ==
  ASSUME BasicInv, Undisturbed, Undisturbed', HandoverInv, NEW n \in Nodes, RestartMySQL(n),
  UNCHANGED <<etcdVars, agentVars, opVars, ctlVars>>, NEW q \in Switches
  PROVE  OldPrimaryFrozen(q)'
<1>1. \A m \in Nodes : mode'[m] = "rw" => mode[m] = "rw"
  BY Zenon DEF RestartMySQL, Undisturbed, BasicInv, TypeOK, MySQLTypeOK, Writable
<1>2. UNCHANGED <<pc, seen, ticket>> /\ OldPrimaryFrozen(q) /\ q \in Ops
  BY ZenonT(60) DEF opVars, etcdVars, HandoverInv, Switches
<1>3. pc[q] \in FrozenSteps => seen[q].primary \in Nodes
  BY <1>2 DEF BasicInv, SeenInv, HasRead, SeenOK, FrozenSteps, PromotionSteps, TaskSteps
<1>4. QED
  BY <1>1, <1>2, <1>3 DEF OldPrimaryFrozen, Writable

(* The old primary stays read-only from its confirmation to the record of  *)
(* the new one.                                                            *)
LEMMA FrozenStep ==
  ASSUME BasicInv, Undisturbed, Undisturbed', HandoverInv, [Next]_vars, NEW q \in Switches
  PROVE  OldPrimaryFrozen(q)'
<1>1. CASE ConfirmReadOnly(q)
  BY <1>1, FrozenConfirm DEF Switches
<1>2. ASSUME NEW o \in Ops, RunStatement(o), UNCHANGED <<etcdVars, opVars, ctlVars>> PROVE OldPrimaryFrozen(q)'
  BY <1>2, FrozenStatement
<1>3. ASSUME NEW n \in Nodes, RestartMySQL(n), UNCHANGED <<etcdVars, agentVars, opVars, ctlVars>>
      PROVE  OldPrimaryFrozen(q)'
  BY <1>3, FrozenRestart
<1>4. CASE mode' = mode /\ ~ConfirmReadOnly(q)
  <2>1. CheckedSteps \cap FrozenSteps = FrozenSteps
    BY DEF CheckedSteps, FrozenSteps
  <2>2. ASSUME pc'[q] \in FrozenSteps, ticket'[q] > 0
        PROVE  seen'[q] = seen[q] /\ ticket[q] > 0 /\ pc[q] \in FrozenSteps
    BY <1>4, <2>1, <2>2, Entry DEF BasicInv
  <2>3. QED
    BY <1>4, <2>2 DEF HandoverInv, OldPrimaryFrozen, Writable
<1>5. ASSUME NEW n \in Nodes, NEW t \in Txns, Write(n, t) \/ Replicate(n, t) PROVE mode' = mode
  BY <1>5 DEF Write, Replicate
<1>6. CASE Servers
  BY <1>1, <1>3, <1>4, <1>5, <1>6 DEF Servers, MySQLStep
<1>7. CASE UNCHANGED mysqlVars
  BY <1>1, <1>4, <1>7 DEF mysqlVars
<1>8. QED
  BY <1>2, <1>6, <1>7, StepFrame

(* When an agent authorizes a promotion in an undisturbed system, no node  *)
(* is writable and no other promotion is under way.                        *)
LEMMA StartsFrozen ==
  ASSUME BasicInv, Undisturbed, Undisturbed', HandoverInv,
         NEW o \in Ops, VerifyOperation(o), UNCHANGED <<opVars, ctlVars>>,
         Promoting(o)', ~Promoting(o)
  PROVE  /\ o \in Switches /\ pc[o] = "promoting" /\ ticket[o] > 0
         /\ cluster.primary = seen[o].primary
         /\ \A q \in Ops : ~Promoting(q)
         /\ \A q \in Ops \ {o} : ~Promoting(q)'
         /\ \A n \in Nodes : ~Writable(n)
<1>1. /\ UNCHANGED <<pc, ticket, settled, req>>
      /\ hpc[o] = "operation" /\ \A q \in Ops \ {o} : hpc'[q] = hpc[q]
  BY DEF VerifyOperation, Step, opVars, etcdVars, BasicInv, TypeOK, AgentTypeOK
<1>2. pc[o] \in PromotionSteps /\ ticket[o] > 0
  BY <1>1 DEF Undisturbed
<1>3. o \in Switches
  BY <1>1 DEF BasicInv, CallInv, SettingCall, Switches
<1>4. pc[o] = "promoting"
  BY <1>1, <1>2, <1>3 DEF BasicInv, RequestInv, StepRequest, PromotionSteps
<1>5. pc[o] \in PastLock
  BY <1>4 DEF PastLock, TaskSteps
<1>6. \A q \in Ops : ~Promoting(q)
  BY <1>2, <1>5, PromoterHolds, LockHolder
<1>7. \A q \in Ops \ {o} : ~Promoting(q)'
  BY <1>1, <1>6 DEF Promoting
<1>8. cluster.primary = seen[o].primary /\ ~Writable(seen[o].primary)
  BY <1>2, <1>3, <1>4
  DEF HandoverInv, RecordHeld, OldPrimaryFrozen, CheckedSteps, FrozenSteps, PromotionSteps
<1>9. \A n \in Nodes : ~Writable(n)
  BY <1>6, <1>8 DEF HandoverInv, WriterIs
<1>10. QED
  BY <1>2, <1>3, <1>4, <1>6, <1>7, <1>8, <1>9

(* Recording the new primary ends the only promotion under way. *)
LEMMA RecordingPromotes ==
  ASSUME BasicInv, Undisturbed, NEW o \in Switches, CasTxn(o)
  PROVE  /\ Promoting(o)
         /\ cluster'.primary = call[o].target
         /\ \A q \in Ops : ~Promoting(q)'
         /\ UNCHANGED <<mode, executed, call>>
<1>1. o \in Ops /\ Promoting(o) /\ ticket[o] > 0 /\ pc[o] \in PastLock
  BY CasPromotes, PromoterHolds DEF Switches
<1>2. \A q \in Ops : Promoting(q) => q = o
  BY <1>1, PromoterHolds, LockHolder
<1>3. settled' = settled \cup {o} /\ UNCHANGED <<req, hpc, mode, executed, call>>
  BY <1>1 DEF CasTxn, agentVars, mysqlVars
<1>4. \A q \in Ops : ~Promoting(q)'
  BY <1>2, <1>3 DEF Promoting
<1>5. cluster'.primary = call[o].target
  BY <1>1, CasRecord, SMTT(30)
<1>6. QED
  BY <1>1, <1>3, <1>4, <1>5

(* SetAutoFailover changes neither the primary nor any promotion. *)
LEMMA SettingKeepsPrimary ==
  ASSUME BasicInv, NEW o \in Settings, CasTxn(o)
  PROVE  /\ cluster'.primary = cluster.primary
         /\ \A q \in Ops : Promoting(q)' <=> Promoting(q)
         /\ UNCHANGED <<mode, executed, call>>
<1>1. o \in Ops
  BY ControllerAssumption
<1>2. settled' = settled /\ UNCHANGED <<req, hpc, mode, executed, call>>
  BY DEF CasTxn, agentVars, mysqlVars, Switches
<1>3. cluster'.primary = cluster.primary
  BY <1>1, CasRecord
<1>4. QED
  BY <1>2, <1>3 DEF Promoting

(* A statement neither starts nor ends a promotion. *)
LEMMA StatementPromoting ==
  ASSUME BasicInv, NEW o \in Ops, RunStatement(o), UNCHANGED <<opVars, ctlVars>>
  PROVE  /\ \A q \in Ops : Promoting(q)' <=> Promoting(q)
         /\ UNCHANGED <<cluster, executed, call>>
<1>1. /\ UNCHANGED <<cluster, executed, call, req, settled>>
      /\ \A q \in Ops \ {o} : hpc'[q] = hpc[q]
      /\ hpc[o] \notin {"epoch", "operation", "forbidden"}
      /\ hpc'[o] \notin {"epoch", "operation", "forbidden"}
  BY StatementEffect DEF BasicInv, opVars, etcdVars, Steps
<1>2. QED
  BY <1>1 DEF Promoting

(* The only writable node is the recorded primary or the node being        *)
(* promoted.                                                               *)
LEMMA WriterStep ==
  ASSUME BasicInv, Undisturbed, Undisturbed', HandoverInv, [Next]_vars
  PROVE  /\ (\A o \in Ops : ~Promoting(o)') => WriterIs(cluster.primary)'
         /\ \A o \in Ops : Promoting(o)' => WriterIs(call[o].target)'
<1> DEFINE Goal == /\ (\A o \in Ops : ~Promoting(o)') => WriterIs(cluster.primary)'
                   /\ \A o \in Ops : Promoting(o)' => WriterIs(call[o].target)'
<1>1. CASE QuietStep
  BY <1>1 DEF QuietStep, HandoverInv, WriterIs
<1>2. ASSUME NEW o \in Ops, VerifyOperation(o), UNCHANGED <<opVars, ctlVars>> PROVE Goal
  <2>1. /\ UNCHANGED <<call, cluster, mode, settled, req>>
        /\ \A q \in Ops \ {o} : hpc'[q] = hpc[q]
        /\ hpc[o] = "operation"
    BY <1>2
    DEF VerifyOperation, Step, opVars, etcdVars, mysqlVars, BasicInv, TypeOK, AgentTypeOK
  <2>2. CASE Promoting(o)' /\ ~Promoting(o)
    <3>1. \A n \in Nodes : ~Writable(n)
      BY <1>2, <2>2, StartsFrozen, ZenonT(60)
    <3>2. QED
      BY <2>1, <3>1, Zenon DEF WriterIs, Writable
  <2>3. CASE ~(Promoting(o)' /\ ~Promoting(o))
    <3>1. \A q \in Ops : Promoting(q)' <=> Promoting(q)
      BY <2>1, <2>3 DEF Promoting
    <3>2. QED
      BY <2>1, <3>1 DEF HandoverInv, WriterIs, Writable
  <2>4. QED
    BY <2>2, <2>3
<1>3. ASSUME NEW o \in Ops, CasTxn(o) PROVE Goal
  <2>1. CASE o \in Switches
    BY <1>3, <2>1, RecordingPromotes DEF HandoverInv, WriterIs, Writable
  <2>2. CASE o \in Settings
    BY <1>3, <2>2, SettingKeepsPrimary, ZenonT(60) DEF HandoverInv, WriterIs, Writable
  <2>3. QED
    BY <2>1, <2>2 DEF Switches
<1>4. ASSUME NEW o \in Ops, RunStatement(o), UNCHANGED <<etcdVars, opVars, ctlVars>> PROVE Goal
  <2>1. /\ \A q \in Ops : Promoting(q)' <=> Promoting(q)
        /\ UNCHANGED <<cluster, call>>
    BY <1>4, StatementPromoting
  <2>2. \A n \in Nodes : Writable(n)' => Writable(n) \/ (n = req[o].node /\ hpc[o] = "roOff")
    BY <1>4, StatementEffect, ZenonT(60) DEF BasicInv
  <2>3. CASE hpc[o] = "roOff"
    <3>1. Promoting(o) /\ req[o].node = call[o].target
      BY <2>3, RoOffPromotes
    <3>2. \A q \in Ops : Promoting(q) => q = o
      BY <3>1, PromoterHolds, LockHolder
    <3>3. WriterIs(call[o].target)'
      BY <2>1, <2>2, <3>1, Zenon DEF HandoverInv, WriterIs
    <3>4. QED
      BY <2>1, <3>1, <3>2, <3>3
  <2>4. CASE hpc[o] # "roOff"
    BY <2>1, <2>2, <2>4, Zenon DEF HandoverInv, WriterIs
  <2>5. QED
    BY <2>3, <2>4
<1>5. ASSUME NEW n \in Nodes, NEW t \in Txns, Write(n, t) \/ Replicate(n, t),
             UNCHANGED <<etcdVars, agentVars, opVars, ctlVars>>
      PROVE  Goal
  BY <1>5, ZenonT(60)
  DEF Write, Replicate, etcdVars, agentVars, opVars, HandoverInv, WriterIs, Promoting, Writable
<1>6. QED
  BY <1>1, <1>2, <1>3, <1>4, <1>5, StepKinds, ZenonT(60) DEF Undisturbed

(* Only a client's write and replication change what a node has executed. *)
LEMMA DataStep ==
  ASSUME BasicInv, [Next]_vars
  PROVE  \/ executed' = executed
         \/ \E n \in Nodes, t \in Txns :
              (Write(n, t) \/ Replicate(n, t)) /\ UNCHANGED <<etcdVars, agentVars, opVars, ctlVars>>
<1>1. CASE UNCHANGED mysqlVars
  BY <1>1 DEF mysqlVars
<1>2. ASSUME NEW o \in Ops, RunStatement(o) PROVE executed' = executed
  BY <1>2, StatementEffect, Zenon DEF BasicInv
<1>3. CASE Servers
  BY <1>3 DEF Servers, MySQLStep, RestartMySQL
<1>4. QED
  BY <1>1, <1>2, <1>3, StepFrame

(* The agent answers a wait with success only if the node has the whole    *)
(* set.                                                                    *)
LEMMA WaitAnswer ==
  ASSUME BasicInv, NEW q \in Switches, AgentHandler(q), hpc'[q] = "ok", req[q].kind = "wait"
  PROVE  req[q].gtid \subseteq executed[req[q].node]
<1>t. /\ hpc \in [Ops -> Steps \cup Answers \cup {"none"}] /\ q \in Ops /\ HandlerRequest(q)
      /\ TypeOK /\ CallInv /\ RequestInv
  BY DEF BasicInv, TypeOK, AgentTypeOK, Switches, RequestInv
<1>1. CASE VerifyEpoch(q) \/ VerifyOperation(q) \/ CheckCaughtUp(q) \/ HandlerFails(q)
  BY <1>t, <1>1 DEF VerifyEpoch, VerifyOperation, CheckCaughtUp, HandlerFails, Step, FirstStep
<1>2. CASE CheckWritable(q) \/ PollReplica(q)
  BY <1>t, <1>2, SMTT(30) DEF CheckWritable, PollReplica, HandlerRequest
<1>3. CASE RunStatement(q)
  BY <1>t, <1>3, StatementEffect, ZenonT(60)
<1>4. CASE WaitForGTID(q)
  BY <1>4, SMTT(30) DEF WaitForGTID
<1>5. QED
  BY <1>1, <1>2, <1>3, <1>4, ZenonT(60) DEF AgentHandler, AgentStep

(* The request and its answer stay while a switch waits for the target to  *)
(* catch up.                                                               *)
LEMMA WaitKept ==
  ASSUME BasicInv, [Next]_vars, NEW q \in Switches, pc[q] = "catchingUp", pc'[q] = "catchingUp"
  PROVE  /\ req'[q] = req[q]
         /\ hpc'[q] = "ok" => hpc[q] = "ok" \/ AgentHandler(q)
<1>t. pc \in [Ops -> PCs] /\ TypeOK /\ q \in Ops /\ q \notin Settings
  BY ZenonT(60) DEF BasicInv, TypeOK, Switches
<1>1. CASE Kept(q)
  BY <1>1 DEF Kept
<1>2. ~OperationStep(q) /\ ~BeginSwitch(q) /\ ~BeginSetAutoFailover(q)
  BY <1>t, Zenon
  DEF OperationStep, GetCluster, CheckEpoch, NewSession, Lock, ReadState, PublishOperation,
      Recheck, CheckCandidate, StartTask, StartTaskFails, DemoteReply, ConfirmReadOnly,
      ReadGTID, WaitReply, PromoteReply, VerifyPromoted, CasGet, CasTxn, Reconfigure,
      ReplicaReply, CallFails, Finish, ReleaseOperation, Unlock, Goto, Outcomes, BeginSwitch,
      BeginSetAutoFailover
<1>3. CASE AgentHandler(q)
  BY <1>3, <1>t, AgentFrame, ZenonT(60) DEF AgentHandler, TypeOK
<1>4. CASE LeaseEnds(q)
  BY <1>4, SMTT(30) DEF LeaseEnds, agentVars
<1>5. QED
  BY <1>t, <1>1, <1>2, <1>3, <1>4, LocalStep, Zenon DEF OwnStep

(* A frozen old primary executes nothing new, unless its promoted          *)
(* successor has it.                                                       *)
LEMMA OldPrimaryData ==
  ASSUME BasicInv, Undisturbed, HandoverInv, WritesInv, [Next]_vars, NEW q \in Switches,
         pc[q] \in {"catchingUp", "promoting"}, ticket[q] > 0,
         NEW x, x \in executed'[seen[q].primary], x \notin executed[seen[q].primary]
  PROVE  pc[q] = "promoting" /\ x \in executed[call[q].target]
<1>1. PICK n \in Nodes, t \in Txns :
        (Write(n, t) \/ Replicate(n, t)) /\ UNCHANGED <<etcdVars, agentVars, opVars, ctlVars>>
  BY DataStep, SMTT(30)
<1>2. executed \in [Nodes -> SUBSET Txns] /\ source \in [Nodes -> Nodes \cup {None}] /\ q \in Ops
  BY ZenonT(60) DEF BasicInv, TypeOK, MySQLTypeOK, Switches
<1>3. n = seen[q].primary /\ x = t
  <2>1. executed' = [executed EXCEPT ![n] = @ \cup {t}]
    BY <1>1, Zenon DEF Write, Replicate
  <2>2. seen[q].primary \in Nodes
    BY <1>2, Zenon DEF BasicInv, SeenInv, HasRead, SeenOK, TaskSteps
  <2>3. QED
    BY <1>2, <2>1, <2>2, SMTT(30)
<1>4. ~Writable(n)
  BY <1>3, Zenon DEF HandoverInv, OldPrimaryFrozen, FrozenSteps, PromotionSteps
<1>5. source[n] \in Nodes /\ t \in executed[source[n]] /\ t \notin executed[n]
  BY <1>1, <1>2, <1>4, Zenon DEF Write, Replicate
<1>6. cluster.primary = n /\ pc[q] \in PastLock
  BY <1>3, Zenon DEF HandoverInv, RecordHeld, CheckedSteps, PromotionSteps, PastLock, TaskSteps
<1>7. ~\A o \in Ops : ~Promoting(o)
  BY <1>5, <1>6, Zenon DEF WritesInv, HasAll
<1>8. Promoting(q)
  BY <1>2, <1>6, <1>7, PromoterHolds, LockHolder, Zenon
<1>9. pc[q] = "promoting" /\ HasAll(call[q].target)
  BY <1>2, <1>8, PromoterHolds, Zenon DEF WritesInv, PromotionSteps
<1>10. QED
  BY <1>3, <1>5, <1>9, ZenonT(60) DEF HasAll

(* The set a switch waits for covers the old primary, and a target that    *)
(* has it lacks nothing.                                                   *)
LEMMA CaughtUpStep ==
  ASSUME BasicInv, Undisturbed, Undisturbed', HandoverInv, WritesInv, [Next]_vars,
         NEW q \in Switches
  PROVE  CaughtUp(q)'
<1>t. /\ TypeOK /\ CallInv /\ q \in Ops /\ CaughtUp(q) /\ StepRequest(q)
      /\ executed \in [Nodes -> SUBSET Txns] /\ req \in [Ops -> Request]
      /\ hpc \in [Ops -> Steps \cup Answers \cup {"none"}]
  BY Zenon DEF BasicInv, TypeOK, MySQLTypeOK, AgentTypeOK, RequestInv, WritesInv, Switches
<1>n. pc[q] \in {"gtid", "catchingUp", "promoting"} => call[q].target \in Nodes
  BY <1>t, Zenon DEF CallInv, SwitchCall
<1>m. \A n \in Nodes : executed[n] \subseteq executed'[n]
  BY <1>t, DataStep, ZenonT(60) DEF Write, Replicate
<1>1. ASSUME pc'[q] \in {"catchingUp", "promoting"}
      PROVE  /\ seen'[q] = seen[q] /\ call'[q] = call[q]
             /\ ticket'[q] > 0 => ticket[q] > 0
  <2>1. pc'[q] \in CheckedSteps
    BY <1>1, SMTT(30) DEF CheckedSteps, PromotionSteps
  <2>2. QED
    BY <1>t, <2>1, Entry, Zenon
<1>2. ASSUME pc'[q] = "catchingUp", hpc'[q] = "ok" PROVE req'[q].gtid \subseteq executed'[call'[q].target]
  <2>1. ~ReadGTID(q)
    BY <1>t, <1>2, Zenon DEF ReadGTID, Send
  <2>2. pc[q] = "catchingUp"
    BY <1>t, <1>2, <2>1, Entry, Zenon
  <2>3. req'[q] = req[q] /\ (hpc[q] = "ok" \/ AgentHandler(q))
    BY <1>2, <2>2, WaitKept, Zenon
  <2>4. req[q].kind = "wait" /\ req[q].node = call[q].target
    BY <1>t, <2>2, Zenon DEF StepRequest
  <2>5. req[q].gtid \subseteq executed[call[q].target]
    BY <1>t, <1>2, <2>2, <2>3, <2>4, WaitAnswer, ZenonT(60) DEF CaughtUp
  <2>6. QED
    BY <1>1, <1>2, <1>m, <1>n, <2>2, <2>3, <2>5, SMTT(30)
<1>3. ASSUME pc'[q] = "catchingUp", ticket'[q] > 0
      PROVE  executed'[seen'[q].primary] \subseteq req'[q].gtid
  <2>1. CASE ReadGTID(q)
    BY <1>t, <1>1, <1>3, <2>1, ZenonT(60) DEF ReadGTID, Send, NewRequest, mysqlVars
  <2>2. CASE ~ReadGTID(q)
    <3>1. pc[q] = "catchingUp" /\ ticket[q] > 0
      BY <1>t, <1>1, <1>3, <2>2, Entry, ZenonT(60)
    <3>2. req'[q] = req[q]
      BY <1>3, <3>1, WaitKept, Zenon
    <3>3. executed[seen[q].primary] \subseteq req[q].gtid
      BY <1>t, <3>1, ZenonT(60) DEF CaughtUp
    <3>4. QED
      BY <1>1, <1>3, <3>1, <3>2, <3>3, OldPrimaryData, ZenonT(60)
  <2>3. QED
    BY <2>1, <2>2, Zenon
<1>4. ASSUME pc'[q] = "promoting", ticket'[q] > 0
      PROVE  executed'[seen'[q].primary] \subseteq executed'[call'[q].target]
  <2>1. CASE WaitReply(q)
    <3>1. executed' = executed /\ pc[q] = "catchingUp" /\ hpc[q] = "ok"
      BY <2>1, Zenon DEF WaitReply, mysqlVars
    <3>2. QED
      BY <1>t, <1>1, <1>4, <3>1, Zenon DEF CaughtUp
  <2>2. CASE ~WaitReply(q)
    <3>1. pc[q] = "promoting" /\ ticket[q] > 0
      BY <1>t, <1>1, <1>4, <2>2, Entry, Zenon
    <3>2. executed[seen[q].primary] \subseteq executed[call[q].target]
      BY <1>t, <3>1, Zenon DEF CaughtUp
    <3>3. QED
      BY <1>1, <1>4, <1>m, <1>n, <3>1, <3>2, OldPrimaryData, ZenonT(60)
  <2>3. QED
    BY <2>1, <2>2, SMTT(30)
<1>5. QED
  BY <1>2, <1>3, <1>4, ZenonT(60) DEF CaughtUp

(* The recorded primary, or the node being promoted, has every             *)
(* transaction.                                                            *)
LEMMA HasAllStep ==
  ASSUME BasicInv, Undisturbed, Undisturbed', HandoverInv, WritesInv, [Next]_vars
  PROVE  /\ (\A o \in Ops : ~Promoting(o)') => HasAll(cluster.primary)'
         /\ \A o \in Ops : Promoting(o)' => HasAll(call[o].target)'
<1> DEFINE Goal == /\ (\A o \in Ops : ~Promoting(o)') => HasAll(cluster.primary)'
                   /\ \A o \in Ops : Promoting(o)' => HasAll(call[o].target)'
<1>1. CASE QuietStep
  BY <1>1, Zenon DEF QuietStep, WritesInv, HasAll
<1>2. ASSUME NEW o \in Ops, VerifyOperation(o), UNCHANGED <<opVars, ctlVars>> PROVE Goal
  <2>1. /\ UNCHANGED <<call, cluster, executed, settled, req>>
        /\ \A q \in Ops \ {o} : hpc'[q] = hpc[q]
        /\ hpc[o] = "operation"
    BY <1>2, Zenon
    DEF VerifyOperation, Step, opVars, etcdVars, mysqlVars, BasicInv, TypeOK, AgentTypeOK
  <2>2. CASE Promoting(o)' /\ ~Promoting(o)
    <3>1. /\ o \in Switches /\ pc[o] = "promoting" /\ ticket[o] > 0
          /\ cluster.primary = seen[o].primary
          /\ \A q \in Ops : ~Promoting(q)
          /\ \A q \in Ops \ {o} : ~Promoting(q)'
      BY <1>2, <2>2, StartsFrozen, Zenon
    <3>2. HasAll(cluster.primary) /\ executed[cluster.primary] \subseteq executed[call[o].target]
      BY <3>1, Zenon DEF WritesInv, CaughtUp
    <3>3. HasAll(call[o].target)
      BY <3>2, Zenon DEF HasAll
    <3>4. QED
      BY <2>1, <2>2, <3>1, <3>3, ZenonT(60) DEF HasAll
  <2>3. CASE ~(Promoting(o)' /\ ~Promoting(o))
    <3>1. \A q \in Ops : Promoting(q)' <=> Promoting(q)
      BY <2>1, <2>3, Zenon DEF Promoting
    <3>2. QED
      BY <2>1, <3>1, Zenon DEF WritesInv, HasAll
  <2>4. QED
    BY <2>2, <2>3, Zenon
<1>3. ASSUME NEW o \in Ops, CasTxn(o) PROVE Goal
  <2>1. CASE o \in Switches
    <3>1. /\ Promoting(o) /\ cluster'.primary = call[o].target
          /\ \A q \in Ops : ~Promoting(q)'
          /\ UNCHANGED <<executed, call>>
      BY <1>3, <2>1, RecordingPromotes, Zenon
    <3>2. HasAll(call[o].target)
      BY <3>1, Zenon DEF WritesInv
    <3>3. QED
      BY <3>1, <3>2, Zenon DEF HasAll
  <2>2. CASE o \in Settings
    BY <1>3, <2>2, SettingKeepsPrimary, Zenon DEF WritesInv, HasAll
  <2>3. QED
    BY <2>1, <2>2, Zenon DEF Switches
<1>4. ASSUME NEW o \in Ops, RunStatement(o), UNCHANGED <<etcdVars, opVars, ctlVars>> PROVE Goal
  BY <1>4, StatementPromoting, Zenon DEF WritesInv, HasAll
<1>5. ASSUME NEW n \in Nodes, NEW t \in Txns, Write(n, t) \/ Replicate(n, t),
             UNCHANGED <<etcdVars, agentVars, opVars, ctlVars>>
      PROVE  Goal
  <2>1. /\ UNCHANGED <<cluster, call>>
        /\ \A q \in Ops : Promoting(q)' <=> Promoting(q)
    BY <1>5, SMTT(30) DEF etcdVars, agentVars, opVars, Promoting
  <2>2. executed' = [executed EXCEPT ![n] = @ \cup {t}] /\ executed \in [Nodes -> SUBSET Txns]
    BY <1>5, ZenonT(60) DEF Write, Replicate, BasicInv, TypeOK, MySQLTypeOK
  <2>3. ASSUME NEW m \in Nodes, HasAll(m), WriterIs(m) PROVE HasAll(m)'
    <3>1. CASE Write(n, t)
      BY <2>2, <2>3, <3>1 DEF Write, HasAll, WriterIs
    <3>2. CASE Replicate(n, t)
      <4>1. source[n] \in Nodes
        BY <3>2, SMTT(30) DEF Replicate, BasicInv, TypeOK, MySQLTypeOK
      <4>2. t \in executed[m]
        BY <2>3, <3>2, <4>1, Zenon DEF Replicate, HasAll
      <4>3. QED
        BY <2>2, <2>3, <4>2 DEF HasAll
    <3>3. QED
      BY <1>5, <3>1, <3>2
  <2>4. cluster.primary \in Nodes
    BY DEF BasicInv, SeenInv
  <2>5. ASSUME NEW o \in Ops, Promoting(o) PROVE call[o].target \in Nodes
    <3>1. o \in Switches /\ pc[o] \in PromotionSteps
      BY <2>5, PromoterHolds, SMTT(30)
    <3>2. QED
      BY <3>1 DEF BasicInv, CallInv, SwitchCall, PromotionSteps
  <2>6. CASE \A o \in Ops : ~Promoting(o)
    BY <2>1, <2>3, <2>4, <2>6, SMTT(30) DEF WritesInv, HandoverInv, HasAll
  <2>7. CASE ~\A o \in Ops : ~Promoting(o)
    BY <2>1, <2>3, <2>5, <2>7, Zenon DEF WritesInv, HandoverInv, HasAll
  <2>8. QED
    BY <2>6, <2>7, ZenonT(60)
<1>6. QED
  BY <1>1, <1>2, <1>3, <1>4, <1>5, StepKinds, ZenonT(60) DEF Undisturbed

(* Initially only the recorded primary is writable and all nodes have the  *)
(* same data.                                                              *)
LEMMA HandoverInit == Init => HandoverInv /\ WritesInv
<1> SUFFICES ASSUME Init PROVE HandoverInv /\ WritesInv
  OBVIOUS
<1>1. PICK p \in Nodes : MySQLInit(p) /\ EtcdInit(p, Automatic # {})
  BY SMTT(30) DEF Init
<1>2. \A o \in Ops : pc[o] = "idle" /\ ~Promoting(o)
  BY SMTT(30) DEF Init, AgentInit, NoRequest, NewRequest, Promoting
<1>3. \A o \in Switches : RecordHeld(o) /\ OldPrimaryFrozen(o) /\ CaughtUp(o)
  BY <1>2, ZenonT(60)
  DEF Switches, RecordHeld, OldPrimaryFrozen, CaughtUp, CheckedSteps, FrozenSteps,
      PromotionSteps
<1>4. WriterIs(cluster.primary)
  BY <1>1 DEF MySQLInit, EtcdInit, WriterIs, Writable
<1>5. HasAll(cluster.primary)
  BY <1>1, Zenon DEF MySQLInit, EtcdInit, HasAll
<1>6. QED
  BY <1>2, <1>3, <1>4, <1>5, Zenon DEF HandoverInv, WritesInv

(* Every step keeps the inductive invariant. *)
LEMMA InvStep == IInv /\ [Next]_vars => IInv'
<1> SUFFICES ASSUME IInv, [Next]_vars PROVE IInv'
  OBVIOUS
<1>1. BasicInv /\ BasicInv'
  BY BasicStep DEF IInv
<1>2. SUFFICES ASSUME Undisturbed' PROVE HandoverInv' /\ WritesInv'
  BY <1>1 DEF IInv
<1>3. Undisturbed /\ HandoverInv /\ WritesInv
  BY <1>1, <1>2, UndisturbedBefore DEF IInv
<1>4. \A q \in Switches : RecordHeld(q)' /\ OldPrimaryFrozen(q)' /\ CaughtUp(q)'
  BY <1>1, <1>2, <1>3, RecordHeldStep, FrozenStep, CaughtUpStep
<1>5. HandoverInv'
  BY <1>1, <1>2, <1>3, <1>4, WriterStep, ZenonT(60) DEF HandoverInv, Switches
<1>6. WritesInv'
  BY <1>1, <1>2, <1>3, <1>4, HasAllStep, Zenon DEF WritesInv, Switches
<1>7. QED
  BY <1>5, <1>6

(* The inductive invariant holds in every state: while no promotion is     *)
(* interrupted, the record moves under the switch lock only, the old       *)
(* primary stays read-only from its confirmation on, and the target has    *)
(* its data.                                                               *)
THEOREM InductiveInvariant == Spec => []IInv
<1>1. Init => IInv
  BY BasicInit, HandoverInit DEF IInv
<1>2. QED
  BY <1>1, InvStep, PTL DEF Spec

(* At most one node accepts writes while no promotion is interrupted, for  *)
(* any number of nodes, controllers and overlapping switches, crashes,     *)
(* expired leases and lost answers included: the order demote, confirm,    *)
(* promote in Switch under AcquireSwitchLock, with the agents'             *)
(* authorization, is enough.                                               *)
THEOREM OneWriterHolds == Spec => []OneWriter
<1>1. IInv => OneWriter
  <2> SUFFICES ASSUME IInv, Undisturbed, NEW m \in Nodes, NEW n \in Nodes, Writable(m), Writable(n)
               PROVE  m = n
    BY DEF OneWriter
  <2>1. HandoverInv
    BY DEF IInv
  <2>2. CASE \A o \in Ops : ~Promoting(o)
    BY <2>1, <2>2 DEF HandoverInv, WriterIs
  <2>3. CASE \E o \in Ops : Promoting(o)
    BY <2>1, <2>3 DEF HandoverInv, WriterIs
  <2>4. QED
    BY <2>2, <2>3
<1>2. QED
  BY <1>1, InductiveInvariant, PTL

(* While no promotion is interrupted, a switch loses no committed          *)
(* transaction: WaitForGTID on the set read from the frozen old primary    *)
(* makes the target complete.                                              *)
THEOREM NoLostWriteHolds == Spec => []NoLostWrite
<1>1. IInv => NoLostWrite
  <2> SUFFICES ASSUME IInv, Undisturbed
               PROVE  \E m \in Nodes :
                        /\ m = cluster.primary \/ \E o \in Ops : Promoting(o) /\ m = call[o].target
                        /\ \A n \in Nodes : executed[n] \subseteq executed[m]
    BY DEF NoLostWrite
  <2>1. WritesInv /\ BasicInv
    BY DEF IInv
  <2>2. CASE \A o \in Ops : ~Promoting(o)
    <3>1. cluster.primary \in Nodes /\ HasAll(cluster.primary)
      BY <2>1, <2>2 DEF WritesInv, BasicInv, SeenInv
    <3>2. QED
      BY <3>1 DEF HasAll
  <2>3. ASSUME NEW o \in Ops, Promoting(o)
        PROVE  call[o].target \in Nodes /\ HasAll(call[o].target)
    <3>1. o \in Switches /\ pc[o] \in PromotionSteps
      BY <2>1, <2>3, PromoterHolds, ZenonT(60)
    <3>2. call[o].target \in Nodes
      BY <2>1, <3>1 DEF BasicInv, CallInv, SwitchCall, PromotionSteps
    <3>3. QED
      BY <2>1, <2>3, <3>2, Zenon DEF WritesInv
  <2>4. QED
    BY <2>2, <2>3 DEF HasAll
<1>2. QED
  BY <1>1, InductiveInvariant, PTL
=============================================================================
