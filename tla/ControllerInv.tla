--------------------------- MODULE ControllerInv ---------------------------
(***************************************************************************)
(* The inductive invariant behind ImplementsRegister, OneWriter and        *)
(* NoLostWrite: an invariant of one step that implies the three of them.   *)
(* HandoverProofs proves it; TLC evaluates it on a small instance.         *)
(***************************************************************************)
EXTENDS Controller

(* Where a switch has not sent a request yet. *)
BeforeRequests ==
  {"idle", "getCluster", "checkEpoch", "newSession", "lockWait",
   "putOperation", "recheck", "candidate", "putTask"}

SettingSteps ==
  {"idle", "newSession", "lockWait", "readState", "casGet", "casTxn",
   "unlock", "done", "crashed"}

(* Where seen[o] is what the operation read from Etcd and will use. *)
HasRead(o) ==
  \/ o \in Switches /\ pc[o] \in
       {"checkEpoch", "newSession", "lockWait", "putOperation", "recheck",
        "candidate", "putTask"} \cup TaskSteps
  \/ o \in Settings /\ pc[o] \in {"casGet", "casTxn"}

(* What belongs to one operation, and the steps that can change it: those  *)
(* of the operation and of its requests, and the crash of its controller.  *)
Kept(q) ==
  /\ UNCHANGED <<call[q], seen[q], casRev[q], req[q], hpc[q], ticket[q]>>
  /\ q \in settled' <=> q \in settled

OwnStep(q) ==
  BeginSwitch(q) \/ BeginSetAutoFailover(q) \/ OperationStep(q) \/ AgentHandler(q) \/ LeaseEnds(q)

(* The two kinds of calls keep to their own steps and arguments. *)
SettingCall(o) ==
  pc[o] \in SettingSteps /\ req[o].kind = "none" /\ hpc[o] = "none"

SwitchCall(o) ==
  /\ pc[o] # "readState"
  /\ pc[o] # "idle" => call[o].target \in Nodes /\ call[o].ctl \in Controllers

CallInv ==
  /\ \A o \in Settings : SettingCall(o)
  /\ \A o \in Switches : SwitchCall(o)

(* What an operation read is never ahead of the record, and agrees with it *)
(* on the primary as long as the epoch is the same: an epoch determines    *)
(* its primary.                                                            *)
SeenOK(o) ==
  /\ seen[o].primary \in Nodes
  /\ seen[o].epoch <= cluster.epoch
  /\ seen[o].epoch = cluster.epoch => seen[o].primary = cluster.primary
  /\ o \in Switches => call[o].target # seen[o].primary

SeenInv ==
  /\ cluster.primary \in Nodes
  /\ \A o \in Ops : HasRead(o) => SeenOK(o)

(* The compared revision still stands for the compared epoch. *)
CasInv ==
  \A o \in Ops :
    /\ casRev[o] <= clusterRev
    /\ pc[o] = "casTxn" /\ casRev[o] = clusterRev => cluster.epoch = seen[o].epoch

(* Lock keys are ordered by their revisions, and an operation past the     *)
(* lock owns it for as long as its key exists.                             *)
PastLock ==
  LockedSteps \cup TaskSteps \cup Outcomes \cup {"deleteOperation"}

LockInv ==
  /\ \A o \in Ops : ticket[o] < nextTicket
  /\ \A o \in Ops : pc[o] \in PastLock /\ ticket[o] > 0 => OwnsLock(o)

(* The authorized operation is one whose lease is alive. *)
AuthorizedLease == operation \in lease \cup {None}

(* The request that goes with each step of a switch. *)
StepRequest(o) ==
  /\ pc[o] \in BeforeRequests => req[o].kind = "none"
  /\ pc[o] \in {"demoting", "confirm", "gtid"} => req[o].kind = "demote"
  /\ pc[o] = "catchingUp" => req[o].kind = "wait"
  /\ pc[o] = "promoting" => req[o].kind = "promote"
  /\ pc[o] \in {"verify", "casGet", "casTxn"} => req[o].kind = "promote" /\ hpc[o] = "ok"
  /\ pc[o] = "reconfigure" => req[o].kind \in {"promote", "replica"} /\ hpc[o] = "ok"
  /\ pc[o] = "reconfiguring" => req[o].kind = "replica"
  /\ req[o].kind \in {"wait", "promote"} => req[o].node = call[o].target
  /\ o \in settled =>
       /\ pc[o] \notin PromotionSteps
       /\ req[o].kind = "replica" \/ (req[o].kind = "promote" /\ hpc[o] = "ok")

(* The handler steps that go with each kind of request. *)
HandlerRequest(o) ==
  /\ req[o].kind = "none" <=> hpc[o] = "none"
  /\ req[o].kind # "none" => req[o].node \in Nodes
  /\ req[o].kind = "replica" => req[o].source \in Nodes
  /\ hpc[o] = "gtid" => req[o].kind = "wait"
  /\ hpc[o] \in {"status", "superOff", "roOff", "written"} => req[o].kind = "promote"
  /\ hpc[o] \in {"stop", "reset"} => req[o].kind \in {"promote", "replica"}
  /\ hpc[o] \in {"change", "start", "poll"} => req[o].kind = "replica"
  /\ hpc[o] \in {"superOn", "roOn"} => req[o].kind \in {"demote", "replica"}

RequestInv == \A o \in Switches : StepRequest(o) /\ HandlerRequest(o)

BasicInv ==
  TypeOK /\ CallInv /\ SeenInv /\ CasInv /\ LockInv /\ RequestInv /\ settled \subseteq Switches

(* The task that goes with each step of a switch: there is none before the *)
(* first request, it runs until the deferred functions write its outcome,  *)
(* and the loop over the other nodes starts with the record.               *)
TaskOf(o) ==
  /\ pc[o] \in BeforeRequests => tasks[o] = "none"
  /\ pc[o] \in TaskSteps \cup Outcomes => tasks[o] = "running"
  /\ tasks[o] \in {"none", "dry-run"} \/ pc[o] = "dry-run" => req[o].kind = "none"
  /\ tasks[o] = "completed" \/ pc[o] \in LoopSteps => Recorded(o)

TaskInv == \A o \in Switches : TaskOf(o)

(* Steps of a switch between the second look at the state and its record,  *)
(* and those after the old primary was confirmed read-only.                *)
CheckedSteps ==
  {"candidate", "putTask", "demoting", "confirm", "gtid", "catchingUp"} \cup PromotionSteps
FrozenSteps == {"gtid", "catchingUp"} \cup PromotionSteps

(* What an undisturbed system keeps: the record moves under the lock only, *)
(* the old primary stays read-only from its confirmation to the record of  *)
(* the new one, and only the recorded primary or the node being promoted   *)
(* accepts writes ...                                                      *)
RecordHeld(o) ==
  pc[o] \in CheckedSteps /\ ticket[o] > 0 =>
    cluster.epoch = seen[o].epoch /\ cluster.primary = seen[o].primary

OldPrimaryFrozen(o) ==
  pc[o] \in FrozenSteps /\ ticket[o] > 0 => ~Writable(seen[o].primary)

WriterIs(m) == \A n \in Nodes : Writable(n) => n = m

HandoverInv ==
  /\ \A o \in Switches : RecordHeld(o) /\ OldPrimaryFrozen(o)
  /\ (\A o \in Ops : ~Promoting(o)) => WriterIs(cluster.primary)
  /\ \A o \in Ops : Promoting(o) => WriterIs(call[o].target)

(* ... and that node has every transaction: the set that the switch waits  *)
(* for is complete, because the old primary is frozen when it is read.     *)
CaughtUp(o) ==
  /\ pc[o] = "catchingUp" /\ hpc[o] = "ok" => req[o].gtid \subseteq executed[call[o].target]
  /\ pc[o] = "catchingUp" /\ ticket[o] > 0 => executed[seen[o].primary] \subseteq req[o].gtid
  /\ pc[o] = "promoting" /\ ticket[o] > 0 =>
       executed[seen[o].primary] \subseteq executed[call[o].target]

HasAll(m) == \A n \in Nodes : executed[n] \subseteq executed[m]

WritesInv ==
  /\ \A o \in Switches : CaughtUp(o)
  /\ (\A o \in Ops : ~Promoting(o)) => HasAll(cluster.primary)
  /\ \A o \in Ops : Promoting(o) => HasAll(call[o].target)

(* A step that none of the above can notice: nothing recorded, executed,   *)
(* made writable or promoted changes.                                      *)
QuietStep ==
  /\ cluster' = cluster /\ executed' = executed
  /\ \A n \in Nodes : Writable(n)' => Writable(n)
  /\ \A q \in Ops :
       /\ Promoting(q)' <=> Promoting(q)
       /\ Promoting(q) => call'[q].target = call[q].target

IInv == BasicInv /\ (Undisturbed => HandoverInv /\ WritesInv)
=============================================================================
