------------------------------- MODULE Agent -------------------------------
(***************************************************************************)
(* The mysql-agent HTTP handlers of internal/agent/server.go.  A           *)
(* controller operation waits for the answer to one request before it      *)
(* sends the next, and sends none after a request that failed, so the      *)
(* requests at the agents are a function of the operation.  A handler goes *)
(* on when its operation has stopped waiting for the answer.               *)
(***************************************************************************)
EXTENDS MySQL, EtcdStore

VARIABLES
  req,  \* the operation's latest request to an agent
  hpc   \* what its handler does next, or how it answered

agentVars == <<req, hpc>>

Kinds == {"none", "demote", "wait", "promote", "replica"}

Request ==
  [kind : Kinds, node : Nodes \cup {None}, fromEpoch : Nat,
   gtid : SUBSET Txns, source : Nodes \cup {None}]

NewRequest(k, n, e, g, s) ==
  [kind |-> k, node |-> n, fromEpoch |-> e, gtid |-> g, source |-> s]

NoRequest == NewRequest("none", None, 0, {}, None)

(* 200, 409 (and every other failure after authorization) and 403 (and     *)
(* every failure up to it).                                                *)
Answers == {"ok", "conflict", "forbidden"}

Steps ==
  {"epoch", "operation", "status", "stop", "reset", "change", "start",
   "superOn", "roOn", "superOff", "roOff", "written", "poll", "gtid"}

AgentTypeOK ==
  /\ req \in [Ops -> Request]
  /\ hpc \in [Ops -> Steps \cup Answers \cup {"none"}]

AgentInit ==
  /\ req = [o \in Ops |-> NoRequest]
  /\ hpc = [o \in Ops |-> "none"]

(* The client's POST reaches the agent of r.node. *)
Send(o, r) ==
  /\ req' = [req EXCEPT ![o] = r]
  /\ hpc' = [hpc EXCEPT ![o] = "epoch"]

Step(o, s) ==
  /\ hpc' = [hpc EXCEPT ![o] = s]
  /\ UNCHANGED req

-----------------------------------------------------------------------------
(* VerifySwitchOperation reads the cluster epoch, then the active          *)
(* operation, in two requests to Etcd.                                     *)
VerifyEpoch(o) ==
  /\ hpc[o] = "epoch"
  /\ Step(o, IF cluster.epoch \in {req[o].fromEpoch, req[o].fromEpoch + 1}
               THEN "operation" ELSE "forbidden")
  /\ UNCHANGED <<mysqlVars, etcdVars>>

FirstStep(kind) ==
  CASE kind = "demote"  -> "superOn"
    [] kind = "wait"    -> "gtid"
    [] kind = "promote" -> "status"
    [] kind = "replica" -> "stop"

(* Mutant of VerifyOperation: only the epochs are verified. *)
VerifyEpochOnly(o) ==
  /\ hpc[o] = "operation"
  /\ Step(o, FirstStep(req[o].kind))
  /\ UNCHANGED <<mysqlVars, etcdVars>>

VerifyOperation(o) ==
  /\ hpc[o] = "operation"
  /\ Step(o, IF operation = o THEN FirstStep(req[o].kind) ELSE "forbidden")
  /\ UNCHANGED <<mysqlVars, etcdVars>>

-----------------------------------------------------------------------------
(* Mutant of WaitForGTID: the result of WAIT_FOR_EXECUTED_GTID_SET is not *)
(* looked at.                                                             *)
WaitForNothing(o) ==
  /\ hpc[o] = "gtid"
  /\ req[o].gtid # {}
  /\ Step(o, "ok")
  /\ UNCHANGED <<mysqlVars, etcdVars>>

(* waitGTID: an empty set is refused. *)
WaitForGTID(o) ==
  /\ hpc[o] = "gtid"
  /\ req[o].gtid # {}
  /\ req[o].gtid \subseteq executed[req[o].node]
  /\ Step(o, "ok")
  /\ UNCHANGED <<mysqlVars, etcdVars>>

(* promote: the node must be a healthy replica with no lag. *)
CheckCaughtUp(o) ==
  /\ hpc[o] = "status"
  /\ \E st \in Status(req[o].node) :
       st.healthy /\ st.role = "replica" /\ st.replica /\ st.io /\ st.sql /\ st.lag = 0
  /\ Step(o, "stop")
  /\ UNCHANGED <<mysqlVars, etcdVars>>

(* promote: the node must report that it is a healthy primary. *)
CheckWritable(o) ==
  /\ hpc[o] = "written"
  /\ \E st \in Status(req[o].node) : st.healthy /\ st.role = "primary"
  /\ Step(o, "ok")
  /\ UNCHANGED <<mysqlVars, etcdVars>>

(* replica: poll until the node reports a healthy replica. *)
PollReplica(o) ==
  /\ hpc[o] = "poll"
  /\ \E st \in Status(req[o].node) :
       st.healthy /\ st.role = "replica" /\ st.replica /\ st.io /\ st.sql
  /\ Step(o, "ok")
  /\ UNCHANGED <<mysqlVars, etcdVars>>

(* The statements of mysql.Client.Demote, Promote and ReconfigureReplica,  *)
(* one at a time.                                                          *)
RunStatement(o) ==
  LET n == req[o].node
      k == req[o].kind
  IN
  /\ \/ /\ hpc[o] = "stop"
        /\ k = "replica" => req[o].source # n
        /\ StopReplica(n)
        /\ Step(o, "reset")
     \/ /\ hpc[o] = "reset"
        /\ ResetReplicaAll(n)
        /\ Step(o, IF k = "promote" THEN "superOff" ELSE "change")
     \/ /\ hpc[o] = "change"
        /\ ChangeReplicationSource(n, req[o].source)
        /\ Step(o, "start")
     \/ /\ hpc[o] = "start"
        /\ StartReplica(n)
        /\ Step(o, "superOn")
     \/ /\ hpc[o] = "superOn"
        /\ SetSuperReadOnly(n, TRUE)
        /\ Step(o, "roOn")
     \/ /\ hpc[o] = "roOn"
        /\ SetGlobalReadOnly(n, TRUE)
        /\ Step(o, IF k = "demote" THEN "ok" ELSE "poll")
     \/ /\ hpc[o] = "superOff"
        /\ SetSuperReadOnly(n, FALSE)
        /\ Step(o, "roOff")
     \/ /\ hpc[o] = "roOff"
        /\ SetGlobalReadOnly(n, FALSE)
        /\ Step(o, "written")
  /\ UNCHANGED etcdVars

(* A request lost on its way, Etcd out of reach, a refused or failed        *)
(* statement, a failed check, a cancelled request context or a timeout.    *)
HandlerFails(o) ==
  /\ hpc[o] \in Steps
  /\ Step(o, IF hpc[o] \in {"epoch", "operation"} THEN "forbidden" ELSE "conflict")
  /\ UNCHANGED <<mysqlVars, etcdVars>>

AgentStep(o) ==
  \/ VerifyEpoch(o) \/ VerifyOperation(o)
  \/ WaitForGTID(o)
  \/ CheckCaughtUp(o) \/ CheckWritable(o)
  \/ PollReplica(o)
  \/ RunStatement(o)
  \/ HandlerFails(o)
=============================================================================
