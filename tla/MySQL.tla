------------------------------- MODULE MySQL -------------------------------
(***************************************************************************)
(* The MySQL servers as internal/mysql/client.go drives them.  Each SQL    *)
(* statement the agent issues is an operator on one node; what a statement *)
(* does to the server is MySQL's own behaviour (external).  Transactions   *)
(* are identified by their GTID, and a GTID set is a set of transactions.  *)
(***************************************************************************)
EXTENDS NodeStatus

CONSTANTS
  Txns,                  \* GTIDs of all transactions
  Restored,              \* those that every node has from the start
  BootWritable,          \* nodes whose my.cnf does not say read_only=ON
  MayRestart             \* nodes whose mysqld restarts in this model

ASSUME MySQLAssumption ==
  /\ Restored \subseteq Txns
  /\ BootWritable \subseteq Nodes
  /\ MayRestart \subseteq Nodes

VARIABLES
  mode,      \* "rw", "ro" (read_only) or "sro" (super_read_only too)
  source,    \* the replication source, None after RESET REPLICA ALL
  running,   \* are the replica threads started?
  executed,  \* @@gtid_executed
  tainted    \* history: nodes that a restart has made writable

mysqlVars == <<mode, source, running, executed, tainted>>

MySQLTypeOK ==
  /\ mode \in [Nodes -> {"rw", "ro", "sro"}]
  /\ source \in [Nodes -> Nodes \cup {None}]
  /\ running \in [Nodes -> BOOLEAN]
  /\ executed \in [Nodes -> SUBSET Txns]
  /\ tainted \in SUBSET Nodes

(* One writable primary p, every other node a running read-only replica of *)
(* p, all with the same data.                                              *)
MySQLInit(p) ==
  /\ mode = [n \in Nodes |-> IF n = p THEN "rw" ELSE "sro"]
  /\ source = [n \in Nodes |-> IF n = p THEN None ELSE p]
  /\ running = [n \in Nodes |-> n # p]
  /\ executed = [n \in Nodes |-> Restored]
  /\ tainted = {}

Writable(n) == mode[n] = "rw"

-----------------------------------------------------------------------------
(* What Client.Status may report of node n: nothing when the ping fails,   *)
(* no role when reading the flags fails; the primary role when both        *)
(* read-only flags are off; otherwise the replica role, with the row of    *)
(* SHOW REPLICA STATUS if there is one and it can be read.  A started      *)
(* thread may have failed by itself, and the lag is any value.             *)
ReplicaReport(n, row, io, sql, lag) ==
  ReadOnlyReport(mode[n] = "sro", row, io, sql, lag)

ReplicaReports(n) ==
  {ReplicaReport(n, row, io, sql, lag) :
     row \in {FALSE, source[n] # None}, io \in {FALSE, running[n]},
     sql \in {FALSE, running[n]}, lag \in Lags}

Status(n) ==
  {NoReport(FALSE), NoReport(TRUE)}
    \cup (IF Writable(n) THEN {PrimaryReport} ELSE ReplicaReports(n))

-----------------------------------------------------------------------------
(* SQL statements.  A statement that the server refuses in the current     *)
(* state is disabled: the caller's error path is an action of the agent.   *)

StopReplica(n) ==
  /\ running' = [running EXCEPT ![n] = FALSE]
  /\ UNCHANGED <<mode, source, executed, tainted>>

(* Refused while the replica threads run. *)
ResetReplicaAll(n) ==
  /\ ~running[n]
  /\ source' = [source EXCEPT ![n] = None]
  /\ UNCHANGED <<mode, running, executed, tainted>>

(* Refused while the replica threads run. *)
ChangeReplicationSource(n, s) ==
  /\ ~running[n]
  /\ source' = [source EXCEPT ![n] = s]
  /\ UNCHANGED <<mode, running, executed, tainted>>

(* Refused when no source is configured. *)
StartReplica(n) ==
  /\ source[n] # None
  /\ running' = [running EXCEPT ![n] = TRUE]
  /\ UNCHANGED <<mode, source, executed, tainted>>

(* SET GLOBAL super_read_only; ON turns read_only on as well. *)
SetSuperReadOnly(n, on) ==
  /\ mode' = [mode EXCEPT ![n] = IF on THEN "sro" ELSE IF @ = "sro" THEN "ro" ELSE @]
  /\ UNCHANGED <<source, running, executed, tainted>>

(* SET GLOBAL read_only; OFF turns super_read_only off as well. *)
SetGlobalReadOnly(n, on) ==
  /\ mode' = [mode EXCEPT ![n] = IF ~on THEN "rw" ELSE IF @ = "rw" THEN "ro" ELSE @]
  /\ UNCHANGED <<source, running, executed, tainted>>

-----------------------------------------------------------------------------
(* The servers' own steps. *)

(* A client commits a new transaction on a writable node. *)
Write(n, t) ==
  /\ Writable(n)
  /\ \A m \in Nodes : t \notin executed[m]
  /\ executed' = [executed EXCEPT ![n] = @ \cup {t}]
  /\ UNCHANGED <<mode, source, running, tainted>>

(* A started replica fetches and applies a transaction of its source. *)
Replicate(n, t) ==
  /\ running[n]
  /\ source[n] # None
  /\ t \in executed[source[n]] \ executed[n]
  /\ executed' = [executed EXCEPT ![n] = @ \cup {t}]
  /\ UNCHANGED <<mode, source, running, tainted>>

(* mysqld restarts: SET GLOBAL is not persistent, so the read-only flags   *)
(* come from my.cnf again; a configured replica starts by itself.          *)
RestartMySQL(n) ==
  /\ n \in MayRestart
  /\ mode' = [mode EXCEPT ![n] = IF n \in BootWritable THEN "rw" ELSE "sro"]
  /\ running' = [running EXCEPT ![n] = source[n] # None]
  /\ tainted' = IF n \in BootWritable /\ ~Writable(n) THEN tainted \cup {n} ELSE tainted
  /\ UNCHANGED <<source, executed>>

MySQLStep ==
  \E n \in Nodes :
    \/ \E t \in Txns : Write(n, t) \/ Replicate(n, t)
    \/ RestartMySQL(n)
=============================================================================
