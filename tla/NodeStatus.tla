----------------------------- MODULE NodeStatus -----------------------------
(***************************************************************************)
(* model.NodeStatus as the probes and the switches read it.  Addresses,    *)
(* UUIDs, times and texts are left out.                                    *)
(***************************************************************************)
EXTENDS HACluster

CONSTANT MaxReplicaLagSeconds  \* config.MaxReplicaLagSeconds

ASSUME LagAssumption == MaxReplicaLagSeconds \in Nat

(* A NULL Seconds_Behind_Source. *)
NoLag == -1

Lags == {NoLag} \cup 0..(MaxReplicaLagSeconds + 1)

NoReport(reachable) ==
  [reachable |-> reachable, healthy |-> FALSE, role |-> "unknown",
   readOnly |-> FALSE, superReadOnly |-> FALSE,
   replica |-> FALSE, io |-> FALSE, sql |-> FALSE, lag |-> NoLag]

PrimaryReport ==
  [reachable |-> TRUE, healthy |-> TRUE, role |-> "primary",
   readOnly |-> FALSE, superReadOnly |-> FALSE,
   replica |-> FALSE, io |-> FALSE, sql |-> FALSE, lag |-> NoLag]

(* row: SHOW REPLICA STATUS could be read and had a row. *)
ReadOnlyReport(super, row, io, sql, lag) ==
  [reachable |-> TRUE, healthy |-> row /\ io /\ sql /\ lag # NoLag, role |-> "replica",
   readOnly |-> TRUE, superReadOnly |-> super,
   replica |-> row, io |-> row /\ io, sql |-> row /\ sql, lag |-> lag]

AllReports ==
  {NoReport(FALSE), NoReport(TRUE), PrimaryReport, ReadOnlyReport(TRUE, FALSE, FALSE, FALSE, NoLag)}
    \cup {ReadOnlyReport(TRUE, TRUE, row.io, row.sql, row.lag) :
            row \in [io : BOOLEAN, sql : BOOLEAN, lag : Lags]}

(* What Switch asks of its target before it records a task; an automatic   *)
(* dry run asks for less.                                                  *)
EligibleReport(r, reportOnly) ==
  /\ r.role = "replica"
  /\ IF reportOnly
       THEN r.reachable /\ r.replica /\ r.sql
       ELSE r.healthy /\ r.replica /\ r.io /\ r.sql
              /\ r.lag # NoLag /\ r.lag <= MaxReplicaLagSeconds
=============================================================================
