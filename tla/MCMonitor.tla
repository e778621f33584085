----------------------------- MODULE MCMonitor -----------------------------
(***************************************************************************)
(* Instances of Monitor: what the servers may report.                      *)
(***************************************************************************)
EXTENDS Monitor

Down == NoReport(FALSE)
InStep == ReadOnlyReport(TRUE, TRUE, TRUE, TRUE, 0)
WithoutSource == ReadOnlyReport(TRUE, TRUE, FALSE, TRUE, NoLag)

(* Node 1 is a primary or down; the others follow it or have lost it. *)
OnePrimary == [n \in Nodes |-> IF n = 1 THEN {PrimaryReport, Down} ELSE {InStep, WithoutSource}]

(* Node 1 is a primary or down; the others do not change. *)
FailingPrimary == [n \in Nodes |-> IF n = 1 THEN {PrimaryReport, Down} ELSE {InStep}]
=============================================================================
