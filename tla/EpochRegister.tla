--------------------------- MODULE EpochRegister ---------------------------
(***************************************************************************)
(* What the controllers promise about the recorded cluster state: every    *)
(* change of the primary takes the next epoch, an epoch has one primary,   *)
(* and nothing else moves either of them.  The automatic-failover flag is  *)
(* set at any time; a switch may also write back an older value of it.     *)
(***************************************************************************)
EXTENDS HACluster

VARIABLE register

RegisterInit ==
  \E p \in Nodes, a \in BOOLEAN :
    register = [primary |-> p, epoch |-> 0, auto |-> a]

Advance ==
  \E p \in Nodes \ {register.primary}, a \in BOOLEAN :
    register' = [primary |-> p, epoch |-> register.epoch + 1, auto |-> a]

SetAuto ==
  \E a \in BOOLEAN : register' = [register EXCEPT !.auto = a]

RegisterSpec == RegisterInit /\ [][Advance \/ SetAuto]_register
=============================================================================
