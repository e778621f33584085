----------------------------- MODULE HACluster -----------------------------
(***************************************************************************)
(* What every module of the specification shares: the identities in the    *)
(* configuration and the cluster state that the controllers keep in Etcd.  *)
(***************************************************************************)
EXTENDS Integers

CONSTANTS
  Nodes,  \* the configured MySQL nodes
  None    \* no node, no operation

ASSUME NoneAssumption == None \notin Nodes

(* model.ClusterState; a name and a timestamp are left out. *)
ClusterState == [primary : Nodes \cup {None}, epoch : Nat, auto : BOOLEAN]
=============================================================================
