---------------------------- MODULE TargetChoice ----------------------------
(***************************************************************************)
(* The functions of internal/ha/controller.go that choose among the nodes. *)
(* st maps the nodes to the statuses of the last probe (Controller.        *)
(* statuses).  Node identities are numbers, ordered as Go orders strings.  *)
(***************************************************************************)
EXTENDS NodeStatus

ASSUME OrderAssumption == Nodes \subseteq Nat

(* detectPrimary returns the first healthy primary that the iteration over *)
(* the map meets: any of them.                                             *)
DetectedPrimaries(st) ==
  LET found == {n \in Nodes : st[n].healthy /\ st[n].role = "primary"}
  IN  IF found = {} THEN {None} ELSE found

ReplicaLag(r) == IF r.replica /\ r.lag # NoLag THEN r.lag ELSE 0

Candidates(st, exclude) ==
  {n \in Nodes \ {exclude} :
     st[n].healthy /\ st[n].role = "replica" /\ ReplicaLag(st[n]) <= MaxReplicaLagSeconds}

(* The comparison that chooseTarget sorts its candidates by. *)
Before(st, i, j) ==
  IF ReplicaLag(st[i]) = ReplicaLag(st[j]) THEN i < j
  ELSE ReplicaLag(st[i]) < ReplicaLag(st[j])

(* Mutant of ChooseTarget: the replicas are ordered by their names only. *)
ChooseFirstTarget(st, exclude) ==
  LET fit == Candidates(st, exclude)
  IN  IF fit = {} THEN None ELSE CHOOSE i \in fit : \A j \in fit \ {i} : i < j

ChooseTarget(st, exclude) ==
  LET fit == Candidates(st, exclude)
  IN  IF fit = {} THEN None
      ELSE CHOOSE i \in fit : \A j \in fit \ {i} : Before(st, i, j)

(* Mutant of DryRunCandidates: a dry run asks for a running IO thread. *)
DryRunCandidatesWithIO(st, exclude) ==
  {n \in Nodes \ {exclude} :
     st[n].reachable /\ st[n].role = "replica" /\ st[n].replica /\ st[n].io}

DryRunCandidates(st, exclude) ==
  {n \in Nodes \ {exclude} :
     st[n].reachable /\ st[n].role = "replica" /\ st[n].replica /\ st[n].sql}

ChooseDryRunTarget(st, exclude) ==
  LET fit == DryRunCandidates(st, exclude)
  IN  IF fit = {} THEN None ELSE CHOOSE i \in fit : \A j \in fit \ {i} : i < j

(* The severity of failureAlert. *)
FailureAlert(r) ==
  IF r.role = "replica" /\ r.replica /\ ~r.io /\ r.sql THEN "warning" ELSE "critical"

-----------------------------------------------------------------------------
(* What the functions have in common with the check in Switch, for a node  *)
(* p that the record names, or none, and every map of statuses that a      *)
(* probe can leave behind.                                                 *)

(* A chosen target passes the check, one is found whenever some node would *)
(* pass, and no other node that would pass is less behind, or as far       *)
(* behind with a smaller name.                                             *)
ChoiceAgrees ==
  [p \in Nodes \cup {None} |->
     \A st \in [Nodes -> AllReports] :
       LET fit == {n \in Nodes \ {p} : EligibleReport(st[n], FALSE)}
           t == ChooseTarget(st, p)
       IN  IF fit = {} THEN t = None
           ELSE /\ t \in fit
                /\ \A n \in fit :
                     \/ st[t].lag < st[n].lag
                     \/ st[t].lag = st[n].lag /\ t <= n]

(* chooseDryRunTarget finds a node whenever chooseTarget does, and the     *)
(* node it names passes the check of an automatic dry run.                 *)
DryRunChoiceAgrees ==
  [p \in Nodes \cup {None} |->
     \A st \in [Nodes -> AllReports] :
       LET t == ChooseDryRunTarget(st, p)
       IN  /\ ChooseTarget(st, p) # None => t # None
           /\ t # None => EligibleReport(st[t], TRUE)]
=============================================================================
