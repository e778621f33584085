----------------------------- MODULE LeaderTerm -----------------------------
(***************************************************************************)
(* A controller's terms as leader, as the rest of the controller sees      *)
(* them: the leader flag and context are set, the context is cancelled     *)
(* some time later, and runAsLeader then takes both away.  Nothing is said *)
(* about how many controllers lead at a time.                              *)
(***************************************************************************)
CONSTANT Controllers  \* the ha-controller processes

VARIABLE term  \* "standby", "leading", or "cancelled": leading with a dead context

Terms == {"standby", "leading", "cancelled"}

TermInit == term = [c \in Controllers |-> "standby"]

(* The context is dead from the start if the process has got a signal. *)
BeginTerm(c) ==
  /\ term[c] = "standby"
  /\ \E t \in {"leading", "cancelled"} : term' = [term EXCEPT ![c] = t]

CancelTerm(c) ==
  /\ term[c] = "leading"
  /\ term' = [term EXCEPT ![c] = "cancelled"]

EndTerm(c) ==
  /\ term[c] = "cancelled"
  /\ term' = [term EXCEPT ![c] = "standby"]

(* The process ends. *)
BreakOff(c) ==
  /\ term[c] # "standby"
  /\ term' = [term EXCEPT ![c] = "standby"]

TermNext ==
  \E c \in Controllers : BeginTerm(c) \/ CancelTerm(c) \/ EndTerm(c) \/ BreakOff(c)

TermSpec == TermInit /\ [][TermNext]_term
=============================================================================
