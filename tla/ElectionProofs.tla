--------------------------- MODULE ElectionProofs ---------------------------
(***************************************************************************)
(* What the election guarantees for any number of controllers, sessions    *)
(* and faults, and what every environment that a controller runs in        *)
(* guarantees the rest of the system.                                      *)
(***************************************************************************)
EXTENDS MCElection, TLAPS

(* Time limits of the provers, in seconds, where a step names none. *)
USE SMTT(30), ZenonT(30)

(* Sessions have keys of their own, older than the next one, and a leader  *)
(* whose key is left has the oldest.                                       *)
SessionInv ==
  /\ \A k \in keys : k < nextKey
  /\ \A c \in Controllers : session[c] < nextKey
  /\ \A c \in Controllers : step[c] \in {"down", "session"} => session[c] = 0
  /\ \A c, d \in Controllers : session[c] = session[d] /\ session[c] # 0 => c = d
  /\ \A c \in Controllers :
       step[c] = "leading" /\ session[c] \in keys => \A k \in keys : k >= session[c]

ElectionInv == TypeOK /\ SessionInv

(* Every step keeps the types. *)
LEMMA TypeStep == TypeOK /\ [Next]_vars => TypeOK'
<1> SUFFICES ASSUME TypeOK, [Next]_vars PROVE TypeOK'
  OBVIOUS
<1> USE DEF TypeOK, Steps
<1>1. ASSUME NEW c \in Controllers, NEW s \in Steps, Goto(c, s)
      PROVE  step' \in [Controllers -> Steps]
  BY <1>1 DEF Goto
<1>2. ASSUME NEW c \in Controllers, NEW k \in Nat, session' = [session EXCEPT ![c] = k]
      PROVE  session' \in [Controllers -> Nat]
  BY <1>2
<1>3. ASSUME NEW c \in Controllers, Start(c) \/ StartWithoutEtcd(c) PROVE TypeOK'
  BY <1>1, <1>3, Zenon DEF Start, StartWithoutEtcd
<1>4. ASSUME NEW c \in Controllers, JoinElection(c) PROVE TypeOK'
  <2>1. nextKey + 1 \in Nat \ {0}
    OBVIOUS
  <2>2. QED
    BY <1>1, <1>2, <1>4, <2>1 DEF JoinElection
<1>5. ASSUME NEW c \in Controllers, Elected(c) PROVE TypeOK'
  BY <1>1, <1>5 DEF Elected
<1>6. ASSUME NEW c \in Controllers, CampaignFails(c) \/ Resign(c) PROVE TypeOK'
  <2>1. session' = [session EXCEPT ![c] = 0] /\ Goto(c, "session") /\ keys' \subseteq keys
        /\ UNCHANGED <<nextKey, ended, stopping, memory>>
    BY <1>6 DEF CampaignFails, Resign, EndSession
  <2>2. QED
    BY <1>1, <1>2, <2>1
<1>7. ASSUME NEW c \in Controllers, SessionDone(c) \/ TermOver(c) PROVE TypeOK'
  BY <1>1, <1>7, Zenon DEF SessionDone, TermOver
<1>8. ASSUME NEW c \in Controllers, Signal(c) \/ Exit(c) PROVE TypeOK'
  <2>1. CASE Signal(c)
    BY <2>1 DEF Signal
  <2>2. CASE Exit(c)
    <3>1. step' \in [Controllers -> Steps] /\ session' \in [Controllers -> Nat]
      BY <1>1, <1>2, <2>2 DEF Exit
    <3>2. QED
      BY <2>2, <3>1 DEF Exit
  <2>3. QED
    BY <1>8, <2>1, <2>2
<1>9. ASSUME NEW k \in keys, Expire(k) PROVE TypeOK'
  BY <1>9 DEF Expire
<1>10. CASE UNCHANGED vars
  BY <1>10 DEF vars
<1>11. QED
  BY <1>3, <1>4, <1>5, <1>6, <1>7, <1>8, <1>9, <1>10 DEF Next, RunStep

(* Every step keeps the order of the sessions. *)
LEMMA SessionStep == ElectionInv /\ [Next]_vars => SessionInv'
<1> SUFFICES ASSUME TypeOK, SessionInv, [Next]_vars PROVE SessionInv'
  BY DEF ElectionInv
<1> USE DEF TypeOK, Steps, SessionInv
<1>1. ASSUME NEW c \in Controllers, Start(c) PROVE SessionInv'
  BY <1>1 DEF Start, Goto
<1>2. ASSUME NEW c \in Controllers, StartWithoutEtcd(c) PROVE SessionInv'
  BY <1>2 DEF StartWithoutEtcd, Goto
<1>3. ASSUME NEW c \in Controllers, JoinElection(c) PROVE SessionInv'
  BY <1>3 DEF JoinElection, Goto
<1>4. ASSUME NEW c \in Controllers, Elected(c) PROVE SessionInv'
  BY <1>4 DEF Elected, Goto
<1>5. ASSUME NEW c \in Controllers, CampaignFails(c) \/ Resign(c) PROVE SessionInv'
  <2>1. /\ keys' \subseteq keys /\ nextKey' = nextKey
        /\ session' = [session EXCEPT ![c] = 0]
        /\ step' = [step EXCEPT ![c] = "session"]
    BY <1>5 DEF CampaignFails, Resign, EndSession, Goto
  <2>2. QED
    BY <2>1
<1>6. ASSUME NEW c \in Controllers, SessionDone(c) \/ TermOver(c) \/ Signal(c) PROVE SessionInv'
  BY <1>6, ZenonT(60) DEF SessionDone, TermOver, Signal, Goto
<1>7. ASSUME NEW c \in Controllers, Exit(c) PROVE SessionInv'
  BY <1>7 DEF Exit, Goto
<1>8. ASSUME NEW k \in keys, Expire(k) PROVE SessionInv'
  BY <1>8 DEF Expire
<1>9. CASE UNCHANGED vars
  BY <1>9 DEF vars
<1>10. QED
  BY <1>1, <1>2, <1>3, <1>4, <1>5, <1>6, <1>7, <1>8, <1>9 DEF Next, RunStep

(* ElectionInv is an invariant. *)
LEMMA ElectionInvHolds == Spec => []ElectionInv
<1>1. Init => ElectionInv
  BY DEF Init, ElectionInv, TypeOK, Steps, SessionInv
<1>2. ElectionInv /\ [Next]_vars => ElectionInv'
  BY TypeStep, SessionStep DEF ElectionInv
<1>3. QED
  BY <1>1, <1>2, PTL DEF Spec

(* Run and main keep the types: a session's key is a revision above 0, and *)
(* 0 is only ever the mark of no session.                                  *)
THEOREM ElectionTyped == Spec => []TypeOK
BY ElectionInvHolds, PTL DEF ElectionInv

(* RunLeaderElection: whatever expires, crashes or fails, at most one of   *)
(* the leaders still has its session.                                      *)
THEOREM LivingSessionIsUnique == Spec => []OneLivingSession
<1>1. ElectionInv => OneLivingSession
  BY DEF ElectionInv, TypeOK, SessionInv, OneLivingSession, Leaders
<1>2. QED
  BY <1>1, ElectionInvHolds, PTL

-----------------------------------------------------------------------------
(* Without the fallback to memory, and as long as no lease ends under its  *)
(* holder, everybody in the election has a key.                            *)
KeptInv ==
  /\ memory = {}
  /\ \A c \in Controllers : step[c] \in {"campaign", "leading"} => session[c] \in keys

(* RunLeaderElection and main: with Etcd required and leases that outlive  *)
(* their holders, there is never a second leader.                          *)
THEOREM LeaderIsUnique ==
  ASSUME RequireEtcd, "lease" \notin Faults
  PROVE  Spec => []UniqueLeader
<1>1. Init => KeptInv
  BY DEF Init, KeptInv
<1>2. ElectionInv /\ KeptInv /\ [Next]_vars => KeptInv'
  <2> SUFFICES ASSUME TypeOK, SessionInv, KeptInv, [Next]_vars PROVE KeptInv'
    BY DEF ElectionInv
  <2> USE DEF TypeOK, Steps, KeptInv
  <2>1. ASSUME NEW c \in Controllers, Start(c) \/ StartWithoutEtcd(c) PROVE KeptInv'
    BY <2>1 DEF Start, StartWithoutEtcd, Goto
  <2>2. ASSUME NEW c \in Controllers, JoinElection(c) \/ Elected(c) PROVE KeptInv'
    BY <2>2 DEF JoinElection, Elected, Goto
  <2>3. ASSUME NEW c \in Controllers, CampaignFails(c) \/ Resign(c) PROVE KeptInv'
    <3>1. /\ keys \ {session[c]} \subseteq keys' /\ memory' = memory
          /\ session' = [session EXCEPT ![c] = 0]
          /\ step' = [step EXCEPT ![c] = "session"]
      BY <2>3 DEF CampaignFails, Resign, EndSession, Goto
    <3>2. QED
      BY <3>1 DEF SessionInv
  <2>4. ASSUME NEW c \in Controllers, SessionDone(c) \/ TermOver(c) \/ Signal(c) PROVE KeptInv'
    BY <2>4 DEF SessionDone, TermOver, Signal, Goto
  <2>5. ASSUME NEW c \in Controllers, Exit(c) PROVE KeptInv'
    BY <2>5 DEF Exit, Goto
  <2>6. ASSUME NEW k \in keys, Expire(k) PROVE KeptInv'
    BY <2>6 DEF Expire
  <2>7. CASE UNCHANGED vars
    BY <2>7 DEF vars
  <2>8. QED
    BY <2>1, <2>2, <2>3, <2>4, <2>5, <2>6, <2>7 DEF Next, RunStep
<1>3. ElectionInv /\ KeptInv => UniqueLeader
  BY DEF ElectionInv, TypeOK, SessionInv, KeptInv, UniqueLeader, Leaders
<1>4. QED
  BY <1>1, <1>2, <1>3, ElectionInvHolds, PTL DEF Spec

-----------------------------------------------------------------------------
(* runAsLeader and RunLeaderElection: the terms of a controller are those  *)
(* of LeaderTerm.                                                          *)
THEOREM ElectionImplementsTerms == Spec => ImplementsTerms
<1> DEFINE T(c) == IF step[c] # "leading" THEN "standby"
                   ELSE IF c \in ended THEN "cancelled" ELSE "leading"
           tm == [c \in Controllers |-> T(c)]
<1>1. Init => Term!TermInit
  BY DEF Init, Term!TermInit
<1>2. TypeOK /\ [Next]_vars => [Term!TermNext]_tm
  <2> SUFFICES ASSUME TypeOK, [Next]_vars PROVE Term!TermNext \/ tm' = tm
    OBVIOUS
  <2> USE DEF TypeOK, Steps
  <2>a. ASSUME NEW c \in Controllers,
               \A d \in Controllers \ {c} : step'[d] = step[d] /\ (d \in ended' <=> d \in ended),
               T(c)' # T(c),
               \/ T(c) = "standby" \/ T(c)' = "standby"
               \/ T(c) = "leading" /\ T(c)' = "cancelled"
        PROVE  Term!TermNext
    <3>1. tm' = [tm EXCEPT ![c] = T(c)']
      BY <2>a, ZenonT(60)
    <3>2. tm[c] = T(c) /\ T(c)' \in {"standby", "leading", "cancelled"}
      OBVIOUS
    <3>3. Term!BeginTerm(c) \/ Term!CancelTerm(c) \/ Term!BreakOff(c)
      BY <2>a, <3>1, <3>2, Zenon DEF Term!BeginTerm, Term!CancelTerm, Term!BreakOff
    <3>4. QED
      BY <3>3 DEF Term!TermNext
  <2>b. ASSUME NEW c \in Controllers,
               \A d \in Controllers \ {c} : step'[d] = step[d] /\ (d \in ended' <=> d \in ended),
               T(c)' = T(c)
        PROVE  tm' = tm
    BY <2>b
  <2>1. ASSUME NEW c \in Controllers,
               Start(c) \/ StartWithoutEtcd(c) \/ RunStep(c) \/ Signal(c) \/ Exit(c)
        PROVE  /\ \A d \in Controllers \ {c} : step'[d] = step[d] /\ (d \in ended' <=> d \in ended)
               /\ \/ T(c)' = T(c) \/ T(c) = "standby" \/ T(c)' = "standby"
                  \/ T(c) = "leading" /\ T(c)' = "cancelled"
    BY <2>1 DEF Start, StartWithoutEtcd, RunStep, Signal, Exit, JoinElection, Elected,
                CampaignFails, SessionDone, TermOver, Resign, Goto
  <2>2. CASE UNCHANGED vars \/ \E k \in keys : Expire(k)
    BY <2>2 DEF vars, Expire
  <2>3. QED
    BY <2>a, <2>b, <2>1, <2>2 DEF Next
<1>3. QED
  BY <1>1, <1>2, ElectionInvHolds, PTL DEF Spec, ElectionInv, ImplementsTerms, Term!TermSpec

-----------------------------------------------------------------------------
(* The list of agents that NewController accepts has an entry. *)
LEMMA ClientsExist ==
  ASSUME NEW e \in Environments, NEW answers \in BOOLEAN, Runs(e, answers)
  PROVE  Clients(Loaded(e)) # {}
<1> DEFINE nodes == Loaded(e).nodes
<1>1. nodes = IF e.agents = Unset THEN << >> ELSE e.agents
  BY DEF Loaded
<1>2. Len(nodes) > 0 /\ e.agents # Bad
  BY DEF Runs, AcceptsNodes, Loads
<1>3. e.agents # Unset
  BY <1>1, <1>2
<1>4. PICK n \in 0..MaxAgents : nodes \in [1..n -> Agents]
  BY <1>1, <1>2, <1>3 DEF Environments, AgentLists
<1>5. n \in Nat /\ DOMAIN nodes = 1..n
  BY <1>4, StartupAssumption
<1>6. Len(nodes) = n
  BY <1>4, <1>5
<1>7. 1 \in DOMAIN nodes
  BY <1>2, <1>5, <1>6
<1>8. QED
  BY <1>7, Zenon DEF Clients

(* integer and int64Value of config.go: whatever is given, the threshold   *)
(* is positive and the lag is not negative.                                *)
LEMMA NumbersLoaded ==
  ASSUME NEW e \in Environments
  PROVE  /\ Loaded(e).failureThreshold \in Nat \ {0}
         /\ Loaded(e).maxReplicaLagSeconds \in Nat
<1>1. e.failureThreshold \in Int \cup {Unset, Bad} /\ e.maxReplicaLagSeconds \in Int \cup {Unset, Bad}
  BY StartupAssumption DEF Environments, Given, Numbers
<1>2. QED
  BY <1>1 DEF Loaded, integer, int64Value, Parsed

(* boolean of config.go: a flag leaves its default only by a value that    *)
(* says so, and a process that could not reach Etcd was not told to        *)
(* require it.                                                             *)
LEMMA FlagsLoaded ==
  ASSUME NEW e \in Environments, NEW answers \in BOOLEAN, Runs(e, answers)
  PROVE  /\ Promotes(Loaded(e)) => e.autoFailoverExecute = TRUE /\ e.executeActions # FALSE
         /\ ~Loaded(e).executeActions => e.executeActions = FALSE
         /\ Backend(answers) = "memory" => e.requireEtcd # TRUE
<1>1. /\ e.autoFailoverExecute \in BOOLEAN \cup {Unset, Bad}
      /\ e.executeActions \in BOOLEAN \cup {Unset, Bad}
  BY DEF Environments, Given
<1>2. Loaded(e).autoFailoverExecute => e.autoFailoverExecute = TRUE
  BY <1>1 DEF Loaded, boolean, Parsed
<1>3. e.requireEtcd = TRUE => Loaded(e).requireEtcd = TRUE
  BY StartupAssumption, Zenon DEF Loaded, boolean, Parsed
<1>4. Backend(answers) = "memory" => ~Loaded(e).requireEtcd
  BY DEF Runs, OpensStore, Backend
<1>5. ~Loaded(e).executeActions <=> e.executeActions = FALSE
  <2>1. Loaded(e).executeActions = IF e.executeActions \in {Unset, Bad} THEN TRUE ELSE e.executeActions
    BY Zenon DEF Loaded, boolean, Parsed
  <2>2. CASE e.executeActions \in {Unset, Bad}
    <3>1. e.executeActions # FALSE
      BY <2>2, StartupAssumption, Zenon
    <3>2. QED
      BY <2>1, <2>2, <3>1, Zenon
  <2>3. CASE e.executeActions \notin {Unset, Bad}
    BY <1>1, <2>1, <2>3, Zenon
  <2>4. QED
    BY <2>2, <2>3, Zenon
<1>6. QED
  BY <1>2, <1>3, <1>4, <1>5, Zenon DEF Promotes

(* config.Load, main and NewController: a controller that runs, on either  *)
(* store, has the positive threshold, the lag and the nodes that the rest  *)
(* of the models assume, for every environment.                            *)
THEOREM ControllersRunWithinAssumptions == Spec => []RunsWithinAssumptions
<1>1. RunsWithinAssumptions
  BY ClientsExist, NumbersLoaded, Zenon DEF RunsWithinAssumptions, WithinAssumptions
<1>2. QED
  BY <1>1, PTL

(* config.Load and main: no controller promotes by itself, makes its       *)
(* switches dry runs or works without Etcd against what a variable that    *)
(* parses says, for every environment.                                     *)
THEOREM ControllersRunAsTold == Spec => []RunsAsTold
<1>1. RunsAsTold
  BY FlagsLoaded, Zenon DEF RunsAsTold, AsToldTo
<1>2. QED
  BY <1>1, PTL
=============================================================================
