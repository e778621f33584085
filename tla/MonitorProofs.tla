--------------------------- MODULE MonitorProofs ---------------------------
(***************************************************************************)
(* The choice of a target for any set of nodes, the alerts of a single     *)
(* controller, and the record and the dry runs of any number of them.      *)
(***************************************************************************)
EXTENDS Monitor, WellFoundedInduction, TLAPS

(* Time limits of the provers, in seconds, where a step names none. *)
USE SMTT(30), ZenonT(30)

(* A set of numbers that is not empty has a least element. *)
LEMMA LeastNumber ==
  ASSUME NEW T \in SUBSET Nat, T # {}
  PROVE  \E x \in T : \A y \in T : x <= y
<1>1. PICK x \in T : \A y \in T : <<y, x>> \notin OpToRel(<, Nat)
  BY NatLessThanWellFounded, WFMin, Zenon
<1>2. ASSUME NEW y \in T, y < x PROVE FALSE
  <2>1. <<y, x>> \in OpToRel(<, Nat)
    BY <1>2 DEF OpToRel
  <2>2. QED
    BY <1>1, <2>1, Zenon
<1>3. QED
  BY <1>2

(* chooseDryRunTarget returns a candidate whenever there is one. *)
LEMMA DryRunTargetFits ==
  ASSUME NEW st, NEW p, DryRunCandidates(st, p) # {}
  PROVE  ChooseDryRunTarget(st, p) \in DryRunCandidates(st, p)
<1> DEFINE fit == DryRunCandidates(st, p)
<1>1. fit \in SUBSET Nat /\ fit # {}
  BY OrderAssumption, Zenon DEF DryRunCandidates
<1>2. \E i \in fit : \A j \in fit : i <= j
  <2> HIDE DEF fit
  <2> QED
    BY <1>1, LeastNumber
<1>3. \E i \in fit : \A j \in fit \ {i} : i < j
  <2> HIDE DEF fit
  <2> QED
    BY <1>1, <1>2
<1>4. QED
  BY <1>3, Zenon DEF ChooseDryRunTarget

(* What a probe stores. *)
LEMMA ReportFields ==
  ASSUME NEW r \in AllReports
  PROVE  /\ r.healthy /\ r.role = "replica" =>
              r.reachable /\ r.replica /\ r.io /\ r.sql /\ r.lag # NoLag
         /\ r.lag \in Int /\ (r.lag # NoLag => r.lag \in Nat)
         /\ r.replica \in BOOLEAN /\ ReplicaLag(r) \in Nat
         /\ (r.replica /\ r.lag # NoLag => ReplicaLag(r) = r.lag)
<1>1. CASE \E row \in [io : BOOLEAN, sql : BOOLEAN, lag : Lags] :
               r = ReadOnlyReport(TRUE, TRUE, row.io, row.sql, row.lag)
  <2>1. PICK io \in BOOLEAN, sql \in BOOLEAN, lag \in Lags :
          r = ReadOnlyReport(TRUE, TRUE, io, sql, lag)
    BY <1>1, Zenon
  <2>2. /\ r.lag = lag /\ r.reachable /\ r.replica /\ r.io = io /\ r.sql = sql
        /\ (r.healthy => io /\ sql /\ lag # NoLag)
    BY <2>1, Zenon DEF ReadOnlyReport
  <2>3. lag \in Int /\ (lag # NoLag => lag \in Nat)
    BY LagAssumption DEF Lags, NoLag
  <2>4. QED
    BY <2>2, <2>3 DEF ReplicaLag
<1>2. CASE r \in {NoReport(FALSE), NoReport(TRUE), PrimaryReport,
                  ReadOnlyReport(TRUE, FALSE, FALSE, FALSE, NoLag)}
  <2>1. r.replica = FALSE /\ r.lag = NoLag /\ (r.role = "replica" => ~r.healthy)
    <3>1. CASE r = ReadOnlyReport(TRUE, FALSE, FALSE, FALSE, NoLag)
      BY <3>1, Zenon DEF ReadOnlyReport
    <3>2. CASE r \in {NoReport(FALSE), NoReport(TRUE), PrimaryReport}
      BY <3>2 DEF NoReport, PrimaryReport
    <3>3. QED
      BY <1>2, <3>1, <3>2, Zenon
  <2>2. NoLag \in Int
    BY DEF NoLag
  <2>3. QED
    BY <2>1, <2>2, Zenon DEF ReplicaLag
<1>3. QED
  BY <1>1, <1>2, Zenon DEF AllReports

(* The candidates of chooseTarget are the nodes that Switch admits. *)
LEMMA CandidatesAreAdmitted ==
  ASSUME NEW st \in [Nodes -> AllReports], NEW p
  PROVE  Candidates(st, p) = {n \in Nodes \ {p} : EligibleReport(st[n], FALSE)}
<1> SUFFICES ASSUME NEW n \in Nodes
             PROVE  (st[n].healthy /\ st[n].role = "replica" /\ ReplicaLag(st[n]) <= MaxReplicaLagSeconds)
                      <=> EligibleReport(st[n], FALSE)
  BY Zenon DEF Candidates
<1>1. st[n] \in AllReports
  OBVIOUS
<1>2. QED
  BY <1>1, ReportFields DEF EligibleReport

(* chooseTarget returns the least candidate of its comparison: one is      *)
(* found whenever a node passes the check in Switch, it passes too, and    *)
(* none that passes is less behind, or as far behind with a smaller name.  *)
LEMMA LeastCandidate ==
  ASSUME NEW st \in [Nodes -> AllReports], NEW p,
         {n \in Nodes \ {p} : EligibleReport(st[n], FALSE)} # {}
  PROVE  LET t == ChooseTarget(st, p)
         IN  /\ t \in Nodes \ {p} /\ EligibleReport(st[t], FALSE)
             /\ \A n \in Nodes \ {p} : EligibleReport(st[n], FALSE) =>
                  st[t].lag < st[n].lag \/ (st[t].lag = st[n].lag /\ t <= n)
<1> DEFINE fit == Candidates(st, p)
           lag(n) == ReplicaLag(st[n])
           least == {n \in fit : \A j \in fit : lag(n) <= lag(j)}
<1>1. fit # {} /\ fit \subseteq Nodes \ {p} /\ fit \subseteq Nat
  BY CandidatesAreAdmitted, OrderAssumption, Zenon DEF Candidates
<1>2. \A n \in fit : lag(n) \in Nat /\ lag(n) = st[n].lag /\ EligibleReport(st[n], FALSE)
  <2> SUFFICES ASSUME NEW n \in fit
               PROVE  lag(n) \in Nat /\ lag(n) = st[n].lag /\ EligibleReport(st[n], FALSE)
    BY Zenon
  <2>1. st[n] \in AllReports /\ EligibleReport(st[n], FALSE)
    BY <1>1, CandidatesAreAdmitted, Zenon
  <2>2. QED
    BY <2>1, ReportFields DEF EligibleReport
<1> HIDE DEF fit, lag
<1>3. least # {}
  <2>1. {lag(n) : n \in fit} \in SUBSET Nat /\ {lag(n) : n \in fit} # {}
    BY <1>1, <1>2, Zenon
  <2>2. PICK x \in {lag(n) : n \in fit} : \A y \in {lag(n) : n \in fit} : x <= y
    BY <2>1, LeastNumber, Zenon
  <2>3. QED
    BY <2>2
<1>4. PICK i \in least : \A j \in least : i <= j
  <2>1. least \in SUBSET Nat
    BY <1>1, Zenon
  <2>2. QED
    BY <1>3, <2>1, LeastNumber, Zenon
<1>5. \A j \in fit \ {i} : Before(st, i, j)
  <2> SUFFICES ASSUME NEW j \in fit \ {i} PROVE Before(st, i, j)
    OBVIOUS
  <2>1. lag(i) < lag(j) \/ (lag(i) = lag(j) /\ i < j)
    <3>1. CASE lag(i) = lag(j)
      <4>1. j \in least
        BY <1>4, <3>1
      <4>2. QED
        BY <1>1, <1>4, <3>1, <4>1
    <3>2. CASE lag(i) # lag(j)
      <4>1. lag(i) \in Nat /\ lag(j) \in Nat /\ lag(i) <= lag(j)
        BY <1>2, <1>4, Zenon
      <4>2. QED
        BY <3>2, <4>1
    <3>3. QED
      BY <3>1, <3>2
  <2>2. lag(i) \in Nat /\ lag(j) \in Nat
    BY <1>2, <1>4, Zenon
  <2>3. QED
    BY <2>1, <2>2 DEF Before, lag
<1>6. \E k \in fit : \A j \in fit \ {k} : Before(st, k, j)
  BY <1>4, <1>5
<1>7. ChooseTarget(st, p) = CHOOSE k \in fit : \A j \in fit \ {k} : Before(st, k, j)
  BY <1>1 DEF ChooseTarget, fit
<1>8. PICK t : t = ChooseTarget(st, p)
  OBVIOUS
<1>9. t \in fit /\ \A j \in fit \ {t} : Before(st, t, j)
  BY <1>6, <1>7, <1>8, Zenon
<1>10. ASSUME NEW n \in Nodes \ {p}, EligibleReport(st[n], FALSE)
       PROVE  st[t].lag < st[n].lag \/ (st[t].lag = st[n].lag /\ t <= n)
  <2>1. n \in fit
    BY <1>10, CandidatesAreAdmitted, Zenon DEF fit
  <2>2. CASE n = t
    BY <1>1, <1>9, <2>2
  <2>3. CASE n # t
    <3>1. Before(st, t, n)
      BY <1>9, <2>1, <2>3
    <3>2. lag(t) < lag(n) \/ (lag(t) = lag(n) /\ t < n)
      BY <3>1 DEF Before, lag
    <3>3. lag(t) = st[t].lag /\ lag(n) = st[n].lag /\ t \in Nat /\ n \in Nat
      BY <1>1, <1>2, <1>9, <2>1, Zenon
    <3>4. QED
      BY <3>2, <3>3
  <2>4. QED
    BY <2>2, <2>3
<1>11. QED
  BY <1>1, <1>2, <1>8, <1>9, <1>10, Zenon

LEMMA ChoicesAgree ==
  ASSUME NEW p \in Nodes \cup {None} PROVE ChoiceAgrees[p]
<1> SUFFICES ASSUME NEW st \in [Nodes -> AllReports]
             PROVE  LET fit == {n \in Nodes \ {p} : EligibleReport(st[n], FALSE)}
                        t == ChooseTarget(st, p)
                    IN  IF fit = {} THEN t = None
                        ELSE t \in fit /\ \A n \in fit :
                               st[t].lag < st[n].lag \/ (st[t].lag = st[n].lag /\ t <= n)
  BY ZenonT(20) DEF ChoiceAgrees
<1> DEFINE fit == {n \in Nodes \ {p} : EligibleReport(st[n], FALSE)}
<1>1. CASE fit = {}
  <2>1. ChooseTarget(st, p) = None
    BY <1>1, CandidatesAreAdmitted, ZenonT(20) DEF ChooseTarget
  <2>2. QED
    BY <1>1, <2>1
<1>2. CASE fit # {}
  BY <1>2, LeastCandidate, ZenonT(20)
<1>3. QED
  BY <1>1, <1>2, ZenonT(20)

LEMMA DryRunChoicesAgree ==
  ASSUME NEW p \in Nodes \cup {None} PROVE DryRunChoiceAgrees[p]
<1> SUFFICES ASSUME NEW st \in [Nodes -> AllReports]
             PROVE  /\ ChooseTarget(st, p) # None => ChooseDryRunTarget(st, p) # None
                    /\ ChooseDryRunTarget(st, p) # None => EligibleReport(st[ChooseDryRunTarget(st, p)], TRUE)
  BY ZenonT(20) DEF DryRunChoiceAgrees
<1>1. Candidates(st, p) \subseteq DryRunCandidates(st, p)
  <2> SUFFICES ASSUME NEW n \in Candidates(st, p) PROVE n \in DryRunCandidates(st, p)
    OBVIOUS
  <2>1. n \in Nodes \ {p} /\ st[n] \in AllReports /\ st[n].healthy /\ st[n].role = "replica"
    BY DEF Candidates
  <2>2. st[n].replica /\ st[n].sql /\ st[n].reachable
    BY <2>1, ReportFields
  <2>3. QED
    BY <2>1, <2>2 DEF DryRunCandidates
<1>2. ASSUME DryRunCandidates(st, p) # {}
      PROVE  /\ ChooseDryRunTarget(st, p) # None
             /\ EligibleReport(st[ChooseDryRunTarget(st, p)], TRUE)
  <2>1. ChooseDryRunTarget(st, p) \in DryRunCandidates(st, p)
    BY <1>2, DryRunTargetFits
  <2>2. QED
    BY <2>1, NoneAssumption DEF DryRunCandidates, EligibleReport
<1>3. ChooseTarget(st, p) # None => Candidates(st, p) # {}
  BY DEF ChooseTarget
<1>4. ChooseDryRunTarget(st, p) # None => DryRunCandidates(st, p) # {}
  BY DEF ChooseDryRunTarget
<1>5. QED
  BY <1>1, <1>2, <1>3, <1>4, ZenonT(20)

(* What is chosen is a node, or none. *)
LEMMA TargetTyped ==
  ASSUME TypeOK, NEW c \in Controllers
  PROVE  FailoverTarget(c) \in Nodes \cup {None}
<1>1. statuses[c] \in [Nodes -> AllReports]
  BY DEF TypeOK
<1>2. ChooseTarget(statuses[c], read[c].primary) \in Nodes \cup {None}
  <2>1. CASE Candidates(statuses[c], read[c].primary) = {}
    BY <2>1 DEF ChooseTarget
  <2>2. CASE Candidates(statuses[c], read[c].primary) # {}
    <3>1. {n \in Nodes \ {read[c].primary} : EligibleReport(statuses[c][n], FALSE)} # {}
      BY <1>1, <2>2, CandidatesAreAdmitted, Zenon
    <3>2. ChooseTarget(statuses[c], read[c].primary) \in Nodes \ {read[c].primary}
      BY <1>1, <3>1, LeastCandidate, Zenon
    <3>3. QED
      BY <3>2
  <2>3. QED
    BY <2>1, <2>2
<1>3. ChooseDryRunTarget(statuses[c], read[c].primary) \in Nodes \cup {None}
  <2>1. CASE DryRunCandidates(statuses[c], read[c].primary) = {}
    BY <2>1 DEF ChooseDryRunTarget
  <2>2. CASE DryRunCandidates(statuses[c], read[c].primary) # {}
    <3>1. DryRunCandidates(statuses[c], read[c].primary) \subseteq Nodes
      BY DEF DryRunCandidates
    <3>2. QED
      BY <2>2, <3>1, DryRunTargetFits
  <2>3. QED
    BY <2>1, <2>2
<1>4. QED
  BY <1>2, <1>3 DEF FailoverTarget

(* A count stays within the threshold. *)
LEMMA CountsTyped ==
  ASSUME TypeOK, NEW c \in Controllers, NEW st
  PROVE  FailureCounts(c, st) \in [Nodes -> 0..FailureThreshold]
<1> SUFFICES ASSUME NEW n \in Nodes
             PROVE  Min({failures[c][n] + 1, FailureThreshold}) \in 0..FailureThreshold
  BY MonitorAssumption DEF FailureCounts
<1>1. failures[c][n] \in 0..FailureThreshold
  BY DEF TypeOK
<1> DEFINE a == failures[c][n] + 1
<1>2. a \in Nat \ {0} /\ FailureThreshold \in Nat
  BY <1>1, MonitorAssumption
<1> HIDE DEF a
<1>3. \E x \in {a, FailureThreshold} : \A y \in {a, FailureThreshold} : x <= y
  BY <1>2
<1>4. PICK m : m = Min({a, FailureThreshold})
  OBVIOUS
<1>5. m \in {a, FailureThreshold} /\ \A y \in {a, FailureThreshold} : m <= y
  BY <1>3, <1>4, Zenon DEF Min
<1>6. m \in 0..FailureThreshold
  BY <1>2, <1>5
<1>7. QED
  BY <1>4, <1>6 DEF a

Histories == [primary : Nodes \cup {None}, known : BOOLEAN]

LEMMA ReportedTyped ==
  ASSUME TypeOK, KeepReported PROVE reported' \in [Controllers -> Histories]
<1>1. Unreported \in Histories /\ reported \in [Controllers -> Histories]
  BY Zenon DEF Histories, Unreported, TypeOK
<1>2. QED
  BY <1>1, Zenon DEF KeepReported

(* What the first PutTask of a call leaves in the history. *)
LEMMA ReportTyped ==
  ASSUME TypeOK, NEW c \in Controllers, NEW k, NEW known \in BOOLEAN,
         Report(c, k, known) \/ UNCHANGED reported
  PROVE  reported' \in [Controllers -> Histories]
<1>1. [primary |-> cluster.primary, known |-> known] \in Histories /\ reported \in [Controllers -> Histories]
  BY DEF Histories, TypeOK, ClusterState
<1>2. QED
  BY <1>1, Zenon DEF Report

LEMMA MonitorTypeInit == Init => TypeOK
<1> SUFFICES ASSUME Init PROVE TypeOK
  OBVIOUS
<1>1. NoRecord \in ClusterState /\ Idle \in Calls /\ NoReport(FALSE) \in AllReports
  BY DEF NoRecord, Idle, Calls, ClusterState, AllReports
<1>2. NoStatuses \in [Nodes -> AllReports] /\ NoFailures \in [Nodes -> 0..FailureThreshold]
  <2>1. 0 \in 0..FailureThreshold
    BY MonitorAssumption
  <2>2. QED
    BY <1>1, <2>1, Zenon DEF NoStatuses, NoFailures
<1>3. /\ statuses \in [Controllers -> [Nodes -> AllReports]]
      /\ failures \in [Controllers -> [Nodes -> 0..FailureThreshold]]
      /\ switch \in [Controllers -> [Callers -> Calls]] /\ read \in [Controllers -> ClusterState]
  BY <1>1, <1>2 DEF Init
<1>4. cluster \in ClusterState
  BY <1>1 DEF Init, ClusterState
<1>5. Unreported \in Histories
  BY Zenon DEF Unreported, Histories
<1>6. reported \in [Controllers -> [primary : Nodes \cup {None}, known : BOOLEAN]]
  BY <1>5, Zenon DEF Init, Histories
<1>7. QED
  BY <1>3, <1>4, <1>6 DEF Init, TypeOK, TermInit, Terms

LEMMA MonitorTypeStep == TypeOK /\ [Next]_vars => TypeOK'
<1> SUFFICES ASSUME TypeOK, [Next]_vars PROVE TypeOK'
  OBVIOUS
<1> USE DEF TypeOK
<1>1. ASSUME NEW n \in Nodes, NodeChanges(n) PROVE TypeOK'
  <2>1. PICK r \in Reports[n] : health' = [health EXCEPT ![n] = r]
    BY <1>1, Zenon DEF NodeChanges
  <2>2. r \in AllReports
    BY MonitorAssumption
  <2>3. health' \in [Nodes -> AllReports] /\ \A m \in Nodes : health'[m] \in Reports[m]
    BY <2>1, <2>2
  <2>4. QED
    BY <1>1, <2>3 DEF NodeChanges, loopVars
<1>2. ASSUME NEW c \in Controllers, Elect(c) \/ Cancel(c) \/ StepDown(c) PROVE TypeOK'
  <2>1. term' \in [Controllers -> Terms]
    <3>1. \E t \in Terms : term' = [term EXCEPT ![c] = t]
      BY <1>2 DEF Elect, Cancel, StepDown, BeginTerm, CancelTerm, EndTerm, Terms
    <3>2. QED
      BY <3>1
  <2>2. CASE Elect(c)
    BY <2>1, <2>2 DEF Elect
  <2>3. CASE Cancel(c)
    BY <2>1, <2>3 DEF Cancel, loopVars
  <2>4. CASE StepDown(c)
    BY <2>1, <2>4 DEF StepDown
  <2>5. QED
    BY <1>2, <2>2, <2>3, <2>4, ZenonT(60)
<1>3. ASSUME NEW c \in Controllers, Restart(c) PROVE TypeOK'
  <2>1. /\ NoStatuses \in [Nodes -> AllReports] /\ NoFailures \in [Nodes -> 0..FailureThreshold]
        /\ [k \in Callers |-> Idle] \in [Callers -> Calls] /\ NoRecord \in ClusterState
        /\ Unreported \in [primary : Nodes \cup {None}, known : BOOLEAN]
    BY MonitorAssumption
       DEF NoStatuses, NoFailures, AllReports, Idle, Calls, NoRecord, ClusterState, Unreported
  <2>2. QED
    BY <1>3, <2>1, ZenonT(60) DEF Restart, BreakOff, Terms
<1>4. ASSUME NEW c \in Controllers, Poll(c) PROVE TypeOK'
  <2>1. PICK lost \in SUBSET Nodes :
          Observe(c, [n \in Nodes |-> IF n \in lost THEN NoReport(FALSE) ELSE health[n]])
    BY <1>4, Zenon DEF Poll
  <2> DEFINE st == [n \in Nodes |-> IF n \in lost THEN NoReport(FALSE) ELSE health[n]]
  <2>2. st \in [Nodes -> AllReports] /\ Observe(c, st)
    BY <2>1, Zenon DEF AllReports
  <2>3. FailureCounts(c, st) \in [Nodes -> 0..FailureThreshold]
    BY CountsTyped, ZenonT(60)
  <2> HIDE DEF st
  <2>4. Recovered(c, st) \subseteq Nodes /\ Failed(c, st) \subseteq Nodes
    BY DEF Recovered, Failed
  <2>5. {Event(n, "info") : n \in Recovered(c, st)}
          \cup {Event(n, FailureAlert(st[n])) : n \in Failed(c, st)} \subseteq Events
    BY <2>4 DEF Event, Events, FailureAlert
  <2>6. /\ statuses' \in [Controllers -> [Nodes -> AllReports]]
        /\ failures' \in [Controllers -> [Nodes -> 0..FailureThreshold]]
    BY <2>2, <2>3, Zenon DEF Observe
  <2>7. outbox' \in [Controllers -> SUBSET Events] /\ alertedNodes' \in [Controllers -> SUBSET Nodes]
    BY <2>2, <2>4, <2>5, Zenon DEF Observe
  <2>8. reported' \in [Controllers -> Histories]
    <3>1. Unreported \in Histories /\ reported \in [Controllers -> Histories]
      BY Zenon DEF Histories, Unreported
    <3>2. QED
      BY <2>2, <3>1, ZenonT(60) DEF Observe
  <2>9. QED
    BY <1>4, <2>6, <2>7, <2>8, ZenonT(60) DEF Poll, Histories
<1>5. ASSUME NEW c \in Controllers, NEW e \in outbox[c], SendAlert(c, e) PROVE TypeOK'
  <2>1. e \in Events
    OBVIOUS
  <2>2. QED
    BY <1>5, <2>1, SMTT(30) DEF SendAlert, Events
<1>6. ASSUME NEW c \in Controllers, ReadRecord(c) \/ ReadRecordFails(c) PROVE TypeOK'
  <2>1. CASE ReadRecord(c)
    BY <2>1, ZenonT(60) DEF ReadRecord
  <2>2. CASE ReadRecordFails(c)
    BY <2>2 DEF ReadRecordFails
  <2>3. QED
    BY <1>6, <2>1, <2>2, Zenon
<1>7. ASSUME NEW c \in Controllers, Bootstrap(c) PROVE TypeOK'
  <2>1. PICK p \in DetectedPrimaries(statuses[c]) :
          /\ read' = [read EXCEPT ![c] = [read[c] EXCEPT !.primary = p]]
          /\ cluster' \in {cluster, [read[c] EXCEPT !.primary = p]}
    BY <1>7, ZenonT(60) DEF Bootstrap
  <2>2. p \in Nodes \cup {None}
    BY DEF DetectedPrimaries
  <2>3. [read[c] EXCEPT !.primary = p] \in ClusterState
    BY <2>2, ZenonT(60) DEF ClusterState
  <2>4. QED
    BY <1>7, <2>1, <2>3, ReportedTyped, Zenon DEF Bootstrap, Histories
<1>8. ASSUME NEW c \in Controllers, LeavePrimary(c) PROVE TypeOK'
  <2>1. NoRecord \in ClusterState
    BY DEF NoRecord, ClusterState
  <2>2. QED
    BY <1>8, <2>1, Zenon DEF LeavePrimary
<1>9. ASSUME NEW c \in Controllers, CallSwitch(c) PROVE TypeOK'
  <2>1. [Idle EXCEPT !.step = "call", !.target = FailoverTarget(c)] \in Calls
    BY TargetTyped, Zenon DEF Idle, Calls, NoRecord, ClusterState
  <2>2. NoRecord \in ClusterState
    BY DEF NoRecord, ClusterState
  <2>3. QED
    BY <1>9, <2>1, <2>2 DEF CallSwitch, Callers, SwitchCallers
<1>10. ASSUME NEW c \in Controllers, NEW t \in Nodes, SwitchoverRequest(c, t) PROVE TypeOK'
  <2>1. [Idle EXCEPT !.step = "call", !.target = t] \in Calls
    BY Zenon DEF Idle, Calls, NoRecord, ClusterState
  <2>2. QED
    BY <1>10, <2>1 DEF SwitchoverRequest, Callers, SwitchCallers, loopVars
<1>11. ASSUME NEW c \in Controllers, NEW k \in SwitchCallers, SwitchStep(c, k) PROVE TypeOK'
  <2> k \in Callers /\ Idle \in Calls
    BY ZenonT(60) DEF Callers, Idle, Calls, NoRecord, ClusterState
  <2>0. switch[c][k] \in Calls
    OBVIOUS
  <2> ASSUME Return(c, k)
      PROVE  /\ switch' \in [Controllers -> [Callers -> Calls]]
             /\ probing' \in [Controllers -> {"off", "first", "tick", "alerts", "bootstrap", "decide", "switch"}]
    BY DEF Return
  <2>1. CASE SwitchRead(c, k)
    <3>1. [switch[c][k] EXCEPT !.step = "lock", !.seen = cluster] \in Calls
      BY <2>0, Zenon DEF Calls
    <3>2. switch' \in [Controllers -> [Callers -> Calls]]
      BY <2>1, <3>1 DEF SwitchRead
    <3>3. QED
      BY <2>1, <3>2 DEF SwitchRead, loopVars
  <2>2. CASE StartTask(c, k)
    <3>1. [switch[c][k] EXCEPT !.step = "task"] \in Calls
      BY <2>0, ZenonT(60) DEF Calls
    <3>2. switch' \in [Controllers -> [Callers -> Calls]]
      BY <2>2, <3>1 DEF StartTask
    <3>3. reported' \in [Controllers -> Histories]
      BY <2>2, ReportTyped DEF StartTask
    <3>4. QED
      BY <2>2, <3>2, <3>3 DEF StartTask, loopVars, Histories
  <2>3. CASE StartTaskFails(c, k)
    <3>1. reported' \in [Controllers -> Histories]
      BY <2>3, ReportTyped DEF StartTaskFails
    <3>2. QED
      BY <2>3, <3>1, ZenonT(60) DEF StartTaskFails, Histories
  <2>7. CASE SwitchRefused(c, k)
    BY <2>7, ZenonT(60) DEF SwitchRefused
  <2>8. CASE Admit(c, k)
    <3>1. [switch[c][k] EXCEPT !.step = "checked", !.held = ~LockHeld] \in Calls
      BY <2>0, ZenonT(60) DEF Calls
    <3>2. switch' \in [Controllers -> [Callers -> Calls]]
      BY <2>8, <3>1 DEF Admit
    <3>3. QED
      BY <2>8, <3>2 DEF Admit, loopVars
  <2>4. CASE FinishDryRun(c, k)
    <3>1. switch[c][k].seen.primary \in Nodes \cup {None}
      BY SMTT(30) DEF Calls, ClusterState
    <3>2. QED
      BY <2>4, <3>1, Zenon DEF FinishDryRun
  <2>5. CASE FinishSwitch(c, k)
    <3>1. [switch[c][k].seen EXCEPT !.primary = switch[c][k].target, !.epoch = @ + 1] \in ClusterState
      <4>1. /\ switch[c][k].seen \in ClusterState /\ switch[c][k].target \in Nodes \cup {None}
            /\ switch[c][k].seen.epoch + 1 \in Nat
        BY <2>0 DEF Calls, ClusterState
      <4>2. QED
        BY <4>1, ZenonT(60) DEF ClusterState
    <3>2. QED
      BY <2>5, <3>1, ReportedTyped DEF FinishSwitch, Histories
  <2>6. QED
    BY <1>11, <2>1, <2>2, <2>3, <2>4, <2>5, <2>7, <2>8, ZenonT(60) DEF SwitchStep
<1>12. ASSUME NEW c \in Controllers, NEW enabled \in BOOLEAN, SetAutoRead(c, enabled) PROVE TypeOK'
  <2>1. [step |-> "task", target |-> None, seen |-> [cluster EXCEPT !.auto = enabled],
         held |-> ~LockHeld] \in Calls
    BY Zenon DEF Calls, ClusterState
  <2>2. QED
    BY <1>12, <2>1, Zenon DEF SetAutoRead, Callers, loopVars
<1>13. ASSUME NEW c \in Controllers, SetAutoWrite(c) PROVE TypeOK'
  <2>1. switch[c]["auto-failover"].seen \in ClusterState /\ Idle \in Calls
    BY DEF Callers, Idle, Calls, NoRecord, ClusterState
  <2>2. QED
    BY <1>13, <2>1, ReportedTyped, ZenonT(60) DEF SetAutoWrite, loopVars, Histories
<1>16. ASSUME NEW c \in Controllers, NEW k \in Callers, LoseLock(c, k) PROVE TypeOK'
  <2>0. switch[c][k] \in Calls
    OBVIOUS
  <2>1. [switch[c][k] EXCEPT !.held = FALSE] \in Calls
    BY <2>0, ZenonT(60) DEF Calls
  <2>2. switch' \in [Controllers -> [Callers -> Calls]]
    BY <1>16, <2>1 DEF LoseLock
  <2>3. QED
    BY <1>16, <2>2 DEF LoseLock, loopVars
<1>14. CASE UNCHANGED vars
  BY <1>14 DEF vars, loopVars
<1>15. QED
  BY <1>1, <1>2, <1>3, <1>4, <1>5, <1>6, <1>7, <1>8, <1>9, <1>10, <1>11, <1>12, <1>13, <1>14,
     <1>16, ZenonT(60) DEF Next, ProbeStep

(* The alerts of one controller: between two probes the nodes in           *)
(* alertedNodes are the ones with an alarm, and during a probe an event    *)
(* that is still to be sent makes up the difference.                       *)
Unsent(c, n) == \E e \in outbox[c] : e.node = n

FeedInv ==
  \A c \in Controllers :
    /\ term[c] # "cancelled" /\ (term[c] = "standby" => probing[c] = "off")
    /\ switch[c]["probe"].step # "idle" => probing[c] = "switch"
    /\ probing[c] # "alerts" => outbox[c] = {}
    /\ \A e \in outbox[c] : /\ e.severity = "info" <=> Alarm(e.node)
                            /\ e.severity = "info" <=> e.node \notin alertedNodes[c]
    /\ \A e, f \in outbox[c] : e.node = f.node => e = f
    /\ \A n \in Nodes : ~Unsent(c, n) => (n \in alertedNodes[c] <=> Alarm(n))

(* The steps that move neither the alerts nor the loop keep it. *)
LEMMA FeedFrame ==
  ASSUME TypeOK, FeedInv, UNCHANGED <<term, alertedNodes, outbox, page, probing>>,
         \A c \in Controllers : switch'[c]["probe"].step # "idle" => switch[c]["probe"].step # "idle"
  PROVE  FeedInv'
  BY DEF FeedInv, Unsent, Alarm

(* So do the steps of the loop outside of its alerts. *)
LEMMA FeedLoop ==
  ASSUME TypeOK, FeedInv, NEW c \in Controllers, NEW s \in {"first", "tick", "bootstrap", "decide", "switch"},
         outbox[c] = {}, UNCHANGED <<term, alertedNodes, outbox, page>>, term[c] = "leading",
         probing' = [probing EXCEPT ![c] = s],
         \A d \in Controllers :
           switch'[d]["probe"].step # "idle" =>
             IF d = c THEN s = "switch" ELSE switch[d]["probe"].step # "idle"
  PROVE  FeedInv'
<1> SUFFICES ASSUME NEW d \in Controllers
             PROVE  /\ term[d] # "cancelled" /\ (term[d] = "standby" => probing'[d] = "off")
                    /\ switch'[d]["probe"].step # "idle" => probing'[d] = "switch"
                    /\ probing'[d] # "alerts" => outbox[d] = {}
  BY DEF FeedInv, Unsent, Alarm
<1>1. probing'[d] = IF d = c THEN s ELSE probing[d]
  BY DEF TypeOK
<1>2. QED
  BY <1>1 DEF FeedInv

LEMMA FeedStep ==
  ASSUME TypeOK, FeedInv, Next,
         \A c, d \in Controllers : c = d, Faults \cap {"term", "crash", "webhook"} = {},
         AlertWebhookURL
  PROVE  FeedInv'
<1>1. ASSUME NEW n \in Nodes, NodeChanges(n) PROVE FeedInv'
  BY <1>1, FeedFrame DEF NodeChanges, loopVars
<1>2. ASSUME NEW c \in Controllers, Elect(c) PROVE FeedInv'
  <2>1. term' = [term EXCEPT ![c] = "leading"] /\ term[c] = "standby"
    BY <1>2, ZenonT(60) DEF Elect, BeginTerm, TypeOK
  <2>2. probing[c] = "off" /\ probing' = [probing EXCEPT ![c] = "first"]
    BY <1>2, <2>1 DEF Elect, FeedInv
  <2>3. QED
    BY <1>2, <2>1, <2>2, SMTT(30) DEF Elect, FeedInv, Unsent, Alarm, TypeOK
<1>3. ASSUME NEW c \in Controllers, Cancel(c) \/ StepDown(c) \/ Restart(c) PROVE FALSE
  BY <1>3 DEF Cancel, StepDown, Restart, EndTerm, FeedInv
<1>4. ASSUME NEW c \in Controllers, Poll(c) PROVE FeedInv'
  <2>0. PICK st : Observe(c, st)
    BY <1>4 DEF Poll
  <2> DEFINE events == {Event(n, "info") : n \in Recovered(c, st)}
                         \cup {Event(n, FailureAlert(st[n])) : n \in Failed(c, st)}
  <2>1. /\ alertedNodes' =
             [alertedNodes EXCEPT ![c] = (@ \ Recovered(c, st)) \cup Failed(c, st)]
        /\ outbox' = [outbox EXCEPT ![c] = events]
        /\ probing' = [probing EXCEPT ![c] = "alerts"]
        /\ UNCHANGED <<term, page, switch>>
    BY <1>4, <2>0, ZenonT(60) DEF Poll, Observe
  <2>2. /\ probing[c] \in {"first", "tick"} /\ outbox[c] = {} /\ term[c] = "leading"
        /\ switch[c]["probe"].step = "idle"
    BY <1>4 DEF Poll, FeedInv, TypeOK, Terms
  <2>3. \A n \in Nodes : n \in alertedNodes[c] <=> Alarm(n)
    BY <2>2 DEF FeedInv, Unsent
  <2>4. /\ Recovered(c, st) \subseteq alertedNodes[c] /\ alertedNodes[c] \subseteq Nodes
        /\ Failed(c, st) \subseteq Nodes \ alertedNodes[c]
    BY Zenon DEF Recovered, Failed, TypeOK
  <2>5. \A e \in events : \/ e.node \in Recovered(c, st) /\ e = Event(e.node, "info") /\ e.severity = "info"
                          \/ /\ e.node \in Failed(c, st) /\ e = Event(e.node, FailureAlert(st[e.node]))
                             /\ e.severity # "info"
    BY DEF Event, FailureAlert
  <2>6. \A n \in Recovered(c, st) \cup Failed(c, st) : \E e \in events : e.node = n
    <3>1. \A n, x : Event(n, x).node = n
      BY DEF Event
    <3>2. QED
      BY <3>1
  <2> HIDE DEF events
  <2>7. /\ alertedNodes'[c] = (alertedNodes[c] \ Recovered(c, st)) \cup Failed(c, st)
        /\ outbox'[c] = events /\ probing'[c] = "alerts"
    BY <2>1, Zenon DEF TypeOK
  <2>8. \A e \in events : /\ e.severity = "info" <=> Alarm(e.node)
                          /\ e.severity = "info" <=> e.node \notin alertedNodes'[c]
    BY <2>3, <2>4, <2>5, <2>7
  <2>9. \A e, f \in events : e.node = f.node => e = f
    BY <2>4, <2>5
  <2>10. \A n \in Nodes : (~\E e \in events : e.node = n) => (n \in alertedNodes'[c] <=> Alarm(n))
    BY <2>3, <2>4, <2>6, <2>7
  <2>11. \A n : Alarm(n)' <=> Alarm(n)
    BY <2>1 DEF Alarm
  <2>12. QED
    BY <2>1, <2>2, <2>7, <2>8, <2>9, <2>10, <2>11, SMTT(30) DEF FeedInv, Unsent
<1>5. ASSUME NEW c \in Controllers, NEW e \in outbox[c], SendAlert(c, e) PROVE FeedInv'
  <2>1. /\ outbox' = [outbox EXCEPT ![c] = @ \ {e}] /\ page' = [page EXCEPT ![e.node] = e.severity]
        /\ probing[c] = "alerts" /\ UNCHANGED <<term, alertedNodes, probing, switch>>
    BY <1>5, ZenonT(60) DEF SendAlert, FeedInv
  <2>2. e.node \in Nodes /\ e.severity \in {"warning", "critical", "info"}
    BY SMTT(30) DEF TypeOK, Events
  <2>3. outbox'[c] = outbox[c] \ {e} /\ \A f \in outbox'[c] : f.node # e.node
    BY <2>1, ZenonT(60) DEF TypeOK, FeedInv
  <2>4. \A n \in Nodes : Alarm(n)' <=> IF n = e.node THEN e.severity # "info" ELSE Alarm(n)
    BY <2>1, <2>2 DEF TypeOK, Alarm
  <2>5. \A f \in outbox[c] : f.node \in Nodes
    BY DEF TypeOK, Events
  <2>6. \A f \in outbox'[c] : /\ f.severity = "info" <=> Alarm(f.node)'
                              /\ f.severity = "info" <=> f.node \notin alertedNodes[c]
    BY <2>3, <2>4, <2>5 DEF FeedInv
  <2>7. ASSUME NEW n \in Nodes, ~\E f \in outbox'[c] : f.node = n
        PROVE  n \in alertedNodes[c] <=> Alarm(n)'
    <3>1. CASE n = e.node
      BY <2>2, <2>4, <3>1 DEF FeedInv
    <3>2. CASE n # e.node
      BY <2>3, <2>4, <2>7, <3>2 DEF FeedInv, Unsent
    <3>3. QED
      BY <3>1, <3>2
  <2>8. QED
    BY <2>1, <2>3, <2>6, <2>7 DEF FeedInv, Unsent
<1>6. ASSUME NEW c \in Controllers,
             ReadRecord(c) \/ ReadRecordFails(c) \/ Bootstrap(c) \/ LeavePrimary(c) \/ CallSwitch(c)
      PROVE  FeedInv'
  <2>1. term[c] = "leading" /\ outbox[c] = {} /\ switch[c]["probe"].step = "idle"
    BY <1>6 DEF FeedInv, TypeOK, Terms, ReadRecord, ReadRecordFails, Bootstrap, LeavePrimary, CallSwitch
  <2>2. CASE CallSwitch(c)
    BY <2>1, <2>2, FeedLoop, ZenonT(60) DEF CallSwitch, TypeOK, Callers, SwitchCallers
  <2>3. CASE ReadRecord(c)
    BY <2>1, <2>3, FeedLoop, Zenon DEF ReadRecord
  <2>4. CASE ReadRecordFails(c)
    BY <2>1, <2>4, FeedLoop, Zenon DEF ReadRecordFails
  <2>5. CASE Bootstrap(c)
    BY <2>1, <2>5, FeedLoop, Zenon DEF Bootstrap
  <2>6. CASE LeavePrimary(c)
    BY <2>1, <2>6, FeedLoop, Zenon DEF LeavePrimary
  <2>7. QED
    BY <1>6, <2>2, <2>3, <2>4, <2>5, <2>6
<1>7. ASSUME NEW c \in Controllers, NEW k \in SwitchCallers, SwitchStep(c, k) PROVE FeedInv'
  <2>1. CASE SwitchRead(c, k) \/ Admit(c, k) \/ StartTask(c, k)
    <3>1. \A d \in Controllers : switch'[d]["probe"].step # "idle" => switch[d]["probe"].step # "idle"
      <4>1. CASE SwitchRead(c, k)
        BY <4>1 DEF SwitchRead, TypeOK, Callers, SwitchCallers
      <4>2. CASE StartTask(c, k)
        BY <4>2 DEF StartTask, TypeOK, Callers, SwitchCallers
      <4>3. CASE Admit(c, k)
        BY <4>3 DEF Admit, TypeOK, Callers, SwitchCallers
      <4>4. QED
        BY <2>1, <4>1, <4>2, <4>3
    <3>2. UNCHANGED <<term, alertedNodes, outbox, page, probing>>
      BY <2>1 DEF SwitchRead, Admit, StartTask, loopVars
    <3>3. QED
      BY <3>1, <3>2, FeedFrame
  <2>2. ASSUME switch[c][k].step # "idle", Return(c, k), UNCHANGED <<term, alertedNodes, outbox, page>>
        PROVE  FeedInv'
    <3>1. CASE k = "probe"
      <4>1. probing[c] = "switch" /\ term[c] = "leading" /\ outbox[c] = {}
        BY <2>2, <3>1, ZenonT(60) DEF FeedInv, TypeOK, Terms
      <4>2. /\ probing' = [probing EXCEPT ![c] = "tick"]
            /\ \A d \in Controllers :
                 switch'[d]["probe"].step = IF d = c THEN "idle" ELSE switch[d]["probe"].step
        BY <2>2, <3>1, SMTT(30) DEF Return, TypeOK, Callers, SwitchCallers, Idle
      <4>3. QED
        BY <2>2, <4>1, <4>2, FeedLoop, ZenonT(60)
    <3>2. CASE k # "probe"
      <4>1. probing' = probing /\ switch' = [switch EXCEPT ![c][k] = Idle]
        BY <2>2, <3>2 DEF Return
      <4>2. \A d \in Controllers : switch'[d]["probe"] = switch[d]["probe"]
        BY <3>2, <4>1, SMTT(30) DEF TypeOK, Callers, SwitchCallers
      <4>3. QED
        BY <2>2, <4>1, <4>2, FeedFrame
    <3>3. QED
      BY <3>1, <3>2
  <2>3. CASE StartTaskFails(c, k) \/ SwitchRefused(c, k) \/ FinishDryRun(c, k) \/ FinishSwitch(c, k)
    <3>1. switch[c][k].step # "idle" /\ Return(c, k) /\ UNCHANGED <<term, alertedNodes, outbox, page>>
      BY <2>3 DEF StartTaskFails, SwitchRefused, FinishDryRun, FinishSwitch
    <3>2. QED
      BY <2>2, <3>1
  <2>4. QED
    BY <1>7, <2>1, <2>3 DEF SwitchStep
<1>8. ASSUME NEW c \in Controllers, NEW t \in Nodes, SwitchoverRequest(c, t) PROVE FeedInv'
  <2>1. UNCHANGED <<term, alertedNodes, outbox, page, probing>>
    BY <1>8 DEF SwitchoverRequest, loopVars
  <2>2. \A d \in Controllers : switch'[d]["probe"] = switch[d]["probe"]
    BY <1>8 DEF SwitchoverRequest, TypeOK, Callers, SwitchCallers
  <2>3. QED
    BY <2>1, <2>2, FeedFrame
<1>9. ASSUME NEW c \in Controllers, NEW enabled \in BOOLEAN, SetAutoRead(c, enabled) PROVE FeedInv'
  <2>1. UNCHANGED <<term, alertedNodes, outbox, page, probing>>
    BY <1>9 DEF SetAutoRead, loopVars
  <2>2. \A d \in Controllers : switch'[d]["probe"] = switch[d]["probe"]
    BY <1>9 DEF SetAutoRead, TypeOK, Callers, SwitchCallers
  <2>3. QED
    BY <2>1, <2>2, FeedFrame
<1>10. ASSUME NEW c \in Controllers, SetAutoWrite(c) PROVE FeedInv'
  <2>1. UNCHANGED <<term, alertedNodes, outbox, page, probing>>
    BY <1>10 DEF SetAutoWrite, loopVars
  <2>2. \A d \in Controllers : switch'[d]["probe"] = switch[d]["probe"]
    BY <1>10, SMTT(30) DEF SetAutoWrite, TypeOK, Callers, SwitchCallers
  <2>3. QED
    BY <2>1, <2>2, FeedFrame
<1>12. ASSUME NEW c \in Controllers, NEW k \in Callers, LoseLock(c, k) PROVE FeedInv'
  <2>1. UNCHANGED <<term, alertedNodes, outbox, page, probing>>
    BY <1>12 DEF LoseLock, loopVars
  <2>2. \A d \in Controllers : switch'[d]["probe"].step = switch[d]["probe"].step
    BY <1>12, SMTT(30) DEF LoseLock, TypeOK, Calls, Callers, SwitchCallers
  <2>3. QED
    BY <2>1, <2>2, FeedFrame
<1>11. QED
  BY <1>1, <1>2, <1>3, <1>4, <1>5, <1>6, <1>7, <1>8, <1>9, <1>10, <1>12, ZenonT(60)
     DEF Next, ProbeStep

(* The variables keep their types, for any number of nodes, controllers    *)
(* and probes.                                                             *)
THEOREM MonitorTyped == Spec => []TypeOK
  BY MonitorTypeInit, MonitorTypeStep, PTL DEF Spec

(* chooseTarget and the check in Switch agree for every set of nodes,      *)
(* every limit on the lag and every map of statuses, with whatever primary *)
(* the record names.                                                       *)
THEOREM ChosenTargetIsBest == Spec => []ChoiceMatchesSwitch
<1>1. TypeOK => ChoiceMatchesSwitch
  BY ChoicesAgree DEF TypeOK, ClusterState, ChoiceMatchesSwitch
<1>2. QED
  BY <1>1, MonitorTyped, PTL

(* chooseDryRunTarget names a node whenever chooseTarget does, and one     *)
(* that the check of an automatic dry run admits, for every set of nodes   *)
(* and every map of statuses, with whatever primary the record names.      *)
THEOREM DryRunTargetAdmitted == Spec => []DryRunLessStrict
<1>1. TypeOK => DryRunLessStrict
  BY DryRunChoicesAgree DEF TypeOK, ClusterState, DryRunLessStrict
<1>2. QED
  BY <1>1, MonitorTyped, PTL

(* With one controller that stays up and a webhook that answers, the       *)
(* events on every node alternate, for any number of nodes, any threshold, *)
(* any sequence of reports and any requests, and when Etcd fails.          *)
THEOREM AlertsAlternate ==
  ASSUME \A c, d \in Controllers : c = d, Faults \cap {"term", "crash", "webhook"} = {},
         AlertWebhookURL
  PROVE  Spec => FeedAlternates
<1>1. Init => FeedInv
  <2> SUFFICES ASSUME Init PROVE FeedInv
    OBVIOUS
  <2>1. \A c \in Controllers : /\ term[c] = "standby" /\ probing[c] = "off" /\ outbox[c] = {}
                               /\ alertedNodes[c] = {}
    BY ZenonT(60) DEF Init, TermInit
  <2>2. \A c \in Controllers : switch[c]["probe"].step = "idle"
    BY DEF Init, Idle, Callers, SwitchCallers
  <2>3. \A n \in Nodes : ~Alarm(n)
    BY Zenon DEF Init, Alarm
  <2>4. QED
    BY <2>1, <2>2, <2>3 DEF FeedInv
<1>2. TypeOK /\ FeedInv /\ [Next]_vars => FeedInv'
  <2>1. ASSUME TypeOK, FeedInv, UNCHANGED vars PROVE FeedInv'
    BY <2>1, FeedFrame DEF vars, loopVars
  <2>2. QED
    BY <2>1, FeedStep
<1>3. FeedInv => [\A c \in Controllers : \A e \in outbox[c] :
                    SendAlert(c, e) => (e.severity = "info" <=> Alarm(e.node))]_vars
  BY DEF FeedInv
<1>4. QED
  BY <1>1, <1>2, <1>3, MonitorTyped, PTL DEF Spec, FeedAlternates

-----------------------------------------------------------------------------
(* A switch has a target, which is not the primary that it has read. *)
Aimed(call) ==
  /\ call.step # "idle" => call.target \in Nodes
  /\ call.step \in {"lock", "checked", "task"} => call.target # call.seen.primary

AimInv == \A c \in Controllers, k \in SwitchCallers : Aimed(switch[c][k])

(* One call moves, and the others do not. *)
LEMMA AimOne ==
  ASSUME TypeOK, AimInv, NEW c \in Controllers, NEW k \in Callers, NEW call,
         switch' = [switch EXCEPT ![c][k] = call], k \in SwitchCallers => Aimed(call)
  PROVE  AimInv'
<1> SUFFICES ASSUME NEW d \in Controllers, NEW l \in SwitchCallers PROVE Aimed(switch'[d][l])
  BY Zenon DEF AimInv, Aimed
<1>1. switch \in [Controllers -> [Callers -> Calls]] /\ l \in Callers
  BY Zenon DEF TypeOK, Callers
<1>2. switch'[d][l] = IF d = c /\ l = k THEN call ELSE switch[d][l]
  BY <1>1
<1>3. QED
  BY <1>2, Zenon DEF AimInv

LEMMA AimStep == TypeOK /\ AimInv /\ [Next]_vars => AimInv'
<1> SUFFICES ASSUME TypeOK, AimInv, [Next]_vars PROVE AimInv'
  OBVIOUS
<1>0. SwitchCallers \subseteq Callers /\ "auto-failover" \in Callers \ SwitchCallers /\ "probe" \in Callers
      /\ "switchover" \in Callers
  BY DEF Callers, SwitchCallers
<1>1. CASE UNCHANGED switch
  BY <1>1, Zenon DEF AimInv, Aimed
<1>2. Aimed(Idle)
  BY DEF Aimed, Idle
<1>3. ASSUME NEW c \in Controllers, Restart(c) PROVE AimInv'
  <2> SUFFICES ASSUME NEW d \in Controllers, NEW l \in SwitchCallers PROVE Aimed(switch'[d][l])
    BY Zenon DEF AimInv, Aimed
  <2>1. switch' = [switch EXCEPT ![c] = [k \in Callers |-> Idle]] /\ switch \in [Controllers -> [Callers -> Calls]]
    BY <1>3, Zenon DEF Restart, TypeOK
  <2>2. switch'[d][l] = IF d = c THEN Idle ELSE switch[d][l]
    BY <1>0, <2>1
  <2>3. QED
    BY <1>2, <2>2, Zenon DEF AimInv
<1>4. ASSUME NEW c \in Controllers, NEW t \in Nodes PROVE Aimed([Idle EXCEPT !.step = "call", !.target = t])
  BY DEF Aimed, Idle
<1>5. ASSUME NEW c \in Controllers, CallSwitch(c) PROVE AimInv'
  <2>1. FailoverTarget(c) \in Nodes
    BY <1>5, TargetTyped, Zenon DEF CallSwitch
  <2>2. QED
    BY <1>0, <1>4, <1>5, <2>1, AimOne, Zenon DEF CallSwitch
<1>6. ASSUME NEW c \in Controllers, NEW t \in Nodes, SwitchoverRequest(c, t) PROVE AimInv'
  BY <1>0, <1>4, <1>6, AimOne, Zenon DEF SwitchoverRequest
<1>7. ASSUME NEW c \in Controllers, NEW k \in SwitchCallers, SwitchStep(c, k) PROVE AimInv'
  <2>a. k \in Callers /\ switch \in [Controllers -> [Callers -> Calls]]
    BY <1>0, Zenon DEF TypeOK
  <2>0. k \in Callers /\ switch[c][k] \in Calls /\ Aimed(switch[c][k])
    BY <2>a, Zenon DEF AimInv
  <2>1. ASSUME Return(c, k) PROVE AimInv'
    BY <1>2, <2>0, <2>1, AimOne, Zenon DEF Return
  <2>2. CASE SwitchRead(c, k)
    <3>1. Aimed([switch[c][k] EXCEPT !.step = "lock", !.seen = cluster])
      BY <2>0, <2>2 DEF SwitchRead, Aimed, Calls
    <3>2. QED
      BY <2>0, <2>2, <3>1, AimOne DEF SwitchRead
  <2>3. CASE Admit(c, k)
    <3>1. Aimed([switch[c][k] EXCEPT !.step = "checked", !.held = ~LockHeld])
      BY <2>0, <2>3 DEF Admit, Aimed, Calls
    <3>2. QED
      BY <2>0, <2>3, <3>1, AimOne DEF Admit
  <2>4. CASE StartTask(c, k)
    <3>1. Aimed([switch[c][k] EXCEPT !.step = "task"])
      BY <2>0, <2>4 DEF StartTask, Aimed, Calls
    <3>2. QED
      BY <2>0, <2>4, <3>1, AimOne DEF StartTask
  <2>5. QED
    BY <1>7, <2>1, <2>2, <2>3, <2>4 DEF SwitchStep, SwitchRefused, StartTaskFails, FinishDryRun, FinishSwitch
<1>8. ASSUME NEW c \in Controllers, (\E enabled \in BOOLEAN : SetAutoRead(c, enabled)) \/ SetAutoWrite(c)
      PROVE  AimInv'
  <2>1. PICK call : switch' = [switch EXCEPT ![c]["auto-failover"] = call]
    BY <1>8, Zenon DEF SetAutoRead, SetAutoWrite
  <2>2. QED
    BY <1>0, <2>1, AimOne, Zenon
<1>9. ASSUME NEW c \in Controllers, NEW k \in Callers, LoseLock(c, k) PROVE AimInv'
  <2>1. switch[c][k] \in Calls /\ switch' = [switch EXCEPT ![c][k] = [@ EXCEPT !.held = FALSE]]
    BY <1>9 DEF LoseLock, TypeOK
  <2>2. k \in SwitchCallers => Aimed([switch[c][k] EXCEPT !.held = FALSE])
    BY <2>1 DEF AimInv, Aimed, Calls
  <2>3. QED
    BY <2>1, <2>2, AimOne
<1>10. QED
  <2>1. ASSUME NEW c \in Controllers, Elect(c) \/ Cancel(c) \/ StepDown(c) PROVE UNCHANGED switch
    BY <2>1, Zenon DEF Elect, Cancel, StepDown
  <2>2. ASSUME NEW c \in Controllers, ProbeStep(c), ~CallSwitch(c) PROVE UNCHANGED switch
    BY <2>2, Zenon DEF ProbeStep, Poll, SendAlert, ReadRecord, ReadRecordFails, Bootstrap, LeavePrimary
  <2>3. ASSUME NEW n \in Nodes, NodeChanges(n) PROVE UNCHANGED switch
    BY <2>3, Zenon DEF NodeChanges
  <2>4. CASE UNCHANGED vars
    BY <1>1, <2>4, Zenon DEF vars
  <2>5. QED
    BY <1>1, <1>3, <1>5, <1>6, <1>7, <1>8, <1>9, <2>1, <2>2, <2>3, <2>4, ZenonT(60) DEF Next

(* Where nothing is written, an established record stays so: nobody starts *)
(* a bootstrap, and who passes the lock has the record as it is.           *)
LEMMA EstablishedFrame ==
  ASSUME Established, UNCHANGED cluster, \A c \in Controllers : probing'[c] # "bootstrap",
         \A c \in Controllers, k \in Callers :
           switch'[c][k].step \in {"checked", "task"} =>
             \/ switch[c][k].step \in {"checked", "task"} /\ switch'[c][k].seen = switch[c][k].seen
             \/ InOrder(switch'[c][k].seen)
  PROVE  Established'
<1>1. \A x : InOrder(x)' <=> InOrder(x)
  BY DEF InOrder
<1>2. ASSUME NEW c \in Controllers, NEW k \in Callers, switch'[c][k].step \in {"checked", "task"}
      PROVE  InOrder(switch'[c][k].seen)
  BY <1>2, Zenon DEF Established
<1>3. \A c \in Controllers, k \in Callers :
        switch'[c][k].step \in {"checked", "task"} => InOrder(switch[c][k].seen)'
  BY <1>2 DEF InOrder
<1>4. QED
  BY <1>3, Zenon DEF Established

(* The same for a step that moves one call. *)
LEMMA EstablishedOne ==
  ASSUME TypeOK, Established, UNCHANGED cluster, NEW c \in Controllers, NEW k \in Callers, NEW call,
         switch' = [switch EXCEPT ![c][k] = call], \A d \in Controllers : probing'[d] # "bootstrap",
         call.step \in {"checked", "task"} =>
           \/ switch[c][k].step \in {"checked", "task"} /\ call.seen = switch[c][k].seen
           \/ InOrder(call.seen)
  PROVE  Established'
<1>1. switch \in [Controllers -> [Callers -> Calls]]
  BY Zenon DEF TypeOK
<1>2. \A d \in Controllers, l \in Callers :
        switch'[d][l] = IF d = c /\ l = k THEN call ELSE switch[d][l]
  BY <1>1
<1>3. QED
  BY <1>2, EstablishedFrame, ZenonT(60)

(* A write that is in order with every record that was read. *)
LEMMA EstablishedWrite ==
  ASSUME TypeOK, Established, NEW c \in Controllers, NEW k \in Callers,
         switch' = [switch EXCEPT ![c][k] = Idle], \A d \in Controllers : probing'[d] # "bootstrap",
         cluster' \in ClusterState, cluster'.primary # None,
         \/ cluster'.epoch = cluster.epoch /\ cluster'.primary = cluster.primary
         \/ cluster'.epoch = cluster.epoch + 1
  PROVE  Established'
<1>1. switch \in [Controllers -> [Callers -> Calls]] /\ Idle.step = "idle"
  BY Zenon DEF TypeOK, Idle
<1>2. \A d \in Controllers, l \in Callers :
        switch'[d][l] = IF d = c /\ l = k THEN Idle ELSE switch[d][l]
  BY <1>1
<1>3. ASSUME NEW d \in Controllers, NEW l \in Callers, switch'[d][l].step \in {"checked", "task"}
      PROVE  InOrder(switch[d][l].seen)'
  <2>1. switch'[d][l] = switch[d][l] /\ InOrder(switch[d][l].seen)
    BY <1>1, <1>2, <1>3, Zenon DEF Established
  <2>2. switch[d][l].seen.epoch \in Nat /\ cluster.epoch \in Nat
    BY <1>1 DEF Calls, ClusterState, TypeOK
  <2>3. QED
    BY <2>1, <2>2 DEF InOrder
<1>4. QED
  BY <1>3, Zenon DEF Established

LEMMA EstablishedStep ==
  ASSUME TypeOK, AimInv, Established, [Next]_vars
  PROVE  Established' /\ (cluster' = cluster \/ Record!Advance \/ Record!SetAuto)
<1> DEFINE Goal == Established' /\ (cluster' = cluster \/ Record!Advance \/ Record!SetAuto)
<1>0. /\ SwitchCallers \subseteq Callers /\ "auto-failover" \in Callers /\ "probe" \in Callers
      /\ "switchover" \in Callers
  BY DEF Callers, SwitchCallers
<1>t. /\ switch \in [Controllers -> [Callers -> Calls]] /\ cluster \in ClusterState
      /\ probing \in [Controllers -> {"off", "first", "tick", "alerts", "bootstrap", "decide", "switch"}]
  BY Zenon DEF TypeOK
<1>p. \A c \in Controllers : probing[c] # "bootstrap"
  BY Zenon DEF Established
<1>i. Idle.step = "idle"
  BY DEF Idle
<1>1. ASSUME UNCHANGED <<switch, cluster>>, \A c \in Controllers : probing'[c] # "bootstrap" PROVE Goal
  <2>1. Established'
    BY <1>1, EstablishedFrame, ZenonT(60)
  <2>2. QED
    BY <1>1, <2>1
<1>2. ASSUME NEW c \in Controllers, Elect(c) \/ Cancel(c) \/ StepDown(c) PROVE Goal
  <2>1. UNCHANGED <<switch, cluster>> /\ \A d \in Controllers : probing'[d] # "bootstrap"
    BY <1>2, <1>p, <1>t, Zenon DEF Elect, Cancel, StepDown, loopVars
  <2>2. QED
    BY <1>1, <2>1
<1>3. ASSUME NEW c \in Controllers, Restart(c) PROVE Goal
  <2>1. /\ switch' = [switch EXCEPT ![c] = [k \in Callers |-> Idle]] /\ UNCHANGED cluster
        /\ \A d \in Controllers : probing'[d] # "bootstrap"
    BY <1>3, <1>p, <1>t, Zenon DEF Restart
  <2>2. \A d \in Controllers, l \in Callers : switch'[d][l] \in {Idle, switch[d][l]}
    BY <1>t, <2>1, Zenon
  <2>3. Established'
    BY <1>i, <2>1, <2>2, EstablishedFrame, ZenonT(60)
  <2>4. QED
    BY <2>1, <2>3
<1>4. ASSUME NEW c \in Controllers, ProbeStep(c), ~CallSwitch(c) PROVE Goal
  <2>1. ~Bootstrap(c) /\ cluster.primary # None
    BY <1>p, Zenon DEF Bootstrap, Established
  <2>2. UNCHANGED <<switch, cluster>>
    BY <1>4, <2>1, Zenon DEF ProbeStep, Poll, SendAlert, ReadRecord, ReadRecordFails, LeavePrimary
  <2>3. \E x \in {"alerts", "decide", "tick"} : probing' = [probing EXCEPT ![c] = x] \/ UNCHANGED probing
    BY <1>4, <2>1, ZenonT(60) DEF ProbeStep, Poll, SendAlert, ReadRecord, ReadRecordFails, LeavePrimary
  <2>4. \A d \in Controllers : probing'[d] # "bootstrap"
    BY <1>p, <1>t, <2>3
  <2>5. QED
    BY <1>1, <2>2, <2>4
<1>5. ASSUME NEW c \in Controllers, CallSwitch(c) PROVE Goal
  <2>1. /\ switch' = [switch EXCEPT ![c]["probe"] = [Idle EXCEPT !.step = "call", !.target = FailoverTarget(c)]]
        /\ UNCHANGED cluster /\ probing' = [probing EXCEPT ![c] = "switch"]
    BY <1>5, Zenon DEF CallSwitch
  <2>2. [Idle EXCEPT !.step = "call", !.target = FailoverTarget(c)].step = "call"
    BY DEF Idle
  <2>3. \A d \in Controllers : probing'[d] # "bootstrap"
    BY <1>p, <1>t, <2>1
  <2>4. QED
    BY <1>0, <2>1, <2>2, <2>3, EstablishedOne, ZenonT(60)
<1>6. ASSUME NEW c \in Controllers, NEW t \in Nodes, SwitchoverRequest(c, t) PROVE Goal
  <2>1. /\ switch' = [switch EXCEPT ![c]["switchover"] = [Idle EXCEPT !.step = "call", !.target = t]]
        /\ UNCHANGED <<cluster, probing>>
    BY <1>6, Zenon DEF SwitchoverRequest, loopVars
  <2>2. [Idle EXCEPT !.step = "call", !.target = t].step = "call"
    BY DEF Idle
  <2>3. QED
    BY <1>0, <1>p, <2>1, <2>2, EstablishedOne, ZenonT(60)
<1>7. ASSUME NEW c \in Controllers, NEW k \in SwitchCallers, SwitchStep(c, k) PROVE Goal
  <2>0. k \in Callers /\ switch[c][k] \in Calls /\ switch[c][k].seen \in ClusterState
    BY <1>0, <1>t DEF Calls
  <2>1. ASSUME Return(c, k)
        PROVE  switch' = [switch EXCEPT ![c][k] = Idle] /\ \A d \in Controllers : probing'[d] # "bootstrap"
    BY <1>p, <1>t, <2>1 DEF Return
  <2>2. ASSUME Return(c, k), UNCHANGED cluster PROVE Goal
    BY <1>i, <2>0, <2>1, <2>2, EstablishedOne, ZenonT(60)
  <2>3. CASE SwitchRead(c, k)
    <3>1. /\ switch' = [switch EXCEPT ![c][k] = [@ EXCEPT !.step = "lock", !.seen = cluster]]
          /\ UNCHANGED <<cluster, probing>>
      BY <2>3 DEF SwitchRead, loopVars
    <3>2. [switch[c][k] EXCEPT !.step = "lock", !.seen = cluster].step = "lock"
      BY <2>0 DEF Calls
    <3>3. Established'
      BY <1>p, <2>0, <3>1, <3>2, EstablishedOne
    <3>4. QED
      BY <3>1, <3>3
  <2>4. CASE Admit(c, k)
    <3> DEFINE call == [switch[c][k] EXCEPT !.step = "checked", !.held = ~LockHeld]
    <3>1. switch' = [switch EXCEPT ![c][k] = call] /\ UNCHANGED <<cluster, probing>> /\ Admitted(c, k)
      BY <2>4 DEF Admit, loopVars
    <3>2. call.seen = switch[c][k].seen
      BY <2>0, Zenon DEF Calls
    <3>3. InOrder(switch[c][k].seen)
      BY <3>1 DEF Admitted, InOrder
    <3> HIDE DEF call
    <3>4. Established'
      BY <1>p, <2>0, <3>1, <3>2, <3>3, EstablishedOne
    <3>5. QED
      BY <3>1, <3>4
  <2>5. CASE StartTask(c, k)
    <3> DEFINE call == [switch[c][k] EXCEPT !.step = "task"]
    <3>1. /\ switch' = [switch EXCEPT ![c][k] = call] /\ UNCHANGED <<cluster, probing>>
          /\ switch[c][k].step = "checked"
      BY <2>5 DEF StartTask, loopVars
    <3>2. call.seen = switch[c][k].seen
      BY <2>0, Zenon DEF Calls
    <3> HIDE DEF call
    <3>3. Established'
      BY <1>p, <2>0, <3>1, <3>2, EstablishedOne
    <3>4. QED
      BY <3>1, <3>3
  <2>6. CASE FinishSwitch(c, k) /\ cluster' # cluster
    <3> DEFINE call == switch[c][k]
    <3>1. /\ Return(c, k) /\ call.step = "task" /\ cluster.epoch = call.seen.epoch
          /\ cluster' = [call.seen EXCEPT !.primary = call.target, !.epoch = call.seen.epoch + 1]
      BY <2>6 DEF FinishSwitch
    <3>2. InOrder(call.seen) /\ Aimed(call)
      BY <2>0, <3>1, Zenon DEF Established, AimInv
    <3>3. cluster.epoch \in Nat /\ call.seen.auto \in BOOLEAN
      BY <1>t, <2>0, ZenonT(60) DEF ClusterState
    <3>4. cluster.primary = call.seen.primary
      BY <3>1, <3>2, <3>3 DEF InOrder
    <3>5. call.target \in Nodes \ {cluster.primary}
      BY <3>1, <3>2, <3>4 DEF Aimed
    <3>6. cluster' = [primary |-> call.target, epoch |-> cluster.epoch + 1, auto |-> call.seen.auto]
      BY <2>0, <3>1 DEF ClusterState
    <3> HIDE DEF call
    <3>7. Record!Advance
      BY <3>3, <3>5, <3>6, Zenon DEF Record!Advance
    <3>8. cluster' \in ClusterState /\ cluster'.primary # None /\ cluster'.epoch = cluster.epoch + 1
      BY <3>3, <3>5, <3>6, NoneAssumption DEF ClusterState
    <3>9. QED
      BY <2>0, <2>1, <3>1, <3>7, <3>8, EstablishedWrite, ZenonT(60)
  <2>7. QED
    BY <1>7, <2>2, <2>3, <2>4, <2>5, <2>6, ZenonT(60)
       DEF SwitchStep, SwitchRefused, StartTaskFails, FinishDryRun, FinishSwitch
<1>8. ASSUME NEW c \in Controllers, NEW enabled \in BOOLEAN, SetAutoRead(c, enabled) PROVE Goal
  <2> DEFINE call == [step |-> "task", target |-> None, seen |-> [cluster EXCEPT !.auto = enabled],
                      held |-> ~LockHeld]
  <2>1. switch' = [switch EXCEPT ![c]["auto-failover"] = call] /\ UNCHANGED <<cluster, probing>>
    BY <1>8, Zenon DEF SetAutoRead, loopVars
  <2>2. call.seen.epoch = cluster.epoch /\ call.seen.primary = cluster.primary
    BY <1>t, Zenon DEF ClusterState
  <2> HIDE DEF call
  <2>3. InOrder(call.seen)
    BY <2>2, Zenon DEF InOrder
  <2>4. QED
    BY <1>0, <1>p, <2>1, <2>3, EstablishedOne, ZenonT(60)
<1>9. ASSUME NEW c \in Controllers, SetAutoWrite(c) PROVE Goal
  <2> DEFINE state == switch[c]["auto-failover"].seen
  <2>1. /\ switch' = [switch EXCEPT ![c]["auto-failover"] = Idle] /\ UNCHANGED probing
        /\ switch[c]["auto-failover"].step = "task"
        /\ UNCHANGED cluster \/ (cluster.epoch = state.epoch /\ cluster' = state)
    BY <1>9, Zenon DEF SetAutoWrite, loopVars
  <2>2. state \in ClusterState
    BY <1>0, <1>t DEF Calls
  <2>3. InOrder(state)
    BY <1>0, <2>1, Zenon DEF Established
  <2> HIDE DEF state
  <2>4. CASE UNCHANGED cluster
    BY <1>0, <1>i, <1>p, <2>1, <2>4, EstablishedOne, ZenonT(60)
  <2>5. CASE cluster.epoch = state.epoch /\ cluster' = state
    <3>1. cluster.primary = state.primary
      <4>1. cluster.epoch \in Nat
        BY <1>t DEF ClusterState
      <4>2. QED
        BY <2>3, <2>5, <4>1 DEF InOrder
    <3>2. state = [cluster EXCEPT !.auto = state.auto] /\ state.auto \in BOOLEAN
      BY <1>t, <2>2, <2>5, <3>1 DEF ClusterState
    <3>3. Record!SetAuto
      BY <2>5, <3>2, Zenon DEF Record!SetAuto
    <3>4. cluster.primary # None
      BY Zenon DEF Established
    <3>5. Established'
      BY <1>0, <1>p, <2>1, <2>2, <2>5, <3>1, <3>4, EstablishedWrite, ZenonT(60)
    <3>6. QED
      BY <3>3, <3>5
  <2>6. QED
    BY <2>1, <2>4, <2>5
<1>10. ASSUME NEW c \in Controllers, NEW k \in Callers, LoseLock(c, k) PROVE Goal
  <2> DEFINE call == [switch[c][k] EXCEPT !.held = FALSE]
  <2>1. switch' = [switch EXCEPT ![c][k] = call] /\ UNCHANGED <<cluster, probing>>
    BY <1>10 DEF LoseLock, loopVars
  <2>2. call.step = switch[c][k].step /\ call.seen = switch[c][k].seen
    <3>1. switch[c][k] \in Calls
      BY <1>t, Zenon
    <3>2. QED
      BY <3>1, Zenon DEF Calls
  <2> HIDE DEF call
  <2>3. QED
    BY <1>p, <2>1, <2>2, EstablishedOne, ZenonT(60)
<1>11. ASSUME (\E n \in Nodes : NodeChanges(n)) \/ UNCHANGED vars PROVE Goal
  <2>1. UNCHANGED <<switch, cluster, probing>>
    BY <1>11, Zenon DEF NodeChanges, vars, loopVars
  <2>2. QED
    BY <1>1, <1>p, <2>1, Zenon
<1> HIDE DEF Goal
<1>12. Goal
  BY <1>2, <1>3, <1>4, <1>5, <1>6, <1>7, <1>8, <1>9, <1>10, <1>11, ZenonT(60) DEF Next
<1>13. QED
  BY <1>12 DEF Goal

(* Once a primary is recorded and nobody works on a record from before,    *)
(* the record moves as EpochRegister says and the unconditional PutCluster *)
(* of a probe is over, for any number of controllers that lead at a time,  *)
(* whatever fails and whichever locks are lost.                            *)
THEOREM RecordStaysEstablished == Spec => RecordEstablished
<1>1. Init => AimInv
  <2> SUFFICES ASSUME Init, NEW c \in Controllers, NEW k \in SwitchCallers PROVE Aimed(switch[c][k])
    BY DEF AimInv
  <2>1. switch[c][k] = Idle
    BY Zenon DEF Init, Callers
  <2>2. Idle.step = "idle"
    BY DEF Idle
  <2>3. QED
    BY <2>1, <2>2, Zenon DEF Aimed
<1>2. TypeOK /\ AimInv /\ [Next]_vars =>
        [Established =>
           /\ Established'
           /\ cluster' = cluster \/ Record!Advance \/ Record!SetAuto]_vars
  BY EstablishedStep
<1>3. QED
  BY <1>1, <1>2, AimStep, MonitorTyped, PTL DEF Spec, RecordEstablished

-----------------------------------------------------------------------------
(* A dry run that counts is noted in lastDryRunPrimary, or will be by the  *)
(* task that is under way; a probe that works on a record works on that    *)
(* primary and has not seen it healthy; and there is no second call of     *)
(* Switch on the way to its task.                                          *)
Noted(c) ==
  /\ reported[c].primary = cluster.primary /\ cluster.primary # None
  /\ lastDryRunPrimary[c] = cluster.primary \/ switch[c]["probe"].step = "task"
  /\ probing[c] # "bootstrap" /\ (probing[c] = "decide" => read[c].primary = cluster.primary)
  /\ probing[c] \in {"alerts", "decide"} => ~statuses[c][cluster.primary].healthy
  /\ switch[c]["probe"].step \notin {"call", "lock", "checked"}
  /\ switch[c]["probe"].step = "task" => switch[c]["probe"].seen.primary = cluster.primary

OutageOf(c) ==
  /\ term[c] = "standby" => probing[c] = "off"
  /\ switch[c]["probe"].step # "idle" <=> probing[c] = "switch"
  /\ switch[c]["probe"].step = "checked" => switch[c]["probe"].seen.primary # None
  /\ reported[c].known => Noted(c)

OutageInv == \A c \in Controllers : OutageOf(c)

(* Kept by the steps of another controller, and by those that touch        *)
(* nothing of it.                                                          *)
LEMMA OutageFrame ==
  ASSUME NEW c \in Controllers, OutageOf(c), term'[c] = term[c],
         switch'[c]["probe"].step = switch[c]["probe"].step,
         switch'[c]["probe"].seen = switch[c]["probe"].seen,
         probing'[c] = probing[c], read'[c] = read[c], statuses'[c] = statuses[c],
         lastDryRunPrimary'[c] = lastDryRunPrimary[c],
         ~reported'[c].known \/ (reported'[c] = reported[c] /\ cluster'.primary = cluster.primary)
  PROVE  OutageOf(c)'
<1>1. CASE ~reported'[c].known
  BY <1>1, Zenon DEF OutageOf
<1>2. CASE reported'[c] = reported[c] /\ cluster'.primary = cluster.primary
  BY <1>2, ZenonT(60) DEF OutageOf, Noted
<1>3. QED
  BY <1>1, <1>2

(* What a step of c leaves alone. *)
OthersKept(c) ==
  \A d \in Controllers \ {c} :
    /\ term'[d] = term[d] /\ switch'[d] = switch[d] /\ probing'[d] = probing[d]
    /\ read'[d] = read[d] /\ statuses'[d] = statuses[d]
    /\ lastDryRunPrimary'[d] = lastDryRunPrimary[d]

(* A step that keeps the record, or moves it and the history with it. *)
LEMMA HistoryKept ==
  ASSUME TypeOK, OutageInv, NEW d \in Controllers,
         KeepReported \/ (reported'[d] = reported[d] /\ UNCHANGED cluster)
  PROVE  ~reported'[d].known \/ (reported'[d] = reported[d] /\ cluster'.primary = cluster.primary)
<1>1. reported[d].known => reported[d].primary = cluster.primary
  BY Zenon DEF OutageInv, OutageOf, Noted
<1>2. CASE KeepReported
  <2>1. reported'[d] = IF reported[d].primary = cluster'.primary THEN reported[d] ELSE Unreported
    BY <1>2, Zenon DEF KeepReported
  <2>2. ~Unreported.known
    BY DEF Unreported
  <2>3. QED
    BY <1>1, <2>1, <2>2, Zenon
<1>3. QED
  BY <1>2

LEMMA OutageOne ==
  ASSUME TypeOK, OutageInv, NEW c \in Controllers, OutageOf(c)', OthersKept(c),
         \A d \in Controllers \ {c} :
           KeepReported \/ (reported'[d] = reported[d] /\ UNCHANGED cluster)
  PROVE  OutageInv'
<1> SUFFICES ASSUME NEW d \in Controllers \ {c} PROVE OutageOf(d)'
  BY ZenonT(60) DEF OutageInv
<1>1. ~reported'[d].known \/ (reported'[d] = reported[d] /\ cluster'.primary = cluster.primary)
  BY HistoryKept
<1>2. QED
  BY <1>1, OutageFrame, Zenon DEF OthersKept, OutageInv

(* The steps of the loop that lead up to tryAutomaticFailover: a poll      *)
(* forgets a primary that it sees healthy, and the record that is read is  *)
(* the one that the history follows.                                       *)
LEMMA OutageProbe ==
  ASSUME TypeOK, OutageInv, NEW c \in Controllers,
         Poll(c) \/ (\E e \in outbox[c] : SendAlert(c, e)) \/ ReadRecord(c) \/ ReadRecordFails(c)
           \/ Bootstrap(c)
  PROVE  OutageInv'
<1>0. OutageOf(c) /\ c \in Controllers
  BY DEF OutageInv
<1>t. /\ probing \in [Controllers -> {"off", "first", "tick", "alerts", "bootstrap", "decide", "switch"}]
      /\ statuses \in [Controllers -> [Nodes -> AllReports]] /\ read \in [Controllers -> ClusterState]
      /\ reported \in [Controllers -> Histories]
  BY Zenon DEF TypeOK, Histories
<1>1. CASE Poll(c)
  <2>1. PICK lost \in SUBSET Nodes :
          Observe(c, [n \in Nodes |-> IF n \in lost THEN NoReport(FALSE) ELSE health[n]])
    BY <1>1, Zenon DEF Poll
  <2> DEFINE st == [n \in Nodes |-> IF n \in lost THEN NoReport(FALSE) ELSE health[n]]
  <2>2. Observe(c, st)
    BY <2>1, Zenon
  <2> HIDE DEF st
  <2>3. /\ probing[c] \in {"first", "tick"} /\ probing'[c] = "alerts" /\ statuses'[c] = st
        /\ reported'[c] = IF reported[c].primary # None /\ st[reported[c].primary].healthy
                           THEN Unreported ELSE reported[c]
        /\ UNCHANGED <<term, read, lastDryRunPrimary, cluster, switch>>
    BY <1>1, <1>t, <2>2, Zenon DEF Poll, Observe
  <2>4. OutageOf(c)'
    <3>1. ~Unreported.known
      BY DEF Unreported
    <3>2. QED
      BY <1>0, <2>3, <3>1, ZenonT(60) DEF OutageOf, Noted
  <2>5. OthersKept(c) /\ \A d \in Controllers \ {c} : reported'[d] = reported[d]
    BY <1>1, <1>t, <2>2, Zenon DEF OthersKept, Poll, Observe
  <2>6. QED
    BY <2>3, <2>4, <2>5, OutageOne, Zenon
<1>2. CASE \E e \in outbox[c] : SendAlert(c, e)
  <2>1. UNCHANGED <<term, probing, read, statuses, lastDryRunPrimary, cluster, switch, reported>>
    BY <1>2, Zenon DEF SendAlert
  <2>2. QED
    BY <2>1, OutageFrame, Zenon DEF OutageInv
<1>3. CASE ReadRecord(c) \/ ReadRecordFails(c)
  <2>1. /\ probing[c] = "alerts" /\ probing'[c] \in {"tick", "bootstrap", "decide"}
        /\ probing'[c] # "tick" => read'[c].primary = cluster.primary
        /\ probing'[c] = "bootstrap" => cluster.primary = None
        /\ UNCHANGED <<term, statuses, lastDryRunPrimary, cluster, switch, reported>>
    BY <1>3, <1>t, Zenon DEF ReadRecord, ReadRecordFails
  <2>2. OutageOf(c)'
    BY <1>0, <2>1, Zenon DEF OutageOf, Noted
  <2>3. OthersKept(c)
    BY <1>3, <1>t, Zenon DEF OthersKept, ReadRecord, ReadRecordFails
  <2>4. QED
    BY <2>1, <2>2, <2>3, OutageOne, Zenon
<1>4. CASE Bootstrap(c)
  <2>1. /\ probing[c] = "bootstrap" /\ probing'[c] = "decide" /\ KeepReported
        /\ UNCHANGED <<term, statuses, lastDryRunPrimary, switch>>
    BY <1>4, <1>t DEF Bootstrap
  <2>2. ~reported'[c].known
    BY <1>0, <2>1, HistoryKept, Zenon DEF OutageOf, Noted
  <2>4. OutageOf(c)'
    BY <1>0, <2>1, <2>2, Zenon DEF OutageOf
  <2>5. OthersKept(c)
    BY <1>4, <1>t DEF OthersKept, Bootstrap
  <2>6. QED
    BY <2>1, <2>4, <2>5, OutageOne, ZenonT(60)
<1>5. QED
  BY <1>1, <1>2, <1>3, <1>4

(* tryAutomaticFailover: the note is given up only for a primary that has  *)
(* been seen healthy, and Switch is called only for one without a note.    *)
LEMMA OutageDecide ==
  ASSUME TypeOK, OutageInv, ~AutoFailoverExecute, NEW c \in Controllers,
         LeavePrimary(c) \/ CallSwitch(c)
  PROVE  OutageInv'
<1>0. OutageOf(c) /\ probing[c] = "decide" /\ UNCHANGED <<term, statuses, cluster, reported>>
  BY DEF OutageInv, LeavePrimary, CallSwitch
<1>t. /\ probing \in [Controllers -> {"off", "first", "tick", "alerts", "bootstrap", "decide", "switch"}]
      /\ read \in [Controllers -> ClusterState] /\ switch \in [Controllers -> [Callers -> Calls]]
      /\ lastDryRunPrimary \in [Controllers -> Nodes \cup {None}]
  BY Zenon DEF TypeOK
<1>1. OthersKept(c)
  BY <1>t DEF OthersKept, LeavePrimary, CallSwitch
<1>2. switch[c]["probe"].step = "idle" /\ (reported[c].known => Noted(c))
  BY <1>0 DEF OutageOf
<1>3. CASE LeavePrimary(c)
  <2>1. /\ UNCHANGED switch /\ probing'[c] = "tick"
        /\ lastDryRunPrimary'[c] = IF Watched(c) /\ PrimarySeenHealthy(c) THEN None
                                   ELSE lastDryRunPrimary[c]
    BY <1>3, <1>t, Zenon DEF LeavePrimary
  <2>2. reported[c].known => ~PrimarySeenHealthy(c)
    BY <1>0, <1>2, Zenon DEF Noted, PrimarySeenHealthy
  <2>3. OutageOf(c)'
    BY <1>0, <1>2, <2>1, <2>2, ZenonT(60) DEF OutageOf, Noted
  <2>4. QED
    BY <1>0, <1>1, <2>3, OutageOne
<1>4. CASE CallSwitch(c)
  <2>1. lastDryRunPrimary[c] # read[c].primary
    BY <1>4 DEF CallSwitch, Suspected
  <2>2. ~reported[c].known
    BY <1>0, <1>2, <2>1, Zenon DEF Noted
  <2>3. probing'[c] = "switch" /\ switch'[c]["probe"].step = "call"
    BY <1>4, <1>t DEF CallSwitch, Idle, Callers, SwitchCallers
  <2>4. OutageOf(c)'
    BY <1>0, <2>2, <2>3, Zenon DEF OutageOf
  <2>5. QED
    BY <1>0, <1>1, <2>4, OutageOne
<1>5. QED
  BY <1>3, <1>4

(* The return of a call: of the probe's, only a finished one counts. *)
LEMMA OutageReturn ==
  ASSUME TypeOK, OutageInv, NEW c \in Controllers, NEW k \in SwitchCallers, Return(c, k),
         switch[c][k].step # "idle", UNCHANGED <<term, read, statuses>>,
         \A d \in Controllers \ {c} : lastDryRunPrimary'[d] = lastDryRunPrimary[d],
         \A d \in Controllers \ {c} : KeepReported \/ (reported'[d] = reported[d] /\ UNCHANGED cluster),
         \/ ~reported'[c].known
         \/ KeepReported \/ (reported'[c] = reported[c] /\ UNCHANGED cluster),
         reported[c].known =>
           lastDryRunPrimary'[c] = cluster.primary \/ (k # "probe" /\ UNCHANGED lastDryRunPrimary)
  PROVE  OutageInv'
<1>0. OutageOf(c)
  BY DEF OutageInv
<1>t. /\ probing \in [Controllers -> {"off", "first", "tick", "alerts", "bootstrap", "decide", "switch"}]
      /\ switch \in [Controllers -> [Callers -> Calls]] /\ k \in Callers
  BY ZenonT(60) DEF TypeOK, Callers
<1>1. /\ \A l \in Callers : switch'[c][l] = IF l = k THEN Idle ELSE switch[c][l]
      /\ probing'[c] = IF k = "probe" THEN "tick" ELSE probing[c]
      /\ \A d \in Controllers \ {c} : switch'[d] = switch[d] /\ probing'[d] = probing[d]
  BY <1>t DEF Return
<1>2. Idle.step = "idle" /\ "probe" \in Callers /\ SwitchCallers \subseteq Callers
  BY ZenonT(60) DEF Idle, Callers, SwitchCallers
<1>3. ~reported'[c].known \/ (reported'[c] = reported[c] /\ cluster'.primary = cluster.primary)
  BY HistoryKept, Zenon
<1>4. k = "probe" => probing[c] = "switch"
  BY <1>0, Zenon DEF OutageOf
<1>5. (term[c] = "standby" => probing[c] = "off")' /\ (switch[c]["probe"].step # "idle" <=> probing[c] = "switch")'
      /\ (switch[c]["probe"].step = "checked" => switch[c]["probe"].seen.primary # None)'
  <2>1. CASE k = "probe"
    BY <1>0, <1>1, <1>2, <1>4, <2>1, ZenonT(60) DEF OutageOf
  <2>2. CASE k # "probe"
    BY <1>0, <1>1, <1>2, <2>2, Zenon DEF OutageOf
  <2>3. QED
    BY <2>1, <2>2, Zenon
<1>6. ASSUME reported'[c].known PROVE Noted(c)'
  <2>1. Noted(c) /\ reported'[c] = reported[c] /\ cluster'.primary = cluster.primary /\ reported[c].known
    BY <1>0, <1>3, <1>6, Zenon DEF OutageOf
  <2>2. lastDryRunPrimary'[c] = cluster'.primary \/ switch'[c]["probe"].step = "task"
    BY <1>1, <1>2, <2>1, Zenon DEF Noted
  <2>3. /\ switch'[c]["probe"].step \notin {"call", "lock", "checked"}
        /\ switch'[c]["probe"].step = "task" => switch'[c]["probe"].seen.primary = cluster'.primary
    BY <1>1, <1>2, <2>1, ZenonT(60) DEF Noted
  <2>4. QED
    BY <1>1, <2>1, <2>2, <2>3, ZenonT(60) DEF Noted
<1>7. OutageOf(c)'
  BY <1>5, <1>6, Zenon DEF OutageOf
<1>8. QED
  BY <1>1, <1>7, OutageOne, ZenonT(60) DEF OthersKept

(* A call that goes on: the probe's on its way to the task has nothing to  *)
(* repeat, and the history takes up the primary that its task is for.      *)
LEMMA OutageCall ==
  ASSUME TypeOK, OutageInv, NEW c \in Controllers, NEW k \in SwitchCallers,
         SwitchRead(c, k) \/ Admit(c, k) \/ StartTask(c, k)
  PROVE  OutageInv'
<1>0. OutageOf(c)
  BY DEF OutageInv
<1>a. switch \in [Controllers -> [Callers -> Calls]] /\ k \in Callers /\ "probe" \in Callers
      /\ reported \in [Controllers -> Histories]
  BY Zenon DEF TypeOK, Callers, SwitchCallers, Histories
<1>t. switch \in [Controllers -> [Callers -> Calls]] /\ k \in Callers /\ "probe" \in Callers
      /\ switch[c][k] \in Calls /\ reported \in [Controllers -> Histories]
  BY <1>a
<1>1. PICK call :
        /\ switch' = [switch EXCEPT ![c][k] = call] /\ switch[c][k].step \in {"call", "lock", "checked"}
        /\ call.step \in {"lock", "checked", "task"}
        /\ call.step = "checked" => call.seen.primary # None
        /\ call.step = "task" => StartTask(c, k) /\ call.seen = switch[c][k].seen
        /\ call.step # "task" => UNCHANGED reported
  <2>1. CASE SwitchRead(c, k)
    <3>1. [switch[c][k] EXCEPT !.step = "lock", !.seen = cluster].step = "lock"
      BY <1>t DEF Calls
    <3>2. QED
      BY <2>1, <3>1, Zenon DEF SwitchRead
  <2>2. CASE Admit(c, k)
    <3> DEFINE call == [switch[c][k] EXCEPT !.step = "checked", !.held = ~LockHeld]
    <3>1. call.step = "checked" /\ call.seen = switch[c][k].seen
      BY <1>t, Zenon DEF Calls
    <3>2. switch' = [switch EXCEPT ![c][k] = call] /\ switch[c][k].step = "lock" /\ UNCHANGED reported
      BY <2>2, Zenon DEF Admit
    <3>3. switch[c][k].seen.primary # None
      BY <2>2, Zenon DEF Admit, Admitted
    <3> HIDE DEF call
    <3>4. QED
      BY <3>1, <3>2, <3>3, Zenon
  <2>3. CASE StartTask(c, k)
    <3> DEFINE call == [switch[c][k] EXCEPT !.step = "task"]
    <3>1. call.step = "task" /\ call.seen = switch[c][k].seen
      BY <1>t, Zenon DEF Calls
    <3>2. switch' = [switch EXCEPT ![c][k] = call] /\ switch[c][k].step = "checked"
      BY <2>3 DEF StartTask
    <3> HIDE DEF call
    <3>3. QED
      BY <2>3, <3>1, <3>2, Zenon
  <2>4. QED
    BY <2>1, <2>2, <2>3
<1>2. /\ UNCHANGED <<term, probing, read, statuses, lastDryRunPrimary, cluster>>
      /\ \A d \in Controllers \ {c} : reported'[d] = reported[d]
  BY <1>t, Zenon DEF SwitchRead, Admit, StartTask, Report, loopVars
<1>3. /\ \A d \in Controllers \ {c} : switch'[d] = switch[d]
      /\ switch'[c]["probe"] = IF k = "probe" THEN call ELSE switch[c]["probe"]
  BY <1>1, <1>t
<1>4. OthersKept(c)
  BY <1>2, <1>3, Zenon DEF OthersKept
<1>5. CASE k # "probe"
  <2>1. UNCHANGED reported
    <3>1. CASE StartTask(c, k)
      BY <1>5, <1>t, <3>1, Zenon DEF StartTask, Report
    <3>2. QED
      BY <1>1, <3>1, Zenon
  <2>2. OutageOf(c)'
    BY <1>0, <1>2, <1>3, <1>5, <2>1, OutageFrame, Zenon
  <2>3. QED
    BY <1>2, <1>4, <2>1, <2>2, OutageOne, Zenon
<1>6. CASE k = "probe"
  <2>1. ~reported[c].known /\ probing[c] = "switch" /\ switch'[c]["probe"] = call
    BY <1>0, <1>1, <1>3, <1>6, Zenon DEF OutageOf, Noted
  <2>2. ASSUME reported'[c].known PROVE Noted(c)'
    <3>1. StartTask(c, k) /\ call.step = "task" /\ call.seen = switch[c][k].seen /\ Report(c, k, TRUE)
      BY <1>1, <2>1, <2>2, Zenon DEF StartTask
    <3>2. /\ reported'[c] = [primary |-> cluster.primary, known |-> TRUE]
          /\ switch[c][k].seen.primary = cluster.primary
      BY <1>t, <2>1, <2>2, <3>1, Zenon DEF Report
    <3>3. reported'[c].primary = cluster.primary /\ cluster.primary # None
      <4>1. [primary |-> cluster.primary, known |-> TRUE].primary = cluster.primary
        OBVIOUS
      <4>2. QED
        BY <1>0, <1>6, <3>1, <3>2, <4>1, ZenonT(60) DEF OutageOf, StartTask
    <3>4. QED
      BY <1>2, <2>1, <3>1, <3>2, <3>3, Zenon DEF Noted
  <2>3. OutageOf(c)'
    BY <1>0, <1>1, <1>2, <2>1, <2>2, ZenonT(60) DEF OutageOf
  <2>4. QED
    BY <1>2, <1>4, <2>3, OutageOne, Zenon
<1>7. QED
  BY <1>5, <1>6

LEMMA OutageSwitch ==
  ASSUME TypeOK, OutageInv, ExecuteActions, ~AutoFailoverExecute,
         NEW c \in Controllers, NEW k \in SwitchCallers, SwitchStep(c, k)
  PROVE  OutageInv'
<1>0. OutageOf(c) /\ k \in Callers /\ lastDryRunPrimary \in [Controllers -> Nodes \cup {None}]
      /\ reported \in [Controllers -> Histories]
  BY Zenon DEF OutageInv, Callers, TypeOK, Histories
<1>1. CASE StartTaskFails(c, k) \/ SwitchRefused(c, k)
  <2>1. /\ Return(c, k) /\ switch[c][k].step \in {"call", "lock", "checked"}
        /\ UNCHANGED <<term, read, statuses, lastDryRunPrimary, cluster>>
        /\ Report(c, k, FALSE) \/ UNCHANGED reported
    BY <1>1, Zenon DEF StartTaskFails, SwitchRefused
  <2>2. k = "probe" => ~reported[c].known
    BY <1>0, <2>1, Zenon DEF OutageOf, Noted
  <2>3. /\ \A d \in Controllers \ {c} : reported'[d] = reported[d]
        /\ ~reported'[c].known \/ reported'[c] = reported[c]
    <3>1. ~[primary |-> cluster.primary, known |-> FALSE].known
      OBVIOUS
    <3>2. QED
      BY <1>0, <2>1, <3>1, Zenon DEF Report
  <2>4. QED
    BY <2>1, <2>2, <2>3, OutageReturn, ZenonT(60)
<1>2. CASE FinishDryRun(c, k)
  <2>1. /\ Return(c, k) /\ switch[c][k].step = "task" /\ k = "probe"
        /\ lastDryRunPrimary'[c] = switch[c][k].seen.primary
        /\ \A d \in Controllers \ {c} : lastDryRunPrimary'[d] = lastDryRunPrimary[d]
        /\ UNCHANGED <<term, read, statuses, cluster, reported>>
    BY <1>0, <1>2, Zenon DEF FinishDryRun, DryRun
  <2>2. reported[c].known => lastDryRunPrimary'[c] = cluster.primary
    BY <1>0, <2>1, Zenon DEF OutageOf, Noted
  <2>3. QED
    BY <2>1, <2>2, OutageReturn, ZenonT(60)
<1>3. CASE FinishSwitch(c, k)
  <2>1. /\ Return(c, k) /\ switch[c][k].step = "task" /\ KeepReported /\ k # "probe"
        /\ UNCHANGED <<term, read, statuses, lastDryRunPrimary>>
    BY <1>3 DEF FinishSwitch, DryRun
  <2>2. QED
    BY <2>1, OutageReturn, Zenon
<1>4. QED
  BY <1>1, <1>2, <1>3, OutageCall DEF SwitchStep

(* Everything else: the terms, a restart, the nodes and the API. *)
LEMMA OutageElse ==
  ASSUME TypeOK, OutageInv, NEW c \in Controllers,
         \/ Elect(c) \/ Cancel(c) \/ StepDown(c) \/ Restart(c)
         \/ (\E t \in Nodes : SwitchoverRequest(c, t))
         \/ (\E enabled \in BOOLEAN : SetAutoRead(c, enabled)) \/ SetAutoWrite(c)
         \/ (\E k \in Callers : LoseLock(c, k))
  PROVE  OutageInv'
<1>0. OutageOf(c)
  BY DEF OutageInv
<1> USE DEF TypeOK
<1>1. CASE Elect(c) \/ Cancel(c) \/ StepDown(c)
  <2>1. /\ OthersKept(c) /\ UNCHANGED <<switch, read, statuses, lastDryRunPrimary, cluster, reported>>
        /\ \/ term[c] = "standby" /\ probing'[c] = "first" /\ term'[c] # "standby"
           \/ term[c] # "standby" /\ term'[c] # "standby" /\ probing'[c] = probing[c]
           \/ probing[c] = "tick" /\ probing'[c] = "off"
    BY <1>1, ZenonT(60) DEF Elect, Cancel, StepDown, BeginTerm, CancelTerm, EndTerm, OthersKept, loopVars
  <2>2. OutageOf(c)'
    BY <1>0, <2>1, Zenon DEF OutageOf, Noted
  <2>3. QED
    BY <2>1, <2>2, OutageOne, ZenonT(60)
<1>2. CASE Restart(c)
  <2>1. /\ term'[c] = "standby" /\ probing'[c] = "off" /\ reported'[c] = Unreported
        /\ switch'[c]["probe"] = Idle /\ UNCHANGED cluster
    BY <1>2, Zenon DEF Restart, BreakOff, Callers, SwitchCallers
  <2>2. OthersKept(c) /\ \A d \in Controllers \ {c} : reported'[d] = reported[d]
    BY <1>2, Zenon DEF Restart, BreakOff, OthersKept
  <2>3. Idle.step = "idle" /\ ~Unreported.known
    BY Zenon DEF Idle, Unreported
  <2>4. OutageOf(c)'
    BY <2>1, <2>3, Zenon DEF OutageOf
  <2>5. QED
    BY <2>1, <2>2, <2>4, OutageOne, ZenonT(60)
<1>3. CASE \E t \in Nodes : SwitchoverRequest(c, t)
  <2>1. /\ switch'[c]["switchover"].step = "call" /\ switch'[c]["probe"] = switch[c]["probe"]
        /\ UNCHANGED <<term, probing, read, statuses, lastDryRunPrimary, cluster, reported>>
    <3>1. PICK t \in Nodes :
            switch' = [switch EXCEPT ![c]["switchover"] = [Idle EXCEPT !.step = "call", !.target = t]]
      BY <1>3, ZenonT(60) DEF SwitchoverRequest
    <3>2. [Idle EXCEPT !.step = "call", !.target = t].step = "call"
      BY DEF Idle
    <3>3. switch'[c]["switchover"].step = "call" /\ switch'[c]["probe"] = switch[c]["probe"]
      BY <3>1, <3>2 DEF Callers, SwitchCallers
    <3>4. QED
      BY <1>3, <3>3, ZenonT(60) DEF SwitchoverRequest, loopVars
  <2>2. OthersKept(c)
    BY <1>3, Zenon DEF SwitchoverRequest, OthersKept, loopVars
  <2>3. OutageOf(c)'
    BY <1>0, <2>1, OutageFrame, ZenonT(60)
  <2>4. QED
    BY <2>1, <2>2, <2>3, OutageOne, ZenonT(60)
<1>4. CASE (\E enabled \in BOOLEAN : SetAutoRead(c, enabled)) \/ SetAutoWrite(c)
  <2>1. /\ \A k \in SwitchCallers : switch'[c][k] = switch[c][k]
        /\ UNCHANGED <<term, probing, read, statuses, lastDryRunPrimary>>
        /\ KeepReported \/ UNCHANGED <<cluster, reported>>
    <3>1. PICK call : switch' = [switch EXCEPT ![c]["auto-failover"] = call]
      BY <1>4, Zenon DEF SetAutoRead, SetAutoWrite
    <3>2. ASSUME NEW k \in SwitchCallers PROVE switch'[c][k] = switch[c][k]
      <4>1. k \in Callers /\ k # "auto-failover"
        BY Zenon DEF Callers, SwitchCallers
      <4>2. switch \in [Controllers -> [Callers -> Calls]]
        BY Zenon
      <4>3. QED
        BY <3>1, <4>1, <4>2, ZenonT(60)
    <3>3. QED
      BY <1>4, <3>2, ZenonT(60) DEF SetAutoRead, SetAutoWrite, loopVars
  <2>2. OthersKept(c)
    BY <1>4, Zenon DEF SetAutoRead, SetAutoWrite, OthersKept, loopVars
  <2>3. OutageOf(c)'
    <3>1. "probe" \in SwitchCallers
      BY DEF SwitchCallers
    <3>2. QED
      BY <1>0, <2>1, <3>1, HistoryKept, OutageFrame, ZenonT(60)
  <2>4. QED
    BY <2>1, <2>2, <2>3, OutageOne, ZenonT(60)
<1>5. ASSUME NEW k \in Callers, LoseLock(c, k) PROVE OutageInv'
  <2>1. /\ switch' = [switch EXCEPT ![c][k] = [@ EXCEPT !.held = FALSE]]
        /\ UNCHANGED <<term, probing, read, statuses, lastDryRunPrimary, cluster, reported>>
    BY <1>5 DEF LoseLock, loopVars
  <2>2. switch \in [Controllers -> [Callers -> Calls]] /\ "probe" \in Callers
    BY Zenon DEF Callers, SwitchCallers
  <2>3. /\ switch'[c]["probe"].step = switch[c]["probe"].step
        /\ switch'[c]["probe"].seen = switch[c]["probe"].seen
        /\ \A d \in Controllers \ {c} : switch'[d] = switch[d]
    BY <2>1, <2>2 DEF Calls
  <2>4. OutageOf(c)'
    BY <1>0, <2>1, <2>3, OutageFrame, Zenon
  <2>5. QED
    BY <2>1, <2>3, <2>4, OutageOne, Zenon DEF OthersKept
<1>6. QED
  BY <1>1, <1>2, <1>3, <1>4, <1>5, ZenonT(60)

(* tryAutomaticFailover and Switch, with the default settings: once the    *)
(* process knows of an automatic dry run for the recorded primary, it      *)
(* starts no second one before it sees the primary healthy, for any number *)
(* of controllers, whatever fails, restarts, loses its lock or is asked    *)
(* for through the API.  (If no action is executed, a dry run of the API   *)
(* whose lock is lost can write an older primary into lastDryRunPrimary.)  *)
THEOREM OneDryRunPerOutage ==
  ASSUME ExecuteActions, ~AutoFailoverExecute
  PROVE  Spec => DryRunOnce
<1>1. Init => OutageInv
  <2> SUFFICES ASSUME Init, NEW c \in Controllers PROVE OutageOf(c)
    BY DEF OutageInv
  <2>1. term[c] = "standby" /\ probing[c] = "off" /\ reported[c] = Unreported
    BY Zenon DEF Init, TermInit
  <2>2. switch[c]["probe"] = Idle
    BY Zenon DEF Init, Callers, SwitchCallers
  <2>3. Idle.step = "idle" /\ ~Unreported.known
    BY DEF Idle, Unreported
  <2>4. QED
    BY <2>1, <2>2, <2>3, Zenon DEF OutageOf
<1>2. TypeOK /\ OutageInv /\ [Next]_vars => OutageInv'
  <2> SUFFICES ASSUME TypeOK, OutageInv, [Next]_vars PROVE OutageInv'
    OBVIOUS
  <2>1. CASE (\E n \in Nodes : NodeChanges(n)) \/ UNCHANGED vars
    <3>1. UNCHANGED <<term, probing, read, statuses, lastDryRunPrimary, cluster, switch, reported>>
      BY <2>1, ZenonT(60) DEF NodeChanges, vars, loopVars
    <3>2. QED
      BY <3>1, OutageFrame, Zenon DEF OutageInv
  <2>2. QED
    BY <2>1, OutageProbe, OutageDecide, OutageSwitch, OutageElse, ZenonT(60) DEF Next, ProbeStep
<1>3. OutageInv =>
        [\A c \in Controllers :
           StartTask(c, "probe") \/ StartTaskFails(c, "probe") =>
             ~(reported[c].known /\ reported[c].primary = switch[c]["probe"].seen.primary)]_vars
  BY Zenon DEF OutageInv, OutageOf, Noted, StartTask, StartTaskFails
<1>4. QED
  BY <1>1, <1>2, <1>3, MonitorTyped, PTL DEF Spec, DryRunOnce
=============================================================================
