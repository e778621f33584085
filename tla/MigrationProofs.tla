-------------------------- MODULE MigrationProofs --------------------------
(***************************************************************************)
(* What state-migrate leaves behind, for any history, any number of runs   *)
(* that are interrupted anywhere, and any writes of controllers to either  *)
(* cluster meanwhile.                                                      *)
(***************************************************************************)
EXTENDS Migration, TLAPS

(* Time limits of the provers, in seconds, where a step names none. *)
USE SMTT(30), ZenonT(30)

MigrationTypeOK ==
  /\ source \in [Keys -> Nat] /\ destination \in [Keys -> Nat]
  /\ selected \in [Keys -> Nat] /\ origin \in [Keys -> Nat]
  /\ todo \subseteq Keys
  /\ pc \in {"off", "readSource", "readDestination", "put", "success"}
  /\ run \in Nat /\ writes \in Nat

(* A run that puts has found the destination empty, so whatever the tool   *)
(* has put there since is this run's; what it has still to put exists, and *)
(* the record is there already or is yet to come, as the first.            *)
CopyInv ==
  /\ \A k \in Keys : origin[k] # 0 => destination[k] # Absent
  /\ pc = "put" =>
       /\ \A k \in Keys : origin[k] \in {0, run}
       /\ \A k \in todo : selected[k] # Absent
       /\ 0 \in todo \/ destination[0] # Absent

MigrationInv == MigrationTypeOK /\ CopyInv /\ OneSnapshot /\ RecordBeforeHistory

(* Every step keeps the types. *)
LEMMA TypeStep == MigrationTypeOK /\ [Next]_vars => MigrationTypeOK'
<1> SUFFICES ASSUME MigrationTypeOK, [Next]_vars PROVE MigrationTypeOK'
  OBVIOUS
<1> USE DEF MigrationTypeOK
<1>1. CASE StartTool
  BY <1>1 DEF StartTool
<1>2. CASE ReadSource \/ Verify \/ Interrupt
  BY <1>2 DEF ReadSource, Verify, Interrupt
<1>3. CASE ReadDestination
  BY <1>3 DEF ReadDestination
<1>4. CASE Put
  BY <1>4 DEF Put
<1>5. ASSUME NEW k \in Keys, SourceWrite(k) \/ DestinationWrite(k) PROVE MigrationTypeOK'
  <2>1. writes + 1 \in Nat /\ 0 \in Nat
    OBVIOUS
  <2>2. QED
    BY <1>5, <2>1 DEF SourceWrite, DestinationWrite
<1>6. CASE UNCHANGED vars
  BY <1>6 DEF vars
<1>7. QED
  BY <1>1, <1>2, <1>3, <1>4, <1>5, <1>6 DEF Next

(* A step of the tool keeps what the copy consists of: the only steps that *)
(* matter are the look at the destination, which is empty when puts are    *)
(* to follow, and a put, which is the record's as long as that is missing. *)
LEMMA ToolStep ==
  ASSUME MigrationInv,
         StartTool \/ ReadSource \/ ReadDestination \/ Put \/ Verify \/ Interrupt
  PROVE  (CopyInv /\ OneSnapshot /\ RecordBeforeHistory)'
<1> USE DEF MigrationInv, MigrationTypeOK, CopyInv, OneSnapshot, RecordBeforeHistory
<1>1. CASE StartTool \/ ReadSource \/ Verify \/ Interrupt
  BY <1>1 DEF StartTool, ReadSource, Verify, Interrupt, Empty, Keys
<1>2. CASE ReadDestination
  <2>1. 0 \in Keys
    BY DEF Keys
  <2>2. destination = Empty => \A k \in Keys : origin[k] = 0
    BY DEF Empty, Absent
  <2>3. QED
    BY <1>2, <2>1, <2>2 DEF ReadDestination, Empty
<1>3. CASE Put
  <2>1. PICK k \in todo :
          /\ \A j \in todo : k <= j
          /\ todo' = todo \ {k}
          /\ destination' = [destination EXCEPT ![k] = selected[k]]
          /\ origin' = [origin EXCEPT ![k] = run]
    BY <1>3, Zenon DEF Put
  <2>2. pc = "put" /\ pc' = "put" /\ UNCHANGED <<selected, run>>
    BY <1>3 DEF Put
  <2>3. Keys \subseteq Nat /\ 0 \in Keys
    BY MigrationAssumption DEF Keys
  <2>4. 0 \in todo => k = 0
    BY <2>1, <2>3
  <2>5. destination'[0] # Absent
    BY <2>1, <2>2, <2>3, <2>4
  <2>6. \A j \in Keys : origin'[j] \in {0, run} /\ (origin'[j] # 0 => destination'[j] # Absent)
    BY <2>1, <2>2
  <2>7. QED
    BY <2>1, <2>2, <2>5, <2>6
<1>4. QED
  BY <1>1, <1>2, <1>3

(* A write of a controller keeps it, too: the key is no longer the tool's, *)
(* and a controller records tasks only beside a record.                    *)
LEMMA ControllerStep ==
  ASSUME MigrationInv, NEW k \in Keys, SourceWrite(k) \/ DestinationWrite(k)
  PROVE  (CopyInv /\ OneSnapshot /\ RecordBeforeHistory)'
<1> USE DEF MigrationInv, MigrationTypeOK, CopyInv, OneSnapshot, RecordBeforeHistory
<1>1. CASE SourceWrite(k)
  BY <1>1 DEF SourceWrite, Empty, Keys
<1>2. CASE DestinationWrite(k)
  <2>1. 0 \in Keys /\ writes + 1 # Absent
    BY DEF Keys, Absent
  <2>2. QED
    BY <1>2, <2>1 DEF DestinationWrite
<1>3. QED
  BY <1>1, <1>2

(* MigrationInv is an invariant. *)
LEMMA MigrationInvHolds == Spec => []MigrationInv
<1>1. Init => MigrationInv
  BY DEF Init, MigrationInv, MigrationTypeOK, CopyInv, OneSnapshot, RecordBeforeHistory, Empty,
         Keys, Absent
<1>2. MigrationInv /\ [Next]_vars => MigrationInv'
  <2> SUFFICES ASSUME MigrationInv, [Next]_vars PROVE MigrationInv'
    OBVIOUS
  <2>1. MigrationTypeOK'
    BY TypeStep DEF MigrationInv
  <2>2. CASE UNCHANGED vars
    BY <2>2 DEF vars, MigrationInv, MigrationTypeOK, CopyInv, OneSnapshot, RecordBeforeHistory,
                Empty, Keys
  <2>3. QED
    BY <2>1, <2>2, ToolStep, ControllerStep DEF Next, MigrationInv
<1>3. QED
  BY <1>1, <1>2, PTL DEF Spec

(* main of cmd/state-migrate: however often the tool is interrupted and    *)
(* started again, what it has put into the destination comes from one read *)
(* of the source.                                                          *)
THEOREM CopyIsOneSnapshot == Spec => []OneSnapshot
BY MigrationInvHolds, PTL DEF MigrationInv

(* The order of the puts: a destination with any state has the cluster     *)
(* record, whenever the tool stops.                                        *)
THEOREM RecordComesFirst == Spec => []RecordBeforeHistory
BY MigrationInvHolds, PTL DEF MigrationInv
=============================================================================
