----------------------------- MODULE Migration -----------------------------
(***************************************************************************)
(* cmd/state-migrate: the copy of the cluster record and the task history  *)
(* from one Etcd cluster to another, interrupted at any point and started  *)
(* again.  Key 0 is <prefix>/cluster and the others are the tasks, in the  *)
(* order of the keys in Etcd; a value is the number of the write that made *)
(* it.  The clusters may have controllers that write meanwhile.            *)
(***************************************************************************)
EXTENDS Naturals

CONSTANTS
  Tasks,      \* the task keys
  Live,       \* of "source", "destination": where controllers run
  MaxWrites,  \* bound on the writes of the controllers
  MaxRuns     \* bound on the runs of the tool

ASSUME MigrationAssumption ==
  /\ Tasks \subseteq Nat \ {0}
  /\ Live \subseteq {"source", "destination"}
  /\ MaxWrites \in Nat /\ MaxRuns \in Nat

Keys == {0} \cup Tasks
Absent == 0

VARIABLES
  source,       \* the value of each key, Absent if there is none
  destination,
  selected,     \* the values that the run has read from the source
  todo,         \* the keys that it has still to put
  pc,           \* where it is
  run,          \* the number of runs
  writes,       \* the number of writes of controllers
  origin        \* history: the run that has put a key, 0: none

vars == <<source, destination, selected, todo, pc, run, writes, origin>>

Empty == [k \in Keys |-> Absent]

Init ==
  /\ source \in [Keys -> {Absent, 1}]
  /\ destination = Empty
  /\ selected = Empty
  /\ todo = {}
  /\ pc = "off"
  /\ run = 0
  /\ writes = 1
  /\ origin = [k \in Keys |-> 0]

-----------------------------------------------------------------------------
StartTool ==
  /\ pc \in {"off", "success"}
  /\ run < MaxRuns
  /\ run' = run + 1
  /\ pc' = "readSource"
  /\ UNCHANGED <<source, destination, selected, todo, writes, origin>>

(* One Get of the prefix: a snapshot.  Nothing is selected, or not the     *)
(* cluster key, which is noticed later: the run ends either way.           *)
ReadSource ==
  /\ pc = "readSource"
  /\ selected' = source
  /\ pc' = IF source = Empty THEN "off" ELSE "readDestination"
  /\ UNCHANGED <<source, destination, todo, run, writes, origin>>

(* Mutant of ReadDestination: an interrupted copy is resumed. *)
ReadDestinationLeniently ==
  /\ pc = "readDestination"
  /\ pc' = IF selected[0] # Absent THEN "put" ELSE "off"
  /\ todo' = {k \in Keys : selected[k] # Absent}
  /\ UNCHANGED <<source, destination, selected, run, writes, origin>>

(* "destination already contains HA state". *)
ReadDestination ==
  /\ pc = "readDestination"
  /\ pc' = IF destination = Empty /\ selected[0] # Absent THEN "put" ELSE "off"
  /\ todo' = {k \in Keys : selected[k] # Absent}
  /\ UNCHANGED <<source, destination, selected, run, writes, origin>>

(* Mutant of Put: the last key comes first. *)
PutBackwards ==
  /\ pc = "put"
  /\ \E k \in todo :
       /\ \A j \in todo : j <= k
       /\ todo' = todo \ {k}
       /\ destination' = [destination EXCEPT ![k] = selected[k]]
       /\ origin' = [origin EXCEPT ![k] = run]
  /\ UNCHANGED <<source, selected, pc, run, writes>>

Put ==
  /\ pc = "put"
  /\ \E k \in todo :
       /\ \A j \in todo : k <= j
       /\ todo' = todo \ {k}
       /\ destination' = [destination EXCEPT ![k] = selected[k]]
       /\ origin' = [origin EXCEPT ![k] = run]
  /\ UNCHANGED <<source, selected, pc, run, writes>>

(* The destination is read again and compared. *)
Verify ==
  /\ pc = "put"
  /\ todo = {}
  /\ pc' = IF \A k \in Keys : selected[k] # Absent => destination[k] = selected[k]
           THEN "success" ELSE "off"
  /\ UNCHANGED <<source, destination, selected, todo, run, writes, origin>>

(* A request fails, 30 seconds are over, or the tool is killed. *)
Interrupt ==
  /\ pc \notin {"off", "success"}
  /\ pc' = "off"
  /\ UNCHANGED <<source, destination, selected, todo, run, writes, origin>>

-----------------------------------------------------------------------------
(* Controllers record switches and tasks; one that finds no cluster record *)
(* writes one.                                                             *)

SourceWrite(k) ==
  /\ "source" \in Live
  /\ writes < MaxWrites
  /\ writes' = writes + 1
  /\ source' = [source EXCEPT ![k] = writes + 1]
  /\ UNCHANGED <<destination, selected, todo, pc, run, origin>>

DestinationWrite(k) ==
  /\ "destination" \in Live
  /\ writes < MaxWrites
  /\ k = 0 \/ destination[0] # Absent
  /\ writes' = writes + 1
  /\ destination' = [destination EXCEPT ![k] = writes + 1]
  /\ origin' = [origin EXCEPT ![k] = 0]
  /\ UNCHANGED <<source, selected, todo, pc, run>>

Next ==
  \/ StartTool \/ ReadSource \/ ReadDestination \/ Put \/ Verify \/ Interrupt
  \/ \E k \in Keys : SourceWrite(k) \/ DestinationWrite(k)

Spec == Init /\ [][Next]_vars

-----------------------------------------------------------------------------
(* Properties. *)

(* What the tool has put is one state of the source, or the beginning of   *)
(* one, however often it was interrupted and started again while the       *)
(* source changed: it never completes the copy of an earlier run.          *)
OneSnapshot == \A j, k \in Keys : origin[j] # 0 /\ origin[k] # 0 => origin[j] = origin[k]

(* The tasks follow the cluster record: a controller that is started on    *)
(* an interrupted copy finds the record, and does not detect a primary and *)
(* begin at epoch 0 beside the copied history.                             *)
RecordBeforeHistory == destination # Empty => destination[0] # Absent
=============================================================================
