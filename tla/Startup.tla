------------------------------ MODULE Startup ------------------------------
(***************************************************************************)
(* The start of ha-controller: config.Load, the choice of the store in     *)
(* main, and NewController, as functions of the environment variables and  *)
(* of whether an Etcd endpoint answers.  The settings that only name       *)
(* files, addresses and keys are left out.                                 *)
(***************************************************************************)
EXTENDS Integers, Sequences

CONSTANTS
  Unset,      \* a variable that is missing or empty
  Bad,        \* a text that does not parse
  MaxNumber,  \* bound on the numbers that may be given
  AgentIDs,   \* the node identities that may be given
  MaxAgents   \* bound on the length of the list of agents

ASSUME StartupAssumption ==
  /\ MaxNumber \in Nat /\ MaxAgents \in Nat
  /\ {Unset, Bad} \cap BOOLEAN = {}

Numbers == -1..MaxNumber

Given(S) == S \cup {Unset, Bad}

(* An entry of HA_AGENTS_JSON; whole: it has an id, an address and a URL. *)
Agents == [id : AgentIDs, whole : BOOLEAN]
AgentLists == UNION {[1..n -> Agents] : n \in 0..MaxAgents}

(* The environment variables. *)
Environments ==
  [probeInterval : Given(Numbers), failureThreshold : Given(Numbers),
   maxReplicaLagSeconds : Given(Numbers), executeActions : Given(BOOLEAN),
   autoFailoverExecute : Given(BOOLEAN), requireEtcd : Given(BOOLEAN),
   agents : AgentLists \cup {Unset, Bad}]

-----------------------------------------------------------------------------
(* config.go; the defaults, where a number needs one, are Load's.          *)

Parsed(value) == value \notin {Unset, Bad}

duration(value, fallback) == IF Parsed(value) THEN value ELSE fallback

(* Mutant of boolean: a value that does not parse counts as true. *)
booleanOrTrue(value, fallback) == IF Parsed(value) THEN value ELSE (value = Bad \/ fallback)

boolean(value, fallback) == IF Parsed(value) THEN value ELSE fallback

(* Mutant of integer: zero is a number, too. *)
integerOrZero(value, fallback) == IF Parsed(value) /\ value >= 0 THEN value ELSE fallback

integer(value, fallback) == IF Parsed(value) /\ value > 0 THEN value ELSE fallback
int64Value(value, fallback) == IF Parsed(value) /\ value >= 0 THEN value ELSE fallback

Loaded(e) ==
  [probeInterval |-> duration(e.probeInterval, 5),
   failureThreshold |-> integer(e.failureThreshold, 3),
   maxReplicaLagSeconds |-> int64Value(e.maxReplicaLagSeconds, 30),
   executeActions |-> boolean(e.executeActions, TRUE),
   autoFailoverExecute |-> boolean(e.autoFailoverExecute, FALSE),
   requireEtcd |-> boolean(e.requireEtcd, FALSE),
   nodes |-> IF e.agents = Unset THEN << >> ELSE e.agents]

(* Load gives up when the list of agents cannot be read. *)
Loads(e) == e.agents # Bad

-----------------------------------------------------------------------------
(* main: NewEtcdStore tries the endpoints until one answers; without one   *)
(* the store is in memory, unless Etcd is required.                        *)
OpensStore(config, answers) == answers \/ ~config.requireEtcd
Backend(answers) == IF answers THEN "etcd" ELSE "memory"

(* NewController refuses a list without nodes or with an incomplete one;   *)
(* of two entries with the same id the later one is kept.                  *)
AcceptsNodes(config) ==
  /\ Len(config.nodes) > 0
  /\ \A i \in DOMAIN config.nodes : config.nodes[i].whole
Clients(config) == {config.nodes[i].id : i \in DOMAIN config.nodes}

(* The process gets to Run; otherwise it exits. *)
Runs(e, answers) ==
  /\ Loads(e)
  /\ OpensStore(Loaded(e), answers)
  /\ AcceptsNodes(Loaded(e))

-----------------------------------------------------------------------------
(* What every environment in which the process gets to Run has in common,  *)
(* depending on whether Etcd has answered.                                 *)

(* A threshold of at least one failure, a lag that is not negative, and at *)
(* least one node.                                                         *)
WithinAssumptions ==
  [answers \in BOOLEAN |->
     \A e \in Environments :
       Runs(e, answers) =>
         /\ Loaded(e).failureThreshold \in Nat \ {0}
         /\ Loaded(e).maxReplicaLagSeconds \in Nat
         /\ Clients(Loaded(e)) # {}]

(* An automatic switch is no dry run (controller.go:336). *)
Promotes(config) == config.executeActions /\ config.autoFailoverExecute

(* A process promotes by itself only if it was told to and not told        *)
(* otherwise, makes every switch a dry run only if it was told to, and     *)
(* goes on without Etcd only if it was not told to require it.             *)
AsToldTo ==
  [answers \in BOOLEAN |->
     \A e \in Environments :
       Runs(e, answers) =>
         /\ Promotes(Loaded(e)) => e.autoFailoverExecute = TRUE /\ e.executeActions # FALSE
         /\ ~Loaded(e).executeActions => e.executeActions = FALSE
         /\ Backend(answers) = "memory" => e.requireEtcd # TRUE]
=============================================================================
