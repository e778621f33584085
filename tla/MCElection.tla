---------------------------- MODULE MCElection ----------------------------
(***************************************************************************)
(* The controller processes from main on: how each of them starts, for     *)
(* every environment, and their terms as leaders.                          *)
(***************************************************************************)
EXTENDS LeaderElection, Startup

Running == {c \in Controllers : step[c] # "down"}

(* What the other modules assume of the configuration holds in every       *)
(* controller that runs, on either store and whatever its environment      *)
(* says: variables are parsed one by one and fall back silently.           *)
RunsWithinAssumptions == \A c \in Running : WithinAssumptions[c \notin memory]

(* What a controller does is what its variables say, where they parse:     *)
(* real automatic promotion, off by default (README.md:12), takes a true   *)
(* HA_AUTO_FAILOVER_EXECUTE and no false HA_EXECUTE_ACTIONS, a process on  *)
(* a MemoryStore was not given a true HA_REQUIRE_ETCD.  A value that does  *)
(* not parse is the default: it lets a controller start without Etcd, and  *)
(* leaves the actions on.                                                  *)
RunsAsTold == \A c \in Running : AsToldTo[c \notin memory]
=============================================================================
