--------------------------- MODULE LeaderElection ---------------------------
(***************************************************************************)
(* cmd/controller/main.go and EtcdStore.RunLeaderElection: a controller    *)
(* process starts, campaigns in Etcd, runs runAsLeader for a term, and     *)
(* resigns.  A session is known by the create revision of its key under    *)
(* /leader, which exists as long as the session's lease.                   *)
(***************************************************************************)
EXTENDS Integers

CONSTANTS
  Controllers,  \* the ha-controller processes
  RequireEtcd,  \* config.RequireEtcd
  Faults,       \* of "crash", "lease", "answer", "etcd"
  MaxSessions   \* bound on the sessions of a behaviour

ASSUME ElectionAssumption ==
  /\ RequireEtcd \in BOOLEAN
  /\ Faults \subseteq {"crash", "lease", "answer", "etcd"}
  /\ MaxSessions \in Nat

VARIABLES
  step,      \* where the controller's Run is
  session,   \* its session's key revision, 0: no session
  keys,      \* revisions of the keys that exist under /leader
  nextKey,   \* revision the next key gets
  ended,     \* controllers whose leader context is cancelled
  stopping,  \* processes that have got a signal
  memory     \* processes that run on a MemoryStore

vars == <<step, session, keys, nextKey, ended, stopping, memory>>

Steps == {"down", "session", "campaign", "leading", "resign"}

TypeOK ==
  /\ step \in [Controllers -> Steps]
  /\ session \in [Controllers -> Nat]
  /\ keys \in SUBSET (Nat \ {0})
  /\ nextKey \in Nat \ {0}
  /\ ended \in SUBSET Controllers
  /\ stopping \in SUBSET Controllers
  /\ memory \in SUBSET Controllers

Init ==
  /\ step = [c \in Controllers |-> "down"]
  /\ session = [c \in Controllers |-> 0]
  /\ keys = {}
  /\ nextKey = 1
  /\ ended = {}
  /\ stopping = {}
  /\ memory = {}

Goto(c, s) == step' = [step EXCEPT ![c] = s]

-----------------------------------------------------------------------------
(* main: the store is Etcd's if an endpoint answers ... *)
Start(c) ==
  /\ step[c] = "down"
  /\ Goto(c, "session")
  /\ UNCHANGED <<session, keys, nextKey, ended, stopping, memory>>

(* ... and a MemoryStore otherwise, which has no election, unless Etcd is  *)
(* required; the process then exits.                                       *)
StartWithoutEtcd(c) ==
  /\ "etcd" \in Faults
  /\ ~RequireEtcd
  /\ step[c] = "down"
  /\ memory' = memory \cup {c}
  /\ ended' = ended \ {c}
  /\ Goto(c, "leading")
  /\ UNCHANGED <<session, keys, nextKey, stopping>>

(* Mutant of JoinElection: the key is put for the session before. *)
JoinFormerSession(c) ==
  /\ step[c] = "session"
  /\ c \notin stopping
  /\ nextKey <= MaxSessions
  /\ keys' = keys \cup {session[c]}
  /\ session' = [session EXCEPT ![c] = nextKey]
  /\ nextKey' = nextKey + 1
  /\ Goto(c, "campaign")
  /\ UNCHANGED <<ended, stopping, memory>>

(* NewSession, and the put of the key under its lease.  An error is        *)
(* followed by another attempt a second later.                             *)
JoinElection(c) ==
  /\ step[c] = "session"
  /\ c \notin stopping
  /\ nextKey <= MaxSessions
  /\ keys' = keys \cup {nextKey}
  /\ session' = [session EXCEPT ![c] = nextKey]
  /\ nextKey' = nextKey + 1
  /\ Goto(c, "campaign")
  /\ UNCHANGED <<ended, stopping, memory>>

(* Mutant of Elected: Campaign returns without waiting. *)
ElectedAtOnce(c) ==
  /\ step[c] = "campaign"
  /\ ended' = IF c \in stopping THEN ended \cup {c} ELSE ended \ {c}
  /\ Goto(c, "leading")
  /\ UNCHANGED <<session, keys, nextKey, stopping, memory>>

(* Campaign returns when no older key is left; it does not look at the own *)
(* key, which may have expired meanwhile.                                  *)
Elected(c) ==
  /\ step[c] = "campaign"
  /\ \A k \in keys : k >= session[c]
  /\ ended' = IF c \in stopping THEN ended \cup {c} ELSE ended \ {c}
  /\ Goto(c, "leading")
  /\ UNCHANGED <<session, keys, nextKey, stopping, memory>>

(* Requests that end a session: the key is gone unless they fail. *)
EndSession(c) ==
  /\ keys' = keys \ {session[c]} \/ ("answer" \in Faults /\ UNCHANGED keys)
  /\ session' = [session EXCEPT ![c] = 0]

CampaignFails(c) ==
  /\ "answer" \in Faults \/ c \in stopping
  /\ step[c] = "campaign"
  /\ EndSession(c)
  /\ Goto(c, "session")
  /\ UNCHANGED <<nextKey, ended, stopping, memory>>

(* Mutant of SessionDone: a leader does not watch its session. *)
SessionDoneUnseen(c) == FALSE /\ UNCHANGED vars

(* The goroutine that waits for the end of the session cancels the leader  *)
(* context, some time after Etcd has dropped the lease, or ("lease")       *)
(* because the client has given up on a lease that Etcd still has.         *)
SessionDone(c) ==
  /\ step[c] = "leading"
  /\ c \notin memory
  /\ session[c] \notin keys \/ "lease" \in Faults
  /\ c \notin ended
  /\ ended' = ended \cup {c}
  /\ UNCHANGED <<step, session, keys, nextKey, stopping, memory>>

(* Mutant of TermOver: a leader whose context is cancelled takes a new one. *)
TermRenewed(c) ==
  /\ step[c] = "leading"
  /\ c \in ended
  /\ ended' = ended \ {c}
  /\ UNCHANGED <<step, session, keys, nextKey, stopping, memory>>

(* runAsLeader returns, the probe it may be in having come to its end, and *)
(* has taken back the flag and the context.                                *)
TermOver(c) ==
  /\ step[c] = "leading"
  /\ c \in ended
  /\ Goto(c, "resign")
  /\ UNCHANGED <<session, keys, nextKey, ended, stopping, memory>>

(* Resign and Close; a MemoryStore has nothing to give back. *)
Resign(c) ==
  /\ step[c] = "resign"
  /\ EndSession(c)
  /\ Goto(c, "session")
  /\ UNCHANGED <<nextKey, ended, stopping, memory>>

-----------------------------------------------------------------------------
(* The end of a process. *)

(* SIGTERM cancels the context of Run. *)
Signal(c) ==
  /\ step[c] # "down"
  /\ c \notin stopping
  /\ stopping' = stopping \cup {c}
  /\ ended' = ended \cup {c}
  /\ UNCHANGED <<step, session, keys, nextKey, memory>>

(* main returns when the HTTP server has shut down, whether or not Run has *)
(* resigned; a crash needs no signal.                                      *)
Exit(c) ==
  /\ step[c] # "down"
  /\ c \in stopping \/ "crash" \in Faults
  /\ session' = [session EXCEPT ![c] = 0]
  /\ ended' = ended \ {c}
  /\ stopping' = stopping \ {c}
  /\ memory' = memory \ {c}
  /\ Goto(c, "down")
  /\ UNCHANGED <<keys, nextKey>>

(* Mutant of Expire: the key has no lease. *)
ExpireNever(k) == FALSE /\ UNCHANGED vars

(* A lease runs out that no process keeps alive, or ("lease") the one of a *)
(* process that lags behind, is cut off or has got a signal.               *)
Expire(k) ==
  /\ k \in keys
  /\ "lease" \in Faults \/ \A c \in Controllers : session[c] # k
  /\ keys' = keys \ {k}
  /\ UNCHANGED <<step, session, nextKey, ended, stopping, memory>>

-----------------------------------------------------------------------------
RunStep(c) ==
  \/ JoinElection(c) \/ Elected(c) \/ CampaignFails(c)
  \/ SessionDone(c) \/ TermOver(c) \/ Resign(c)

Next ==
  \/ \E c \in Controllers :
       Start(c) \/ StartWithoutEtcd(c) \/ RunStep(c) \/ Signal(c) \/ Exit(c)
  \/ \E k \in keys : Expire(k)

Spec == Init /\ [][Next]_vars

(* The loop of a running process goes on, its watch of the session         *)
(* included; a lease that is not kept alive ends.                          *)
Fairness ==
  /\ \A c \in Controllers :
       /\ WF_vars(JoinElection(c)) /\ WF_vars(Elected(c)) /\ WF_vars(Resign(c))
       /\ WF_vars(session[c] \notin keys /\ SessionDone(c)) /\ WF_vars(TermOver(c))
  /\ \A k \in 1..MaxSessions : WF_vars(Expire(k) /\ \A c \in Controllers : session[c] # k)

FairSpec == Spec /\ Fairness

-----------------------------------------------------------------------------
(* Properties. *)

(* IsLeader() of the controller. *)
Leaders == {c \in Controllers : step[c] = "leading"}

(* Etcd elects a single leader (README.md:3): no two controllers have      *)
(* their leader flag set at a time.                                        *)
UniqueLeader == \A c, d \in Leaders : c = d

(* Of the controllers that lead, at most one still has its session: what   *)
(* the election gives whatever expires, crashes or fails.                  *)
OneLivingSession ==
  \A c, d \in Leaders : session[c] \in keys /\ session[d] \in keys => c = d

(* The terms of a controller are those that the monitoring relies on: the  *)
(* context is cancelled before runAsLeader returns, and never revived.     *)
Term == INSTANCE LeaderTerm WITH
          term <- [c \in Controllers |-> IF step[c] # "leading" THEN "standby"
                                         ELSE IF c \in ended THEN "cancelled" ELSE "leading"]
ImplementsTerms == Term!TermSpec

(* When the leader stops, another takes over (README.md:64): nobody waits  *)
(* forever in an election without a leader, left-over keys included.       *)
SomebodyLeads ==
  \A c \in Controllers : step[c] = "campaign" ~> Leaders # {} \/ step[c] # "campaign"

(* A leader that has lost its session in Etcd stops leading.               *)
StaleLeaderStops ==
  \A c \in Controllers :
    c \in Leaders \ memory /\ session[c] \notin keys ~> c \notin Leaders
=============================================================================
