----------------------------- MODULE EtcdStore -----------------------------
(***************************************************************************)
(* The keys under /ha/<cluster>/ in Etcd and the operations of             *)
(* store.EtcdStore on them.  A lock session belongs to one controller      *)
(* operation, so leases, lock keys and switch authorizations are all named *)
(* by the operation that owns them.  Every operator is one Etcd request.   *)
(***************************************************************************)
EXTENDS HACluster

CONSTANT Ops  \* controller operations: Switch and SetAutoFailover calls

ASSUME OpsAssumption == None \notin Ops

VARIABLES
  cluster,     \* /cluster: model.ClusterState
  clusterRev,  \* ModRevision of /cluster
  ticket,      \* create revision of the operation's /switch-lock/ key, 0: no key
  nextTicket,  \* revision the next lock key gets
  lease,       \* operations whose session lease is alive
  operation,   \* /switch-operation: the authorized operation, or None
  tasks        \* /tasks/<id>: persisted state of the operation's task

etcdVars == <<cluster, clusterRev, ticket, nextTicket, lease, operation, tasks>>

TaskStates == {"none", "running", "dry-run", "failed", "completed"}

EtcdTypeOK ==
  /\ cluster \in ClusterState
  /\ clusterRev \in Nat
  /\ ticket \in [Ops -> Nat]
  /\ nextTicket \in Nat \ {0}
  /\ lease \in SUBSET Ops
  /\ operation \in Ops \cup {None}
  /\ tasks \in [Ops -> TaskStates]

(* A recorded primary p, and the flag as an earlier call left it. *)
EtcdInit(p, a) ==
  /\ cluster = [primary |-> p, epoch |-> 0, auto |-> a]
  /\ clusterRev = 1
  /\ ticket = [o \in Ops |-> 0]
  /\ nextTicket = 1
  /\ lease = {}
  /\ operation = None
  /\ tasks = [o \in Ops |-> "none"]

-----------------------------------------------------------------------------
(* NewSession and the first transaction of mutex.Lock: a lease, and a lock *)
(* key with the next create revision.                                      *)
CreateLockKey(o) ==
  /\ lease' = lease \cup {o}
  /\ ticket' = [ticket EXCEPT ![o] = nextTicket]
  /\ nextTicket' = nextTicket + 1
  /\ UNCHANGED <<cluster, clusterRev, operation, tasks>>

(* Mutant of OwnsLock: a caller waits for the keys behind its own, too. *)
OwnsOnlyLock(o) == ticket[o] > 0 /\ \A p \in Ops \ {o} : ticket[p] = 0

(* mutex.Lock returns when the own key exists and no older one does. *)
OwnsLock(o) ==
  /\ ticket[o] > 0
  /\ \A p \in Ops \ {o} : ticket[p] > 0 => ticket[o] < ticket[p]

(* Put of /switch-operation under the session's lease. *)
PutOperation(o) ==
  /\ o \in lease
  /\ operation' = o
  /\ UNCHANGED <<cluster, clusterRev, ticket, nextTicket, lease, tasks>>

(* The release function's Delete of /switch-operation: it names the key    *)
(* only, whatever operation it holds by then.                              *)
DeleteOperation ==
  /\ operation' = None
  /\ UNCHANGED <<cluster, clusterRev, ticket, nextTicket, lease, tasks>>

(* A lease ends, by revocation or expiry, and its keys go with it. *)
EndLease(o) ==
  /\ lease' = lease \ {o}
  /\ ticket' = [ticket EXCEPT ![o] = 0]
  /\ operation' = IF operation = o THEN None ELSE operation
  /\ UNCHANGED <<cluster, clusterRev, nextTicket, tasks>>

(* mutex.Unlock without session.Close, which revokes the lease with the    *)
(* context of the operation and fails when that is cancelled.              *)
DeleteLockKey(o) ==
  /\ ticket' = [ticket EXCEPT ![o] = 0]
  /\ UNCHANGED <<cluster, clusterRev, nextTicket, lease, operation, tasks>>

(* Mutant of PutClusterIfRev: a plain Put after the comparison of epochs. *)
PutClusterBlindly(rev, state) ==
  /\ cluster' = state
  /\ clusterRev' = clusterRev + 1
  /\ UNCHANGED <<ticket, nextTicket, lease, operation, tasks>>

(* The transaction of PutClusterIfEpoch: put if the key still has the      *)
(* ModRevision rev of the read that compared the epoch.                    *)
PutClusterIfRev(rev, state) ==
  /\ clusterRev = rev
  /\ cluster' = state
  /\ clusterRev' = clusterRev + 1
  /\ UNCHANGED <<ticket, nextTicket, lease, operation, tasks>>

PutTask(o, state) ==
  /\ tasks' = [tasks EXCEPT ![o] = state]
  /\ UNCHANGED <<cluster, clusterRev, ticket, nextTicket, lease, operation>>

(* The TTL of a session passes without a keepalive reaching Etcd. *)
LeaseExpires(o) ==
  /\ o \in lease
  /\ EndLease(o)
=============================================================================
