SPECIFICATION FairSpec
CONSTANTS
  Controllers = {c1, c2}
  RequireEtcd = FALSE
  Faults = {"crash", "answer", "lease", "etcd"}
  MaxSessions = 5
  Unset = Unset
  Bad = Bad
  MaxNumber = 1
  AgentIDs = {n1}
  MaxAgents = 2
INVARIANTS TypeOK OneLivingSession RunsWithinAssumptions RunsAsTold
PROPERTIES ImplementsTerms SomebodyLeads StaleLeaderStops
