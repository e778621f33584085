SPECIFICATION FairSpec
CONSTANTS
  Nodes = {1, 2, 3}
  None = None
  Controllers = {c1}
  MaxReplicaLagSeconds = 1
  FailureThreshold = 2
  ExecuteActions = TRUE
  AutoFailoverExecute = FALSE
  AlertWebhookURL = TRUE
  Reports <- OnePrimary
  Requests = {}
  Faults = {}
  MaxEpoch = 0
INVARIANTS ChoiceMatchesSwitch DryRunLessStrict
PROPERTY FeedAlternates
PROPERTY FeedSettles
PROPERTY OutageReported
