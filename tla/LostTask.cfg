SPECIFICATION FairSpec
CONSTANTS
  Nodes = {1, 2}
  None = None
  Controllers = {c1}
  MaxReplicaLagSeconds = 0
  FailureThreshold = 1
  ExecuteActions = TRUE
  AutoFailoverExecute = FALSE
  AlertWebhookURL = FALSE
  Reports <- OnePrimary
  Requests = {}
  Faults = {"task"}
  MaxEpoch = 0
PROPERTY OutageReported
