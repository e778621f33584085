SPECIFICATION Spec
CONSTANTS
  Nodes = {1, 2}
  None = None
  Controllers = {c1}
  MaxReplicaLagSeconds = 0
  FailureThreshold = 1
  ExecuteActions = TRUE
  AutoFailoverExecute = FALSE
  AlertWebhookURL = FALSE
  Reports <- FailingPrimary
  Requests = {"auto", "switch"}
  Faults = {"term", "crash", "etcd", "task", "lease"}
  MaxEpoch = 1
INVARIANT TypeOK
PROPERTY DryRunOnce
PROPERTY RecordEstablished
