SPECIFICATION FairSpec
CONSTANTS
  None = None
  Nodes = {n1, n2}
  Controllers = {c1}
  Ops = {a, b}
  Settings = {b}
  Automatic = {a}
  Txns = {t1}
  Restored = {t1}
  BootWritable = {}
  MayRestart = {}
  MaxReplicaLagSeconds = 0
  ExecuteActions = TRUE
  AutoFailoverExecute = FALSE
  Faults = {"crash", "lease"}
INVARIANT TypeOK
PROPERTY ImplementsRegister
PROPERTY OperationEnds
CHECK_DEADLOCK FALSE
