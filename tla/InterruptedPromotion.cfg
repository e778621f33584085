SPECIFICATION Spec
CONSTANTS
  None = None
  Nodes = {n1, n2, n3}
  Controllers = {c1}
  Ops = {a, b}
  Settings = {}
  Automatic = {}
  Txns = {t1}
  Restored = {t1}
  BootWritable = {}
  MayRestart = {}
  MaxReplicaLagSeconds = 0
  ExecuteActions = TRUE
  AutoFailoverExecute = FALSE
  Faults = {}
INVARIANT SingleWriter
CHECK_DEADLOCK FALSE
