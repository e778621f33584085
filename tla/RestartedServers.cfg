SPECIFICATION Spec
CONSTANTS
  None = None
  Nodes = {n1, n2, n3}
  Controllers = {c1}
  Ops = {a}
  Settings = {}
  Automatic = {}
  Txns = {t1, t2}
  Restored = {t1}
  BootWritable = {n1}
  MayRestart = {n1, n2, n3}
  MaxReplicaLagSeconds = 0
  ExecuteActions = TRUE
  AutoFailoverExecute = FALSE
  Faults = {"crash", "lease", "answer", "leader"}
SYMMETRY SwitchSymmetry
INVARIANTS OneWriter NoLostWrite CompletedTopology
CHECK_DEADLOCK FALSE
