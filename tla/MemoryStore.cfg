SPECIFICATION Spec
CONSTANTS
  Nodes = {n1, n2}
  None = None
  Switches = {s1, s2, s3}
  Settings = {a1, a2}
INVARIANT TypeOK
INVARIANT HolderAuthorized
PROPERTY ImplementsRegister
CHECK_DEADLOCK FALSE
