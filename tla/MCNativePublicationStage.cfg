SPECIFICATION Spec
CONSTANTS
  Vms = {v1}
  v1 = v1
  Fns = {f1}
  f1 = f1
  Blocks = {b1}
  b1 = b1
  Null = Null
INVARIANTS
  StageIsFurthestCompleted
CHECK_DEADLOCK FALSE
