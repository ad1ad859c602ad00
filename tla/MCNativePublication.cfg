SPECIFICATION Spec
CONSTANTS
  Vms = {v1, v2}
  v1 = v1
  v2 = v2
  Fns = {f1}
  f1 = f1
  Blocks = {b1, b2, b3}
  b1 = b1
  b2 = b2
  b3 = b3
  Null = Null
SYMMETRY Symmetry
INVARIANTS
  TypeOK
  PublishedIsRunnable
  OwnedOnce
  LiveCountExact
  AllOrNothing
CHECK_DEADLOCK FALSE
