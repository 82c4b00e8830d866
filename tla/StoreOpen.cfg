SPECIFICATION Spec
CONSTANTS
  Procs = {p1, p2}
  Keys = {k1, k2}
  MaxCrashes = 1
INVARIANTS
  MarksHonest
  OpenIsReady
PROPERTIES
  StartsEnd
CHECK_DEADLOCK FALSE
