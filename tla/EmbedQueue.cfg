SPECIFICATION Spec
CONSTANTS
  Messages = {1, 2}
  Workers = {w1, w2}
  BatchSize = 2
  StaleAfter = 1
  MaxInterrupts = 1
INVARIANTS
  DoneHasVector
  FailedWasTried
  OneHolderInTime
PROPERTIES
  SettledStays
  Settles
