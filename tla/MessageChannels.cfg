SPECIFICATION CallSpec
CONSTANTS
  c1 = c1
  c2 = c2
  c3 = c3
  Channels = {c1, c2, c3}
  Order <- OrderOfThree
  Workers = {w1, w2}
  NoChannel = NoChannel
INVARIANTS
  OneWorkerPerChannel
  ReportsTrue
  StopsOnFailure
PROPERTIES
  KeepsContract
  LeavesNoOne
CHECK_DEADLOCK FALSE
