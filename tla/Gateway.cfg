SPECIFICATION Spec
CONSTANTS
  MaxEvents = 2
  MaxConns = 4
INVARIANTS
  CursorHolds
PROPERTIES
  OnceAndInOrder
  KeepsALiveSession
  DeliveryGoesOn
  RunEnds
CHECK_DEADLOCK FALSE
