SPECIFICATION ListSpec
CONSTANTS
  Callers = {c1, c2, c3}
  None = None
  Times = {8, 15, 18, 21, 24, 27, 32}
  Unit = 10
  ThreadPage = 2
  Gap = 2
  Jitter = 1
INVARIANTS
  ListsHonest
PROPERTIES
  GapKept
  CallsEnd
CHECK_DEADLOCK FALSE
