SPECIFICATION Spec
CONSTANTS
  Msgs = {m1}
  Workers = {w1, w2}
  None = None
  QueueSize = 1
  MaxVersion = 2
  MaxEvents = 3
INVARIANTS
  
  LossIsReported
  AgreesWhenQuiet
PROPERTIES
  TailEnds
CHECK_DEADLOCK FALSE
