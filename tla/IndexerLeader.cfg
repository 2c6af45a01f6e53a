SPECIFICATION Spec
\* The system stops when every process it may start is down.
CHECK_DEADLOCK FALSE
CONSTANTS
  Replicas = {r1, r2}
  None = None
  PoolSize = 2
  MaxOpened = 4
  MaxStarts = 2
INVARIANTS
  OneIndexerUnlessLapsed
PROPERTIES
  EventuallyLed
