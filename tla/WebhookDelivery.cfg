CONSTANTS
  Wanted <- MCWanted
  Channel = 2
  MaxAttempts = 2
  Limit = 1
  Window = 1
  MaxBackoff = 3
  MaxEvents = 4
  MaxTime = 2
  MaxFaults = 1
SPECIFICATION Spec
CHECK_DEADLOCK FALSE
INVARIANTS BurstBounded DeferredForAReason
PROPERTIES ImplementsFates EventuallyDecided
