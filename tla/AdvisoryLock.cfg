CONSTANTS
  t1 = t1  t2 = t2  procA = procA
  Callers <- MCCallers
  Instances = {procA}
  InstanceOf <- Shared
  MaxRetries = 2
  MaxEpoch = 3
  MaxAbandoned = 2
SPECIFICATION Spec
INVARIANTS HolderHasServerLock OneLiveHolder LevelsAccounted AcquiringMeansOneInside
PROPERTY StaleOnlyAfterLoss
