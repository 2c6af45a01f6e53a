CONSTANTS
  r1 = r1  r2 = r2
  Callers <- MCReplicas
  Instances <- MCReplicas
  InstanceOf <- OwnInstance
  MaxRetries = 2
  MaxEpoch = 1
  MaxAbandoned = 1
  Migrations = 2
  MaxCrashes = 1
SPECIFICATION MSpec
CHECK_DEADLOCK FALSE
INVARIANTS AppliedOnceInOrder OkMeansMigrated
PROPERTY RunReturns
