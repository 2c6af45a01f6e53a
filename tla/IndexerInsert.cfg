CONSTANTS
  a = a
  b = b
  Replicas <- One
  Events <- MCEvents
  LedgerOf <- MCLedgerOf
  Valid <- AllValid
  StartLedger = 1
  RpcLimit = 2
  MaxPerPage = 2
  ExpiryRetries = 1
  MaxLedger = 3
  Faults = {"insert"}
  MaxFaults = 1
SPECIFICATION Spec
INVARIANT CheckpointCovers
