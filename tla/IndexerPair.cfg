CONSTANTS
  a = a
  b = b
  Replicas <- Both
  Events <- FewEvents
  LedgerOf <- FewLedgerOf
  Valid <- FewEvents
  StartLedger = 0
  RpcLimit = 2
  MaxPerPage = 2
  ExpiryRetries = 0
  MaxLedger = 2
  Faults = {"insert", "commit", "crash"}
  MaxFaults = 1
SPECIFICATION Spec
SYMMETRY Swap
INVARIANTS TwiceOnlyAfterRollback NeitherSkips
