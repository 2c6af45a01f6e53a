CONSTANTS
  a = a
  b = b
  Replicas <- One
  Events <- MoreEvents
  LedgerOf <- MoreLedgerOf
  Valid <- MoreValid
  StartLedger = 0
  RpcLimit = 3
  MaxPerPage = 2
  ExpiryRetries = 1
  MaxLedger = 3
  Faults <- EveryFault
  MaxFaults = 2
SPECIFICATION Spec
INVARIANTS LossAccounted BelowCurrentCovered SentOncePerLife
PROPERTIES ImplementsLog EventuallySettled
