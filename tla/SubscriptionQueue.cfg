SPECIFICATION FairSpec
CONSTANTS
  Subs = {1, 2}
  Events = {1, 2}
  a = a
  b = b
  Replicas = {a, b}
  Tokens = {old, new}
  Refusable = {old}
  None = None
  Batch = 1
  Limit = 1
  MaxFaults = 1
  MaxCalls = 2
  Workers <- MCWorkers
  Ledger <- MCLedger
  From <- MCFrom
  Rank <- MCRank
INVARIANTS SettledForAReason RepeatsBounded QuietAfterSettled DailyLimitKept ValidTokenKept
PROPERTIES FirstInOrder EventuallyTold
CHECK_DEADLOCK FALSE
