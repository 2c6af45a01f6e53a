SPECIFICATION Spec
\* The system stops when no event, request or shutdown is left.
CHECK_DEADLOCK FALSE
CONSTANTS
  c1 = c1
  c2 = c2
  Clients <- MCOne
  Multi <- MCNone
  Careless <- MCNone
  Selected <- MCAll
  RestReaders <- MCNone
  Wants <- MCAll
  IpOf <- MCIpOf
  MaxConnections = 2
  MaxPerIp = 0
  Capacity = 1
  ReplayLimit = 4
  Channel = 4
  MaxLag = 0
  MaxEvents = 4
  MaxStored = 4
  MaxArrivals <- MCMaxArrivals
PROPERTIES
  AllReplayed
