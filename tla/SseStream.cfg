SPECIFICATION Spec
\* The system stops when no event, request or shutdown is left.
CHECK_DEADLOCK FALSE
CONSTANTS
  c1 = c1
  c2 = c2
  Clients <- MCClients
  Multi <- MCOther
  Careless <- MCOne
  Selected <- MCAll
  RestReaders <- MCOne
  Wants <- MCWants
  IpOf <- MCIpOf
  MaxConnections = 2
  MaxPerIp = 3
  Capacity = 3
  ReplayLimit = 1
  Channel = 2
  MaxLag = 2
  MaxEvents = 4
  MaxStored = 2
  MaxArrivals <- MCMaxArrivals
INVARIANTS
  SlotsAccounted
  OvershootBounded
  MissedAccounted
  OneRepeat
PROPERTIES
  EventuallyReceived
  FramesInOrder
