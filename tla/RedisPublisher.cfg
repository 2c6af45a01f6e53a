CONSTANTS
  Channel = 2
  MaxBuffer = 2
  MaxRetries = 3
  MaxEvents = 6
  MaxOutages = 3
  MaxLost = 2
  MaxCrashes = 1
SPECIFICATION Spec
CHECK_DEADLOCK FALSE
INVARIANTS StreamInOrder NewestKept
PROPERTY EventuallyPublished
