CONSTANTS
  HoursPerDay = 4
  Schedules <- AllSchedules
  QuietWindows <- AllWindows
  Channel = 2
  Wanted <- MCWanted
  Critical <- MCCritical
  MaxEvents = 4
  MaxCrashes = 1
SPECIFICATION Spec
INVARIANTS OneDigestPerPeriod MailedOnce
PROPERTY EventuallyMailed
