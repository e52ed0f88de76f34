\* A source is removed while it is pending and then the kernel loses events.
SPECIFICATION FairSpec
CONSTANTS
  a = a
  b = b
  w1 = w1
  w2 = w2
  repair = repair
  restore = restore
  None = None
  All = All
  Source = {a, b}
  Configured = {a, b}
  Worker = {w1}
  Pauser = {}
  Debounce = 1
  RateLimit = 1
  MaxChanges = 1
  MaxRequests = 1
  MaxExpiries = 0
  MaxFaults = 0
PROPERTIES FollowUpNotLost
