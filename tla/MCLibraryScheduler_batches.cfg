\* Two threads and two maintenance tasks over two sources.
SPECIFICATION Spec
CONSTANTS
  a = a
  b = b
  w1 = w1
  w2 = w2
  repair = repair
  restore = restore
  None = None
  All = All
  Source = {a, b}
  Configured = {a}
  Worker = {w1, w2}
  Pauser = {repair, restore}
  Debounce = 1
  RateLimit = 1
  MaxChanges = 1
  MaxRequests = 1
  MaxExpiries = 1
  MaxFaults = 1
INVARIANTS OneThreadPerSource ChangeRemembered ReloadOutstanding FirstPauseAlone
SYMMETRY Interchangeable
CONSTRAINT Budget
