\* One thread of the scheduler at a time over two sources, with maintenance and a failed round;
\* rounds over a source that is added; the window with a command and a round that scan; the
\* watchers of one source; three instances of the GUI.
SPECIFICATION ServicesSpec
CONSTANTS
  a = a
  b = b
  w1 = w1
  repair = repair
  gui = gui
  cli = cli
  i1 = i1
  i2 = i2
  i3 = i3
  None = None
  All = All
  Partial = Partial
  Source = {a, b}
  Configured = {a}
  Worker = {w1}
  Pauser = {repair}
  Debounce = 1
  RateLimit = 1
  MaxChanges = 1
  MaxRequests = 1
  MaxExpiries = 0
  MaxFaults = 1
  Watchable = {a}
  MaxGeneration = 4
  MaxSignature = 1
  MaxEdits = 2
  MaxFailures = 3
  r1 = r1
  r2 = r2
  Read = {r1, r2}
  NoRead = NoRead
  MaxCommands = 1
  MaxRounds = 1
  MaxHides = 1
  MaxLosses = 1
  Instance = {i1, i2, i3}
INVARIANTS ServicesTypeOK SourcesWatched Watched SingleInstance
PROPERTIES FairlyGranted FairlyScanned FairlySettled FairlyCaughtUp
