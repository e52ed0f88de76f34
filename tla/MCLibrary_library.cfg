\* Rounds of a scheduler and of a command line over one source, with a fault; full rescans of
\* two processes over two sources; two readers of one query, a restore of the GUI or a
\* repair of another process, and an error of the observer.
SPECIFICATION LibraryRunSpec
CONSTANTS
  a = a
  b = b
  gui = gui
  cli = cli
  restore = restore
  foreign = foreign
  t1 = t1
  t2 = t2
  q1 = q1
  None = None
  Partial = Partial
  Source = {a}
  Configured = {a}
  Proc = {gui, cli}
  Gui = {gui}
  Kinds = {"targeted", "background", "rescan", "remove", "recursive"}
  MaxVersion = 2
  MaxRequests = 2
  MaxExpiries = 1
  MaxFaults = 1
  Process = {gui, cli}
  Client = {t1, t2}
  Maintainer = {restore, foreign}
  ProcessOf <- Owner
  Candidate = {0, 2}
  Pauser = {restore}
  Worker = {}
  GuiProcess = gui
  Query = {q1}
  MaxPages = 1
  MaxCommits = 1
  MaxErrors = 1
INVARIANTS LibraryRunTypeOK ScanExclusive ChangeCovered AloneStaleMarked PageOfItsRevision FlightsLed OutdatedNoticed
PROPERTIES SourcesMirrored BackgroundOnlyWhenDue OneLibrary
SYMMETRY Interchangeable
CHECK_DEADLOCK FALSE
CONSTRAINT Budget
