\* One reader, one commit: a page is loaded before the commit and inserted after the observer has
\* emptied the cache.
SPECIFICATION ServiceSpec
CONSTANTS
  a = a
  b = b
  gui = gui
  cli = cli
  restore = restore
  foreign = foreign
  t1 = t1
  t2 = t2
  q1 = q1
  None = None
  Partial = Partial
  Source = {a}
  Configured = {a}
  Proc = {gui, cli}
  Gui = {gui}
  Kinds = {"targeted", "background", "rescan", "remove"}
  MaxVersion = 2
  MaxRequests = 2
  MaxExpiries = 1
  MaxFaults = 1
  Process = {gui, cli}
  Client = {t1}
  Maintainer = {}
  ProcessOf <- Owner
  Candidate = {0}
  Pauser = {}
  Worker = {}
  GuiProcess = gui
  Query = {q1}
  MaxPages = 1
  MaxCommits = 1
  MaxErrors = 0
PROPERTIES OutdatedPagesLeave
CHECK_DEADLOCK FALSE
