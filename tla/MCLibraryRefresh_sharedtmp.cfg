\* Two exports through the same temporary file.
SPECIFICATION Spec
CONSTANTS
  a = a
  b = b
  gui = gui
  worker = worker
  cli = cli
  other = other
  None = None
  Partial = Partial
  Source = {a}
  Configured = {a}
  Proc = {gui, cli}
  Gui = {gui}
  Kinds = {"background", "rescan"}
  MaxVersion = 2
  MaxRequests = 1
  MaxExpiries = 0
  MaxFaults = 0
INVARIANTS QuietStaleMarked
