\* One operation on two outputs, every kind of it, with one fault; the watcher over two connectors
\* and two monitors, one with an identity, and a failure; two Applies over two displays, observed
\* by the window; two queries of two pages at two revisions.
SPECIFICATION SessionSpec
CONSTANTS
  s1 = s1
  s2 = s2
  p1 = p1
  p2 = p2
  o1 = o1
  o2 = o2
  image = image
  picture = picture
  video = video
  looped = looped
  None = None
  AllDisplays = AllDisplays
  Session = {s1}
  Process = {p1}
  SessionOf <- OneSession
  Output = {o1, o2}
  Connected <- EveryOutput
  Recipe = {image, picture, video, looped}
  Backend <- MCBackend
  BackendOf <- MCBackendOf
  FileOf <- MCFileOf
  OptionsOf <- MCOptionsOf
  Configured <- MCConfigured
  Shared <- MCShared
  SavedAtStart <- SavedMixed
  MaxExecuting = 1
  KeepClosed = 1
  Kinds = {"apply_all", "apply_set", "restore", "recover", "settings", "stop"}
  MaxOps = 1
  MaxFaults = 1
  c1 = c1
  c2 = c2
  m1 = m1
  m2 = m2
  Connector = {c1, c2}
  Monitor = {m1, m2}
  Identified = {m1}
  Attempts = 1
  SnapshotLimit = 2
  MaxPlugs = 2
  MaxOrders = 1
  MaxUpsets = 1
  q1 = q1
  q2 = q2
  r1 = r1
  r2 = r2
  Display = {c1, c2}
  Probe = {r1, r2}
  NoProbe = NoProbe
  MaxAsks = 2
  MaxOthers = 1
  MaxPauses = 1
  MaxMisses = 1
  Criteria = {q1, q2}
  PageCount = 2
  MaxRevisions = 1
  MaxLoads = 4
  MaxSwitches = 1
  Parts = {"operations", "watcher", "view", "list"}
INVARIANTS SessionTypeOK ReportTruthful OutsideUntouched NotOutrun OneSnapshot
PROPERTIES UncertainLeftAlone RestoreWanted FairlyRestored
