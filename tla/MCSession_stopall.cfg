\* All displays are stopped while one of them is disconnected.
SPECIFICATION SessionSpec
CONSTANTS
  s1 = s1
  s2 = s2
  p1 = p1
  p2 = p2
  o1 = o1
  o2 = o2
  image = image
  picture = picture
  video = video
  looped = looped
  None = None
  AllDisplays = AllDisplays
  Session = {s1}
  Process = {p1, p2}
  SessionOf <- OneSession
  Output = {o1}
  Connected <- EveryOutput
  Recipe = {image, video}
  Backend <- MCBackend
  BackendOf <- MCBackendOf
  FileOf <- MCFileOf
  OptionsOf <- MCOptionsOf
  Configured <- MCConfigured
  Shared <- MCShared
  SavedAtStart <- SavedTemplate
  MaxExecuting = 1
  KeepClosed = 0
  Kinds = {"apply_all", "restore", "recover", "settings", "stop"}
  MaxOps = 2
  MaxFaults = 1
  c1 = c1
  c2 = c2
  m1 = m1
  m2 = m2
  Connector = {c1, c2}
  Monitor = {m1, m2}
  Identified = {m1}
  Attempts = 1
  SnapshotLimit = 2
  MaxPlugs = 2
  MaxOrders = 1
  MaxUpsets = 1
  q1 = q1
  q2 = q2
  r1 = r1
  r2 = r2
  Display = {c1, c2}
  Probe = {r1, r2}
  NoProbe = NoProbe
  MaxAsks = 2
  MaxOthers = 1
  MaxPauses = 1
  MaxMisses = 1
  Criteria = {q1, q2}
  PageCount = 2
  MaxRevisions = 1
  MaxLoads = 4
  MaxSwitches = 1
  Parts = {"watcher"}

PROPERTIES StopCancelsRecovery
