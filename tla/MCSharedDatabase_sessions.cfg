\* Two sessions that share the saved assignments and the journal; three processes that start on
\* any kind of database, back it up, restore or repair it, and a mishap.
SPECIFICATION SharedSpec
CONSTANTS
  s1 = s1
  s2 = s2
  p1 = p1
  p2 = p2
  o1 = o1
  o2 = o2
  image = image
  picture = picture
  video = video
  looped = looped
  None = None
  AllDisplays = AllDisplays
  Session = {s1, s2}
  Process = {p1, p2}
  SessionOf <- TwoSessions
  Output = {o1}
  Connected <- EveryOutput
  Recipe = {image, video, looped}
  Backend <- MCBackend
  BackendOf <- MCBackendOf
  FileOf <- MCFileOf
  OptionsOf <- MCOptionsOf
  Configured <- MCConfigured
  Shared <- MCShared
  SavedAtStart <- SavedTemplate
  MaxExecuting = 2
  KeepClosed = 0
  Kinds = {"apply_all", "apply_set", "settings"}
  MaxOps = 2
  MaxFaults = 0
  u1 = u1
  u2 = u2
  u3 = u3
  earlier = earlier
  flat = flat
  entered = entered
  Upkeeper = {u1, u2, u3}
  Entry = {earlier, flat, entered}
  Flat = {flat}
  Supplied <- OlderBackup
  Start <- AnyStart
  MaxMishaps = 1
INVARIANTS JournalCoversMutation AbandonedRowsClosed StartedCurrent
PROPERTIES FingerprintFaithful CommitShowsTruth NothingLost
