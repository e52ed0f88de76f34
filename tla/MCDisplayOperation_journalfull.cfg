\* A journal full of rows of a session that is over.
SPECIFICATION Spec
CONSTANTS
  s1 = s1
  s2 = s2
  p1 = p1
  p2 = p2
  o1 = o1
  o2 = o2
  image = image
  picture = picture
  video = video
  looped = looped
  None = None
  AllDisplays = AllDisplays
  Session = {s1, s2}
  Process = {p1, p2}
  SessionOf <- TwoSessions
  Output = {o1}
  Connected <- EveryOutput
  Recipe = {image, video}
  Backend <- MCBackend
  BackendOf <- MCBackendOf
  FileOf <- MCFileOf
  OptionsOf <- MCOptionsOf
  Configured <- MCConfigured
  Shared <- MCShared
  SavedAtStart <- SavedTemplate
  MaxExecuting=1
  KeepClosed = 0
  Kinds = {"apply_all", "apply_set", "settings"}
  MaxOps = 2
  MaxFaults=1
INVARIANTS AbandonedProgressIsClosed
