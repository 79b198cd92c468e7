CONSTANTS
  SpecID = {s1, s2}
  Poster = {p1, p2}
  SyncCleaner = {}
  AsyncCleaner = {k1}
  Legacy = {s2}
  HangUps = 1
  DockerFaults = 1
  DbFaults = 1
  NoSpec = NoSpec
  NoInst = NoInst
  NoImage = NoImage
  ByTag = ByTag
SYMMETRY Symmetry
SPECIFICATION Spec
INVARIANTS RecordedIsWhole TakenBack
CHECK_DEADLOCK FALSE
