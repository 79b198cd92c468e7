CONSTANTS
  SpecID = {s1}
  Poster = {p1, p2, p3}
  SyncCleaner = {k1}
  AsyncCleaner = {}
  Legacy = {s1}
  HangUps = 0
  DockerFaults = 0
  DbFaults = 1
  NoSpec = NoSpec
  NoInst = NoInst
  NoImage = NoImage
  ByTag = ByTag
SYMMETRY Symmetry
SPECIFICATION Spec
INVARIANTS AnswersMoveForward TwinsOverlap SyncResets
CHECK_DEADLOCK FALSE
