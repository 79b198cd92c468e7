CONSTANTS
  Inst = {i1}
  Session = {s1, s2}
  CleanRequest = {r1}
  Janitor = Janitor
  NoInst = NoInst
  TTL = 1
  PruneAge = 2
  DockerFaults = 1
  DbFaults = 1
  Crashes = 1
SPECIFICATION FairSpec
INVARIANTS NullWhileUsed CleanedIsGone NoRunawayContainer KeepsContainer
PROPERTIES OnlyKillInterrupts ReclaimedUnlessNull
