CONSTANTS
  Node <- Paths
  Lists <- TwoLists
  DockerFaults = 2
SPECIFICATION FairSpec
INVARIANTS SuccessIsWhole InOrder BuilderGoes
PROPERTIES ImplementsCallTree ListEnds CancelReturns
CHECK_DEADLOCK FALSE
