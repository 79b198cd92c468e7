CONSTANTS
  Output <- Bytes
  Messages = 2
  Retries = 2
SPECIFICATION FairSpec
INVARIANTS OutputKept NothingRunsAfter
CHECK_DEADLOCK FALSE
PROPERTY EitherEndReturns
