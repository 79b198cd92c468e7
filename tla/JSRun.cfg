SPECIFICATION FairSpec
PROPERTY InterruptReturns
CHECK_DEADLOCK FALSE
