CONSTANTS
  Caller = {c1, c2, c3}
  Stopper = {s1, s2}
  NoStopper = NoStopper
SPECIFICATION FairSpec
INVARIANTS QueuedForOwed AtMostTwoMore
PROPERTIES ImplementsTask AcceptedRunHappens StopReturns
