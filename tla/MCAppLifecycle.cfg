CONSTANTS
  Client = {c1, c2}
  Returning = {c2}
  DisableAutoPull = FALSE
  ForceInactive = {TRUE, FALSE}
  EarlySignal = TRUE
  Observed = {"checkExpired", "cleanInactive"}
  Triggered = {"checkExpired"}
  Sharing = {c1}
  Faults = 1

SPECIFICATION FairSpec
INVARIANTS LeavesNothing TasksQuiet NoSendAfterStop
PROPERTIES WaitsForSessions ShutdownReturns
CHECK_DEADLOCK FALSE
