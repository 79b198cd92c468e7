CONSTANTS
  Client = {c1}
  Returning = {}
  DisableAutoPull = FALSE
  ForceInactive = {FALSE}
  EarlySignal = FALSE
  Observed = {}
  Triggered = {}
  Sharing = {}
  Faults = 0
SPECIFICATION Spec
INVARIANT RunBlocks
CHECK_DEADLOCK FALSE
