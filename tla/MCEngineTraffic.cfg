SPECIFICATION Spec
CONSTANTS
  Kind <- AllKinds
  NoPid = "none"
  Rule <- FilterRules
  GlobalRule <- FilterGlobals
  MaxPackets = 1
  MaxBytes = 1
  MaxPidPackets = 2
  MaxPidBytes = 3
  MaxDelay = 1
  Horizon = 1
  MaxArrivals = 2
  MaxCommands = 1
  MaxStarts = 1
  Fault = {}
  MaxFaults = 0
INVARIANTS
  Accounted
CHECK_DEADLOCK FALSE
