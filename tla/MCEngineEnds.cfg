SPECIFICATION FairSpec
CONSTANTS
  Kind <- OneKind
  NoPid = "none"
  Rule <- SlowRules
  GlobalRule <- BlockRules
  MaxPackets = 2
  MaxBytes = 3
  MaxPidPackets = 2
  MaxPidBytes = 3
  MaxDelay = 1
  Horizon = 1
  MaxArrivals = 1
  MaxCommands = 1
  MaxStarts = 1
  Fault = {"send", "fatal", "panic", "recv", "shutdown", "filter", "spawn", "wake"}
  MaxFaults = 1
PROPERTIES
  StopCompletes
  AbortEnds
  PacketsLeave
CHECK_DEADLOCK FALSE
