SPECIFICATION Spec
CONSTANTS
  Kind <- OneKind
  NoPid = "none"
  Rule <- SlowRules
  GlobalRule <- BlockRules
  MaxPackets = 2
  MaxBytes = 3
  MaxPidPackets = 2
  MaxPidBytes = 3
  MaxDelay = 1
  Horizon = 2
  MaxArrivals = 2
  MaxCommands = 1
  MaxStarts = 2
  Fault = {"send", "fatal", "panic", "recv", "shutdown", "open", "filter", "spawn", "wake"}
  MaxFaults = 1
INVARIANTS
  Accounted
  FinishedOnce
  NothingStranded
  FailuresReported
  FilterGone
  OnlyStoppingDrains
CHECK_DEADLOCK FALSE
