SPECIFICATION Spec
CONSTANTS
  Kind <- OneKind
  NoPid = "none"
  Rule <- ChangingRules
  GlobalRule <- SlowRules
  MaxPackets = 2
  MaxBytes = 3
  MaxPidPackets = 2
  MaxPidBytes = 3
  MaxDelay = 1
  Horizon = 2
  MaxArrivals = 2
  MaxCommands = 2
  MaxStarts = 1
  Fault = {}
  MaxFaults = 0
INVARIANTS
  TypeOK
  FilterCurrent
PROPERTIES
  BlockIsFinal
  SentInOrder
CHECK_DEADLOCK FALSE
