SPECIFICATION Spec
CONSTANTS
  Packet <- MCPacket
  MaxPackets = 3
  MaxBytes = 4
  MaxPidPackets = 2
  MaxPidBytes = 3
  MaxDelay = 1
  Horizon = 2
  MaxSequence = 4
INVARIANTS
  TypeOK
  FlowOrder
  TailExact
  CountsExact
  BytesExact
  WithinLimits
  DelayBounds
PROPERTIES
  ReleaseMakesDue
  ImplementsDelayLine
