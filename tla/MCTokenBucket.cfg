SPECIFICATION Spec
CONSTANTS
  Rate <- MCRate
  Size <- MCSize
  Horizon = 4
INVARIANTS
  TypeOK
  WithinRate
PROPERTIES
  Generous
