SPECIFICATION Spec
CONSTANTS
  Target <- MCTarget
  Size = 15
  Batch = 667
  Quiet = 1
  Window = 5
  Edits = 3
INVARIANTS
  TypeOK
PROPERTIES
  SettlesBelow
  KeepsPassing
