SPECIFICATION Spec
CONSTANTS
  Target <- MCLowTarget
  Size = 15
  Batch = 667
  Quiet = 1
  Window = 5
  Edits = 2
PROPERTIES
  KeepsPassing
