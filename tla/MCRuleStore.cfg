SPECIFICATION Spec
CONSTANTS
  Pid = {1, 2}
  Name <- MCName
  NoName = NoName
  Limit = {0, 1}
  Globals <- MCGlobals
  Opening <- MCOpening
  MaxLimit = 2000
INVARIANT TypeOK EngineFollows
PROPERTY NewcomersCovered Restored LeftAsShown
