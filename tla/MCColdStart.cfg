CONSTANTS
  HelperCount = 2
  RotateThreshold = 3
  StaleRounds = 3
  Cores = 2
  NetTip = 3
  Depth = 1
  PageSize = 2
  BlockRounds = 2
SPECIFICATION Spec
INVARIANTS
  ChainTrusted
  BadPrimaryEvicted
PROPERTIES
  OutagesKeepFile
  StartEnds
