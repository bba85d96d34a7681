CONSTANTS
  w1 = w1
  w2 = w2
  Workers <- MCWorkers
  MaxFastFails = 2
  MaxCrashes = 3
  MaxGen = 3
  MaxLines = 2
SPECIFICATION EngineFairSpec
INVARIANTS
  RangesAccounted
  NoneGroundTwice
PROPERTIES
  EnginesServe
  TemplatesEnd
CHECK_DEADLOCK FALSE
