CONSTANTS
  w1 = w1
  w2 = w2
  Workers <- MCWorkers
  MaxFastFails = 2
  MaxCrashes = 3
  MaxGen = 2
  MaxQueue = 1
SPECIFICATION FairSpec
PROPERTIES
  ExhaustedMeansScanned
CHECK_DEADLOCK FALSE
