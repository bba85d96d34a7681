CONSTANTS
  Blocks <- MCBlocks
  Genesis = "g"
  Parent <- MCParent
  Height <- MCHeight
  BlockWork <- MCBlockWork
  Flaw <- MCFlaw
  Retain = 1
  Own <- MCOwn
  Seen <- MCSeen
  Anchor = "c2"
  AnchorWork <- MCAnchorWork
  SessionCount = 1
  MaxAttempts = 2
  None = "none"
SPECIFICATION FairCoordSpec
INVARIANTS
  GrindsOnTip
  NoPrivateFork
  QueuedIsCurrent
  EndedStaysOff
  StatesRetired
PROPERTIES
  AdoptedBecomesTip
  BusyEnds
  SolveResumes
CHECK_DEADLOCK FALSE
