CONSTANTS
  Blocks <- MCBlocks
  Genesis = "g"
  Parent <- MCParent
  Height <- MCHeight
  BlockWork <- MCBlockWork
  Flaw <- MCFlaw
  Retain = 1
  Own <- MCOwn
  Seen <- MCSeen
  Anchor = "c2"
  AnchorWork <- MCAnchorWork
  SessionCount = 2
  MaxAttempts = 2
  None = "none"
SPECIFICATION RestartSpec
PROPERTY AdoptedBecomesTip
CHECK_DEADLOCK FALSE
