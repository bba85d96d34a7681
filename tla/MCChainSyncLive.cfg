CONSTANTS
  Blocks <- TieBlocks
  Genesis = "g"
  Parent <- MCParent
  Height <- MCHeight
  BlockWork <- MCBlockWork
  Flaw <- MCFlaw
  Retain = 4
  Page = 5
  CatchupOverlap = 1
  WidenFactor = 2
  MaxOverlap = 2
  SnapshotDepth = 3
  Honest = TRUE
  Lies = {}
  Published <- Early
SPECIFICATION FairSyncSpec
PROPERTIES
  EventuallySynced
  NoSuccessAtGenesis
  ImplementsBlockTree
