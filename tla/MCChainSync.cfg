CONSTANTS
  Blocks <- DeepBlocks
  Genesis = "g"
  Parent <- MCParent
  Height <- MCHeight
  BlockWork <- MCBlockWork
  Flaw <- MCFlaw
  Retain = 4
  Page = 3
  CatchupOverlap = 1
  WidenFactor = 2
  MaxOverlap = 2
  SnapshotDepth = 3
  Honest = FALSE
  Lies <- MCLies
  Published <- Early
SPECIFICATION SyncSpec
INVARIANTS
  FalseMeansUnchanged
  SnapshotReadable
PROPERTIES
  ResetOnlyBeyondTolerance
