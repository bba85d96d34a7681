CONSTANTS
  Blocks <- MCBlocks
  Genesis = "g"
  Parent <- MCParent
  Height <- MCHeight
  BlockWork <- MCBlockWork
  Flaw <- MCFlaw
  Retain = 2
SPECIFICATION Spec
INVARIANTS
  TreeSound
  PrunedIsPrefix
PROPERTY TipOnlyOutweighed
