CONSTANTS
  Addresses = {"m", "a", "u"}
  Miner = "m"
  Us = "u"
  InitialReward = 4
  HalvingInterval = 3
  MaxMoney = 6
  MtpWindow = 3
  GenesisTime = 1
  ActivationTime = 3
  MaxTxs = 2
  TxBudget = 2
  Scripts = {"htlc", "both", "late"}
  CodeOf <- MCCodeOf
  MaySpend <- MCMaySpend
  TxLists <- MCTxLists
  Mempools <- MCMempools
  Clock = {2, 4}
  MaxBlocks = 4
  MaxFound = 2
  MaxHeight = 4
  MaxOps = 20
  MaxStack = 6
  MaxKeys = 3
  NumLimit = 1000
  LockTimeClock = 5
SPECIFICATION Spec
INVARIANTS
  StatesSound
  SpendsAuthorised
  TemplatesAccepted
  EarningsMatchChain
