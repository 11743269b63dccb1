SPECIFICATION AssemblySpec
CONSTANTS
  Blocks <- MCBlocks
  Genesis = "g"
  Parent <- MCParent
  Height <- MCHeight
  Weight <- MCWeight
  Path <- MCPath
  Coins <- MCCoins
  Adds <- MCAdds
  Removes <- MCRemoves
  Bundle <- MCBundle
  Puzzle <- MCPuzzle
  ParentCoin <- MCParentCoin
  Stamp <- MCStamp
  MaxBlockCost = 8
  Overhead = 1
  Buffer = 2
  FeeLimit = 20
  FeeSumLimit = 100
  MinFeeIncrease = 1
  MinFpc = 1
  SpendPenalty = 1
  ExpiringBlocks = 2
  ExpiringTime = 10
  PendingCap = 1
  ConflictCap = 1
  SeenCap = 1
  SpendCost = 1
  MaxSpends = 4
  MaxSkipped = 3
  PriorityThreshold = 2
  MinCost = 1
  MaxCoinAmount = 30
INVARIANTS
  BlockSpendable
  BundlesWhole
  RefusedOnlyByRivals
  BudgetKept
