SPECIFICATION Spec
CONSTANTS
  Blocks <- MCBlocks
  Genesis = "g"
  Parent <- MCParent
  Height <- MCHeight
  Weight <- MCWeight
  Path <- MCPath
  Coins <- MCCoins
  Adds <- MCAdds
  Removes <- MCRemoves
  Bundle <- MCBundle
  Puzzle <- MCPuzzle
  ParentCoin <- MCParentCoin
  Stamp <- MCStamp
  MaxBlockCost = 7
  Overhead = 1
  Buffer = 1
  FeeLimit = 20
  FeeSumLimit = 17
  MinFeeIncrease = 1
  MinFpc = 1
  SpendPenalty = 1
  ExpiringBlocks = 2
  ExpiringTime = 10
  PendingCap = 1
  ConflictCap = 1
  SeenCap = 1
  Followers = {f1, f2}
  Submitters = {"rpc"}
  Invalid = {"v"}
  LossKinds = {"window"}
  MaxLosses = 1
SYMMETRY FollowerSymmetry
INVARIANTS
  PoolAccounts
  NoRivals
  ResidentsSpendable
  LocksHold
  NoOverdueParked
