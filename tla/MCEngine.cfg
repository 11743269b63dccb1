SPECIFICATION FairSpec
CONSTANTS
  g = g a1 = a1 a2 = a2 a3 = a3 b1 = b1 b2 = b2 b3 = b3 d2 = d2 e3 = e3
  c0 = c0 c1 = c1 ca = ca cb = cb
  Blocks <- MCBlocks
  Genesis = g
  Parent <- MCParent
  Height <- MCHeight
  Weight <- MCWeight
  Path <- MCPath
  Coins <- MCCoins
  Adds <- MCAdds
  Removes <- MCRemoves
  CacheCapacity = 3
  WarmDepth = 2
  WalkDepth = 3
  Horizon = 1
  ReportCap = 2
  MaxFailures = 1
  MaxCrashes = 1
CHECK_DEADLOCK FALSE
INVARIANTS
  FlagsMatchPeak
  CoinsReplayChain
  ChainSpendsValid
  BranchesReplayable
PROPERTIES
  ReorgsReported
  ImplementsLedger
  HeaviestWins
