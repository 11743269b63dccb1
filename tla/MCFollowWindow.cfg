SPECIFICATION WSpec
CONSTANTS
  g = g a1 = a1 b1 = b1 b2 = b2 d2 = d2 d3 = d3 b3 = b3 c0 = c0 ca = ca cb = cb
  Blocks <- MCBlocks
  Genesis = g
  Parent <- MCParent
  Height <- MCHeight
  Weight <- MCWeight
  Path <- MCPath
  Coins <- MCCoins
  Adds <- MCAdds
  Removes <- MCRemoves
  CacheCapacity = 3
  WarmDepth = 2
  WalkDepth = 2
  Horizon = 1
  ReportCap = 2
  MaxFailures = 1
  MaxCrashes = 1
  MaxWindow = 3
  MaxDrains = 1
  MaxFaults = 2
CHECK_DEADLOCK FALSE
INVARIANTS
  WindowsKeepCoins
  WindowReportsItsBlocks
PROPERTIES
  WindowsImplementLedger
