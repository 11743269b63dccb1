SPECIFICATION Spec
CONSTANTS
  g = g a1 = a1 a2 = a2 a3 = a3 a4 = a4 b1 = b1 b2 = b2 b3 = b3 c0 = c0 ca = ca cb = cb
  Blocks <- MCBlocks
  Genesis = g
  Parent <- MCParent
  Height <- MCHeight
  Weight <- MCWeight
  Path <- MCPath
  Coins <- MCCoins
  Adds <- MCAdds
  Removes <- MCRemoves
  Scenarios <- Held
CHECK_DEADLOCK FALSE
INVARIANTS
  CoinsFollowPeak
  ConfirmedOnChain
  CoinsUpToPeak
