SPECIFICATION Spec
CONSTANTS
  Blocks <- MCBlocks
  Parent <- MCParent
  Weight <- MCWeight
  Iters <- MCIters
  Overflow <- MCOverflow
  Finished <- MCFinished
  Bundles <- MCBundles
  Points <- MCPoints
  SubSlotIters = 3
  NumSps = 3
  MaxKeys = 1
  MaxPerKey = 2
  FeedCap = 1
  MaxBatch = 2
INVARIANTS
  SlotsConnected
  CandidateSound
PROPERTY
  ReleasesParked
