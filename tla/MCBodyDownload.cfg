SPECIFICATION FairSpec
CONSTANTS
  Workers = {w1, w2, w3}
  MaxHeight = 4
  Capacity = 3
  Batch = 2
  MaxFailures = 2
  MaxFaults = 1
  MaxAttempts = 2
INVARIANTS
  WindowExact
  FeedIsWhole
PROPERTY
  AttemptEnds
