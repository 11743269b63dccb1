SPECIFICATION FairSpec
CONSTANTS
  MaxHeight = 2
  Target = 2
  Sizes = {1, 2}
  Budget = 1
  Batch = 2
  NearTip = 1
  Depth = 1
  StallTicks = 1
  ChannelCap = 1
  MaxFaults = 1
INVARIANTS
  NoHoles
  OnlyCurrentGeneration
  ReplyOwed
  OvershootAtMostOneWindow
PROPERTY
  CatchesUp
