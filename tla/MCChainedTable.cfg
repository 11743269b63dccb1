SPECIFICATION Spec
CONSTANTS
  Keys = {"k1", "k2", "k3"}
  Bucket <- MCBucket
  MaxPayload = 1
  Modes = {"batch", "single"}
  Torn = FALSE
  MaxCrashes = 2
INVARIANT
  ChainsSound
PROPERTY
  LookupsMove
