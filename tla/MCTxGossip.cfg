SPECIFICATION FairSpec
CONSTANTS
  Cap = 3
  PerPeer = 2
  MaxTxCost = 4
  Peers = {"a", "b", "t"}
  Trusted = {"t"}
  Txs = {"x", "y", "z", "w"}
  Valid = {"x", "y", "z"}
  Locked = {"y"}
  Rivals <- MCRivals
  Beats <- MCBeats
  Local = {"x", "y", "z"}
  Price <- MCPrice
  Advert <- MCAdvert
  MaxBlockCost = 8
  Quote = 1
  Scenarios <- MCScenarios
INVARIANTS
  LanesExact
  FairShare
  AnnouncedPerAdmission
PROPERTY
  QueuedIsAdmitted
