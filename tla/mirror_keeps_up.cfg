SPECIFICATION FairSpec
CONSTANTS
  ChanCap = 1
  MaxFolded = 1
  SnapshotEvery = 2
  MaxMain = 1
  MaxMoves = 1
  Faults = {"drop", "black", "refused", "unseen", "sync", "unreachable", "fetch", "git", "crash", "command"}
  MaxFaults = 1
INVARIANTS TypeOK 
PROPERTY CatchesUpUnlessMisled
