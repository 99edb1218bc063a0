SPECIFICATION FairSpec
CONSTANTS
  NoOne = NoOne
  Member = {"ada", "bob"}
  Profile <- MCProfile
  Services <- Conductor
  Serves <- Everything
  Able <- AllButAda
  Relayed = {}
  Concurrent = {}
  Faults = {"stall", "network", "crash", "takeover"}
  MaxFaults = 2
  MaxWorld = 1
INVARIANT ServingIsHeld
PROPERTIES NoNeedlessStandDown QuietWhenStuck
CHECK_DEADLOCK FALSE
