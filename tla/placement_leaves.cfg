SPECIFICATION FairSpec
CONSTANTS
  NoOne = NoOne
  Member = {"ada", "bob"}
  Profile <- MCProfile
  Services <- Conductor
  Serves <- Everything
  Able <- Everything
  Relayed = {}
  Concurrent = {}
  Faults = {"close", "stall", "crash"}
  MaxFaults = 2
  MaxWorld = 0
PROPERTY EventuallyServed
CHECK_DEADLOCK FALSE
