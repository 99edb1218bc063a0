SPECIFICATION FairSpec
CONSTANTS
  NoOne = NoOne
  Member = {"ada", "bob"}
  Profile <- MCProfile
  Services <- Conductor
  Serves <- Everything
  Able <- Everything
  Relayed = {}
  Concurrent = {"ada"}
  Faults = {"stall", "operator", "takeover", "network"}
  MaxFaults = 2
  MaxWorld = 1
PROPERTY LostIsStoodDown
CHECK_DEADLOCK FALSE
