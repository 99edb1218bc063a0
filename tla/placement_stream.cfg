SPECIFICATION Spec
CONSTANTS
  NoOne = NoOne
  Member = {"ada", "bob"}
  Profile <- MCProfile
  Services <- Conductor
  Serves <- Everything
  Able <- Everything
  Relayed = {}
  Concurrent = {"bob"}
  Faults = {"lag", "network", "crash"}
  MaxFaults = 1
  MaxWorld = 0
INVARIANTS TypeOK ExclusiveService LeasedWhileEngaged
PROPERTY ImplementsContract
CHECK_DEADLOCK FALSE
