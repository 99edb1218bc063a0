SPECIFICATION Spec
CONSTANTS
  Box = {"box1", "box2"}
  Joiner = {"ada"}
  Nowhere = "nowhere"
  MaxGen = 3
  MaxMade = 2
  HostFaults = {"die", "lapse", "lost", "lag", "net"}
  MaxHostFaults = 2
  Kind = {k1, k2}
  HealthStreak = 1
  MaxFleets = 2
  MaxLogged = 2
  MaxAhead = 1
  FleetFaults = {"agent", "drop", "git", "ail"}
  MaxFleetFaults = 1
INVARIANTS TypeOK 
PROPERTIES GitIsServed  
CHECK_DEADLOCK FALSE
