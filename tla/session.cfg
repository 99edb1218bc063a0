SPECIFICATION Spec
CONSTANTS
  Call = {c1, c2}
  MaxSplices = 1
  NetFaults = {"drop", "dial", "quiet", "late", "limit"}
  MaxNetFaults = 2
  Newcomer = {j1}
  MaxKnocks = 2
  MaxUpsets = 1
  BoxFaults = {"read", "prepare", "boot", "slow", "other", "late"}
  MaxBoxFaults = 2
  MaxAgain = 1
  Cycle = {c1, c2}
  QueueDepth = 2
  BatchSize = 1
  MaxEmitters = 2
  MaxTickets = 2
  MaxLines = 1
  MaxRefusals = 1
  CountCap = 3
INVARIANTS TypeOK 
PROPERTIES NothingStays  KnocksArrive SelectionStays
CHECK_DEADLOCK FALSE
