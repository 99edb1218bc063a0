SPECIFICATION FairSpec
CONSTANTS
  Members = {1, 2}
  Conductors = {"laptop"}
  Local = {}
  MaxCommits = 9
  MaxEdits = 2
  MaxPulls = 0
  MaxFixes = 0
  Faults = {"stop"}
  MaxFaults = 1
PROPERTY PushedWorkReachesMain
CHECK_DEADLOCK FALSE
