SPECIFICATION FairSpec
CONSTANTS
  Members = {1, 2}
  Conductors = {"laptop"}
  Local = {}
  MaxCommits = 12
  MaxEdits = 1
  MaxPulls = 1
  MaxFixes = 1
  Faults = {"link", "resolver", "sloppy", "stop"}
  MaxFaults = 2
INVARIANTS TypeOK BranchesStayClean
PROPERTIES NothingIsUndone IndexIsClean ReachesMainUnlessLeftBehind MarkersAreHealed
CHECK_DEADLOCK FALSE
