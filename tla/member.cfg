SPECIFICATION Spec
CONSTANTS
  MaxShortExits = 1
  MaxRuns = 2
  MaxLandings = 2
  DevFaults = {"crash", "exec", "git", "hook", "net"}
  MaxDevFaults = 1
  SubRoom = 1
  OutRoom = 1
  MaxLines = 4
  MaxParts = 2
  MaxOpen = 1
  LogFaults = {"cut", "move"}
  MaxLogFaults = 1
  Pid = {p1, p2}
  Verb = {v1}
  NoPid = NoPid
  MaxCrashes = 1
  MaxTyped = 2
  MaxOutput = 2
  MaxCommands = 2
INVARIANTS TypeOK  
PROPERTIES ComesBack  WhoWaitsComesBack
CHECK_DEADLOCK FALSE
