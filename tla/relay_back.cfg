SPECIFICATION FairSpec
CONSTANTS
  Holder = {"ada", "bob"}
  Key = {"git"}
  KeyOf <- AllGit
  Ceiling = 1
  MaxConns = 3
  Faults = {"link", "slow", "restart"}
  MaxFaults = 2
  NoConn = NoConn
PROPERTY StaysPublished
CHECK_DEADLOCK FALSE
