SPECIFICATION FairSpec
CONSTANTS
  Holder = {"ada", "bob"}
  Key = {"git"}
  KeyOf <- AllGit
  Ceiling = 1
  MaxConns = 3
  Faults = {"link", "crash", "limit", "close"}
  MaxFaults = 2
  NoConn = NoConn
INVARIANT TypeOK NoOrphanTunnel
PROPERTY LiveTunnelStays 
CHECK_DEADLOCK FALSE
