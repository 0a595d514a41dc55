SPECIFICATION FairSpec
CONSTANTS
  a1 = a1  a2 = a2  a3 = a3 
  NConn = 2
  Addr <- MCAddr
  MaxConns = 2
  AddrReuse = TRUE
PROPERTY StopEndsOrFeedBlocks
CHECK_DEADLOCK FALSE
