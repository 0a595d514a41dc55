SPECIFICATION FairSpec
CONSTANTS
  a1 = a1  a2 = a2  a3 = a3
  NConn = 3
  Addr <- MCAddr
  MaxConns = 2
  AddrReuse = FALSE
INVARIANTS TypeOK ConnsReconcile ServedIsTracked ServingBounded QuietAfterStop
PROPERTY StopEndsOrFeedBlocks
CHECK_DEADLOCK FALSE
