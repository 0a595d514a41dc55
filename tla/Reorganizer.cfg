SPECIFICATION FairSpec
CONSTANTS
  NFrames = 7
  Ping <- MCPing
  Ts <- MCTs
  MaxCacheFrames = 3
  FillEveryNFrames = 2
  PingsRepeat = FALSE
INVARIANTS TypeOK CacheIsNewest FlushHandsNewest
PROPERTIES SubmitTerminates ImplementsFrameWindow
CHECK_DEADLOCK FALSE
