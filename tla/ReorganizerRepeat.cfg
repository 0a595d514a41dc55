SPECIFICATION FairSpec
CONSTANTS
  NFrames = 7
  Ping <- MCPing
  Ts <- MCTs
  MaxCacheFrames = 3
  FillEveryNFrames = 2
  PingsRepeat = TRUE
INVARIANT HeapBounded
CHECK_DEADLOCK FALSE
