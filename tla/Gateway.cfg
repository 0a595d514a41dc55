SPECIFICATION FairSpec
CONSTANTS
  h1 = h1  h2 = h2
  Handler <- MCHandler
  Udp = udp
  Ins = ins
  NPings = 3
  MaxCacheFrames = 2
  FillEveryNFrames = 1
  AutoFitVariogram = TRUE
INVARIANTS TypeOK HubOutlivesLinks NothingLeftBehind
PROPERTY StopEndsOrHangs
CHECK_DEADLOCK FALSE
