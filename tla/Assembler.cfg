SPECIFICATION FairSpec
CONSTANTS
  Byte <- MCByte
  SyncWord <- MCSyncWord
  HeaderByteSize = 3
  MinFrameSize = 3
  MaxFrameSize = 4
  PktLen <- MCPktLen
  Verdict <- MCVerdict
  Chunks <- MCChunks
  MaxConsecutiveErrors = 4
  MaxBytes = 20
INVARIANTS TypeOK BufferBounded AlignedOnSync ScanSkipsNoSync
  HealthyFeedFits StatsReconcile
PROPERTIES ImplementsFrameStream FeedTerminates
CHECK_DEADLOCK FALSE
