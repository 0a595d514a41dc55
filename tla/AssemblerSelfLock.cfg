SPECIFICATION FairSpec
CONSTANTS
  Byte <- MCByte
  SyncWord <- MCSyncWord
  HeaderByteSize = 3
  MinFrameSize = 3
  MaxFrameSize = 4
  PktLen <- MCPktLen
  Verdict <- MCVerdict
  Chunks <- MCChunks
  MaxConsecutiveErrors = 1
  MaxBytes = 9
PROPERTY InvalidLengthResyncs
CHECK_DEADLOCK FALSE
