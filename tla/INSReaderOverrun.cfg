SPECIFICATION Spec
CONSTANTS
  Datagram <- MCDatagram
  MaxBytes = 22
  FrameSize = 4
  TSSize = 2
  Capacity = 16
  TimestampOf <- MCTimestampOf
  Parses <- MCParses
  Behind = 1
  Ahead = 2
  ValidRange = 2
  Now0 = 5
  MaxNow = 6
INVARIANT FramesContiguous
CHECK_DEADLOCK FALSE
