SPECIFICATION FairSpec
CONSTANTS
  empty = empty  single = single  layered = layered  broken = broken
  Other <- MCOther
  Undecodable <- MCUndecodable
  Default = Default
  None = None
  Entries <- MCEntries
  Frame <- MCFrame
  Loads <- MCLoads
  HourLength = 2
  LastHour = 1
  NDrops = 1
INVARIANTS TypeOK InForceIsAnnounced TracesSound RangeFindsFrames
PROPERTY UpdatesArrive
