SPECIFICATION FairSpec
CONSTANTS
  c1 = c1  c2 = c2
  CellSize = 2
  Caller <- MCCaller
  Batch <- MCBatch
  NCalls = 2
  SearchRadius = 1
  MinPointsForKriging = 2
  MinKrigingNeighbors = 3
  MaxKrigingNeighbors = 4
  Config <- MCConfig
  AutoFitVariogram = FALSE
INVARIANTS TypeOK AccountsAgree GridIsBatch EligibleFilled OwnResult
  NearestChosen
PROPERTY CallsReturn
CHECK_DEADLOCK FALSE
