SPECIFICATION FairSpec
CONSTANTS
  NumCores = 3
  Clauses = {0, 1, 2, 5}
  Bodies <- MCBodies
  HandlerCounts = {0, 1}
  Again = FALSE
  Mixed = FALSE
  MaxOffloads = 2
  MaxRegions = 3
INVARIANTS SingleOnce StaticExact NoIterationLost
PROPERTY RegionReturns
CHECK_DEADLOCK FALSE
