SPECIFICATION FairSpec
CONSTANTS
  NumCores = 2
  Clauses = {0}
  Bodies <- LateBodies
  HandlerCounts = {0}
  Again = FALSE
  Mixed = FALSE
  MaxOffloads = 1
  MaxRegions = 1
INVARIANTS DynamicOnce
CHECK_DEADLOCK FALSE
