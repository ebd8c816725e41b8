SPECIFICATION FairSpec
CONSTANTS
  NumCores = 5
  NumTeams = 4
  HandlerCounts = {0, 1, 2, 9}
  Varies = FALSE
  Specified = {0, 2, 3}
  MaxOffloads = 3
  MaxRegions = 4
  MaxTeams = 3
INVARIANTS CoresExact MembersJoin
PROPERTY RuntimeProgress
CHECK_DEADLOCK FALSE
