SPECIFICATION FairSpec
CONSTANTS
  Workers = {w1, w2}
  Handlers = {h1}
  Dma = Dma
  Pages = {1, 2, 3, 5, 8}
  Unmapped = {8}
  NumSets = 2
  EntriesPerSet = 2
  NumRecent = 1
  MaxAccesses = 4
  MaxQueued = 2
INVARIANTS RecentIsMapped OneEntryPerPage
PROPERTY MissServed
CHECK_DEADLOCK FALSE
