SPECIFICATION FairSpec
CONSTANTS
  t1 = t1
  t2 = t2
  t3 = t3
  Threads <- MCThreads
  Master = t1
  Programs <- MCPrograms
  MaxRegions = 2
  PoolSize = 1
  MaxWs = 5
  MaxOther = 1
  Embedded = TRUE
  NoThread = NoThread
  NoWs = NoWs
INVARIANTS EachIterationOnce NoStaleWs PoolExact
PROPERTY RegionsEnd
CHECK_DEADLOCK FALSE
