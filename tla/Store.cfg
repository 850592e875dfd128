CONSTANTS
  a = a
  b = b
  c = c
  o = o
  t1 = t1
  t2 = t2
  Keys <- MCKeys
  Bytes <- MCBytes
  MaxBytes = 5
  Layer <- MCLayer
  Threads <- MCThreads
  Capacity = 4
  Modes = {"static", "lru", "lfu", "least_stale", "profiled"}
  Callers <- MCCallers
  MaxCalls <- MCMaxCalls
  MaxAccessSets <- MCMaxAccessSets
  Scores = {0, 1}
SPECIFICATION FairSpec
CHECK_DEADLOCK FALSE
INVARIANTS TypeOK SingleFlight ExactCapacity ExactAccounting
PROPERTIES ProtectedStay StaleGoFirst IsBoundedCache EveryCallReturns
