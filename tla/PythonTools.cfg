SPECIFICATION PartsSpec
CONSTANTS
  p1 = p1
  p2 = p2
  big = big
  t1 = t1
  t2 = t2
  d1 = d1
  d2 = d2
  None = None
  Threads <- MCThreads
  Paths <- MCPaths
  Digests <- MCDigests
  Size <- MCSize
  MaxSize = 2
  HostCapacity = 2
  PinnedCapacity = 1
  MaxCalls = 3
  MaxFaults = 2
  MaxRuns = 2
SYMMETRY Symmetry
INVARIANTS FingerprintBound CachedWasVerified TiersAreExact WarmGetHits
  PublishedArmsAgree IgnoredOptionIsRefused SummaryNamesItsFiles HonestRunIsPublished
CHECK_DEADLOCK FALSE
