SPECIFICATION FairSpec
CONSTANTS
  Commands = {"k3x-convert", "stream-glm5x"}
  ShardList <- TwoShards
  Extents = 3
  Chunks = 2
  MaxCrashes = 3
  MaxRuns = 2
  MaxVersions = 2
INVARIANTS LedgerIsTrue PublishedIsWhole BundleIsVerified
PROPERTIES DeletionIsSafe CommandEnds
CHECK_DEADLOCK FALSE
