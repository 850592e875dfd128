SPECIFICATION Spec
CONSTANTS
  Commands = {"k3x-convert"}
  ShardList <- OneShard
  Extents = 2
  Chunks = 2
  MaxCrashes = 2
  MaxRuns = 1
  MaxVersions = 1
INVARIANT ConversionResumes
CHECK_DEADLOCK FALSE
