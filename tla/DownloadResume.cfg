SPECIFICATION Spec
CONSTANTS
  Commands = {"stream-glm5x"}
  ShardList <- OneShard
  Extents = 2
  Chunks = 2
  MaxCrashes = 2
  MaxRuns = 1
  MaxVersions = 1
INVARIANT DownloadResumes
CHECK_DEADLOCK FALSE
