SPECIFICATION MCSpec
CONSTANTS
  Movers = {"writers"}
  e1 = e1
  e2 = e2
  g1 = g1
  g2 = g2
  Entries <- MCOneEntry
  Generations <- MCGenerations
  Default = g1
  Streams <- MCStreams
  RebuildWatermarks <- MCRebuild
  MaxRetries = 1
  u1 = u1
  u2 = u2
  v1 = v1
  v2 = v2
  Users = {u1, u2}
  MemoryIds = {1, 2, 3}
  VersionIds = {v1, v2}
  None = None
  Content <- MCContent
  Requests <- MCRequests
SYMMETRY MCSymmetry
INVARIANT
  FailedDeleteShows
CHECK_DEADLOCK FALSE
