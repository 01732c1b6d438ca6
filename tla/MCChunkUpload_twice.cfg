CONSTANTS
  u1 = u1
  u2 = u2
  Length = 1
  ChunkSizes = {1}
  Uploaders = {u1}
  Completers = {c1, c2}
  Cancelers = {}
  Cleaner = cleaner
  MaxInodes = 5
  MaxAssets = 1
  MaxCrashes = 0
  MaxPartRequests = 0
  MaxRequests = 3
SPECIFICATION MCSpec
INVARIANT CompletedAssetsHaveChecksum
CHECK_DEADLOCK FALSE
