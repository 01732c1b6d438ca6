\* Two part requests, a complete and a cancel request and the clean-up, on a
\* file of two blocks.
CONSTANTS
  u1 = u1
  u2 = u2
  Length = 2
  ChunkSizes = {1, 2}
  Uploaders = {u1, u2}
  Completers = {c1}
  Cancelers = {x1}
  Cleaner = cleaner
  MaxInodes = 7
  MaxAssets = 1
  MaxCrashes = 1
  MaxPartRequests = 4
  MaxRequests = 4
SPECIFICATION MCSpec
SYMMETRY UploaderSymmetry
INVARIANTS TypeOK PartsWhole VerifiedWhenAlone
CHECK_DEADLOCK FALSE
