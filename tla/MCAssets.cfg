\* One asset, one editor and two workers; walks over three assets; downloads of
\* three items and images of up to 12 pixels; two sessions on two libraries, two
\* categories and an item, none or one library at the start.
CONSTANTS
  w1 = w1
  w2 = w2
  Assets = {a1}
  Editors = {e1}
  Workers = {w1, w2}
  NoWorker = NoWorker
  MaxLost = 1
  MaxListed = 3
  MaxPageSize = 2
  PageSizes = {1, 3}
  Files <- TwoFiles
  Sentences <- ThreeSentences
  MaxArchived = 3
  MaxSource = 12
  MaxSides = {0, 1, 3, 5}
  s1 = s1
  s2 = s2
  d = d
  w = w
  LibrarySessions = {s1, s2}
  Names = {d, w}
  DefaultName = d
  WorkflowName = w
  NoId = NoId
  BatchSizes = {1}
  MaxLibraries = 2
  MaxCategories = 2
  MaxItems = 1
  MaxLibraryRequests = 3
SPECIFICATION MCSpec
SYMMETRY Symmetric
CHECK_DEADLOCK FALSE
INVARIANTS ReadyIsServable TasksAndRowsAgree ListedExactlyOnce ArchiveComplete ThumbnailFits LibraryExplained
PROPERTIES DeletionSticks LastLibraryStays
