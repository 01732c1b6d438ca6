\* Two requests at once, one provider, two models, every operation; the preset
\* of qwen over two models; two sessions on two prompt libraries, two categories
\* and an item.
CONSTANTS
  c1 = c1
  c2 = c2
  m1 = m1
  m2 = m2
  a = a
  A = A
  b = b
  Providers = {p1}
  Models = {m1, m2}
  Purposes = {chat}
  Clients = {c1, c2}
  ProviderNames = {preset}
  PresetName = preset
  Names = {a, b}
  Fold <- CaseFold
  RemoteLists <- TwoRemote
  None = None
  MaxFaults = 1
  Keys = {"qwen"}
  Words <- TwoModels
  Titles = {"qwen", "mine"}
  s1 = s1
  s2 = s2
  PromptSessions = {s1, s2}
  NoPromptId = NoId
  MaxPromptLibraries = 2
  MaxPromptCategories = 2
  MaxPromptItems = 1
  MaxPromptRequests = 5
SPECIFICATION MCSpec
SYMMETRY SymmetricAll
CHECK_DEADLOCK FALSE
INVARIANTS DeletedLeavesNothing ImportSettles PromptLossExplained
PROPERTIES ProviderGoneForGood ModelDeletionSticks ChoicesKept ActiveIsOurs
