\* One request at a time, with imports from the remote.
CONSTANTS
  c1 = c1
  c2 = c2
  m1 = m1
  m2 = m2
  a = a
  A = A
  b = b
  Providers = {p1}
  Models = {m1, m2}
  Purposes = {}
  Clients = {c1}
  ProviderNames = {preset}
  PresetName = preset
  Names = {a, A, b}
  Fold <- CaseFold
  RemoteLists <- OneRemote
  None = None
  MaxFaults = 0
SPECIFICATION Spec
INVARIANT ModelsUnique
