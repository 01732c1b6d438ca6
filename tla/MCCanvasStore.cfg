\* Two sessions on one canvas, with the default project and another.
CONSTANTS
  s1 = s1
  s2 = s2
  e1 = e1
  e2 = e2
  Canvases = {k1}
  Projects = {default, p1}
  Default = default
  Sessions = {s1, s2}
  Edits = {e1, e2}
  None = None
  Retention = 0
  MaxTime = 3
SPECIFICATION Spec
SYMMETRY Symmetric
INVARIANTS TypeOK NoSilentLoss DeletedProjectIsEmpty
PROPERTY TrashKept
