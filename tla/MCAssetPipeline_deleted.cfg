CONSTANTS
  w1 = w1
  w2 = w2
  Assets = {a1}
  Editors = {}
  Workers = {w1, w2}
  NoWorker = NoWorker
  MaxLost = 1
SPECIFICATION Spec
PROPERTY DeletedStaysDeleted
CHECK_DEADLOCK FALSE
