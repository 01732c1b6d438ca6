\* Batches that may outlive their leases: two workers, one cancel request.
CONSTANTS
  w1 = w1
  w2 = w2
  q1 = q1
  q2 = q2
  NumTasks = 2
  Workers = {w1, w2}
  Cancelers = {c1}
  Queues = {q1}
  WorkerQueue <- OneQueue
  NoWorker = NoWorker
  Priorities <- TwoPriorities
  RequestedMax = {0}
  DefaultMaxAttempts = 2
  Limit = 2
  Lease = 1
  SlowWork = TRUE
  MaxFaults = 1
SPECIFICATION Spec
SYMMETRY WorkerSymmetry
INVARIANTS
  RowsCoherent
  RunningIsAttended
PROPERTY SettledIsFinal
