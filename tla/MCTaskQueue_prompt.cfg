\* Batches that end within their lease: three tasks, batches of two, faults, cancellations.
CONSTANTS
  w1 = w1
  w2 = w2
  q1 = q1
  q2 = q2
  NumTasks = 3
  Workers = {w1, w2}
  Cancelers = {c1}
  Queues = {q1}
  WorkerQueue <- OneQueue
  NoWorker = NoWorker
  Priorities = {0}
  RequestedMax = {0}
  DefaultMaxAttempts = 2
  Limit = 2
  Lease = 1
  SlowWork = FALSE
  MaxFaults = 1
SPECIFICATION Spec
SYMMETRY WorkerSymmetry
INVARIANTS
  ExclusiveWhenPrompt
PROPERTY ImplementsLeasedWork
