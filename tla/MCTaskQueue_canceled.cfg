\* The documented finality of canceled, against the code.
CONSTANTS
  w1 = w1
  w2 = w2
  q1 = q1
  q2 = q2
  NumTasks = 1
  Workers = {w1, w2}
  Cancelers = {c1}
  Queues = {q1}
  WorkerQueue <- OneQueue
  NoWorker = NoWorker
  Priorities = {0}
  RequestedMax = {0}
  DefaultMaxAttempts = 1
  Limit = 1
  Lease = 1
  SlowWork = TRUE
  MaxFaults = 0
SPECIFICATION Spec
PROPERTY CanceledIsTerminal
