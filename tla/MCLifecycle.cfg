\* One task, every fault, two queues of which one is polled, any max_attempts;
\* a server with two requests and two tables.
CONSTANTS
  w1 = w1
  w2 = w2
  q1 = q1
  q2 = q2
  NumTasks = 1
  Workers = {w1, w2}
  Cancelers = {c1}
  Queues = {q1, q2}
  WorkerQueue <- OneQueue
  NoWorker = NoWorker
  Priorities = {0}
  RequestedMax <- AnyMax
  DefaultMaxAttempts = 3
  Limit = 1
  Lease = 1
  SlowWork = TRUE
  MaxFaults = 3
  Requests = {r1, r2}
  NTables = 2
SPECIFICATION MCSpec
INVARIANTS StartsReady ShutdownOrderly
PROPERTIES Converges FinishesWithoutFaults SignalEnds
