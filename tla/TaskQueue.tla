------------------------------ MODULE TaskQueue ------------------------------
(***************************************************************************)
(* The database-backed task queue: the rows of table tasks, the task       *)
(* worker processes that claim and run them under a lease, and the API     *)
(* requests that create and cancel them.                                   *)
(*                                                                         *)
(* A worker claims a batch in ONE transaction (SELECT ... FOR UPDATE SKIP  *)
(* LOCKED, then one Save per row), keeps in-memory copies of the rows it   *)
(* claimed, runs them one after the other and writes each copy back as a   *)
(* whole row with gorm's Save, which checks neither the owner nor the      *)
(* status of the row it overwrites.  A cancellation is a Get followed by   *)
(* such a Save.  Every point where another actor can step in between is a  *)
(* step of its own here.                                                   *)
(*                                                                         *)
(* Time is relative: a lease is the number of clock units left to          *)
(* LockedUntil, -1 once LockedUntil is in the past.  Task types, payloads, *)
(* names and error texts are left out: no decision of the queue reads      *)
(* them, so the outcome of process() is a free choice.                     *)
(***************************************************************************)
EXTENDS Integers, FiniteSets

CONSTANTS
  NumTasks,           \* tasks that may be created; task ids are 1..NumTasks, in created_at order
  Workers,            \* worker processes (LockOwner values)
  Cancelers,          \* concurrent cancel requests
  Queues,             \* queue names
  WorkerQueue,        \* the queue each worker polls (OMNIMAM_WORKER_QUEUE)
  NoWorker,           \* the empty LockOwner
  Priorities,         \* priorities a request may ask for
  RequestedMax,       \* values of max_attempts a request may carry (any int; 0 if absent)
  DefaultMaxAttempts, \* 3 in taskStore.Add
  Limit,              \* batch size of one Claim (4 in BuildWorker)
  Lease,              \* lease length in clock units (5 minutes in BuildWorker)
  SlowWork,           \* TRUE: a batch may take longer than its lease
  MaxFaults           \* bound on crashes, aborted claims and lost Saves

ASSUME QueueAssumption ==
  /\ NumTasks \in Nat /\ Limit \in Nat \ {0} /\ Lease \in Nat
  /\ DefaultMaxAttempts \in Nat \ {0} /\ MaxFaults \in Nat
  /\ Priorities \subseteq Int /\ RequestedMax \subseteq Int
  /\ NoWorker \notin Workers /\ Queues # {}
  /\ WorkerQueue \in [Workers -> Queues]
  /\ SlowWork \in BOOLEAN

VARIABLES
  row,     \* table tasks
  wpc,     \* what each worker is doing
  held,    \* tasks of the worker's batch not yet written back
  seen,    \* Attempts in the worker's in-memory copy of each task
  left,    \* what is left of the lease of the worker's batch
  creq,    \* the canceled row image a cancel request has yet to save
  faults   \* faults so far

vars == <<row, wpc, held, seen, left, creq, faults>>
-----------------------------------------------------------------------------
Tasks == 1..NumTasks
Finished == {"succeeded", "failed"}
Terminal == Finished \cup {"canceled"}
Statuses == {"absent", "pending", "running"} \cup Terminal

(* The columns of iapiserver.Task the queue reads or writes. *)
Row == [status : Statuses, prio : Int, queue : Queues, max : Int,
        attempts : Nat, owner : Workers \cup {NoWorker}, lease : -1..Lease,
        progress : {0, 100}]

(* The idle state of a cancel request, apart from every row image. *)
NoImage == [task |-> 0]
Image == {NoImage} \cup [task : Tasks, image : Row]

Created(t) == row[t].status # "absent"

(* Rows locked by the open claim transaction of another connection. *)
LockedRows == UNION {held[w] : w \in {v \in Workers : wpc[v] = "claiming"}}

(* The ORDER BY of Claim: priority DESC, created_at ASC. *)
Precedes(t, u) ==
  \/ row[t].prio > row[u].prio
  \/ row[t].prio = row[u].prio /\ t < u

(* Fault seeded for the checks: expired or not, a running row is claimed. *)
ClaimableIgnoringLease(w, t) ==
  /\ row[t].queue = WorkerQueue[w]
  /\ row[t].attempts < row[t].max
  /\ row[t].status \in {"pending", "running"}
  /\ t \notin LockedRows

(* Fault seeded for the checks: the WHERE forgets the status. *)
ClaimableIgnoringStatus(w, t) ==
  /\ row[t].queue = WorkerQueue[w]
  /\ Created(t) /\ row[t].attempts < row[t].max
  /\ row[t].lease < 0
  /\ t \notin LockedRows

(* The WHERE of Claim, with the rows SKIP LOCKED leaves out. *)
Claimable(w, t) ==
  /\ row[t].queue = WorkerQueue[w]
  /\ row[t].attempts < row[t].max
  /\ \/ row[t].status = "pending"
     \/ row[t].status = "running" /\ row[t].lease < 0
  /\ t \notin LockedRows

(* The LIMIT of Claim. *)
Batch(w) ==
  LET S == {t \in Tasks : Claimable(w, t)}
  IN  {t \in S : Cardinality({u \in S : Precedes(u, t)}) < Limit}

(* A Save writes every column; those of the request never change. *)
WholeRow(r, status, attempts, progress, owner, lease) ==
  [status |-> status, attempts |-> attempts, progress |-> progress,
   owner |-> owner, lease |-> lease, prio |-> r.prio, queue |-> r.queue, max |-> r.max]

(* Fault seeded for the checks: the claim does not count as an attempt. *)
ClaimedRowUncounted(r, w) ==
  WholeRow(r, "running", r.attempts, r.progress, w, left[w])

(* The row a claim writes. *)
ClaimedRow(r, w) ==
  WholeRow(r, "running", r.attempts + 1, r.progress, w, left[w])

(* Fault seeded for the checks: success does not clear the lock. *)
SucceededRowKeepsLock(r, attempts) ==
  WholeRow(r, "succeeded", attempts, 100, r.owner, r.lease)

(* The copy a worker writes back after process() returned nil ...          *)
SucceededRow(r, attempts) ==
  WholeRow(r, "succeeded", attempts, 100, NoWorker, -1)

(* Fault seeded for the checks: a failed try leaves the row running. *)
FailedRowStaysRunning(r, attempts) ==
  IF attempts < r.max
  THEN WholeRow(r, r.status, attempts, 0, r.owner, r.lease)
  ELSE WholeRow(r, "failed", attempts, 100, NoWorker, -1)

(* Fault seeded for the checks: off by one at the last attempt. *)
FailedRowOneMore(r, attempts) ==
  IF attempts <= r.max
  THEN WholeRow(r, "pending", attempts, 0, NoWorker, -1)
  ELSE WholeRow(r, "failed", attempts, 100, NoWorker, -1)

(* ... and after it returned an error: back to pending, or failed on the   *)
(* last attempt.                                                           *)
FailedRow(r, attempts) ==
  IF attempts < r.max
  THEN WholeRow(r, "pending", attempts, 0, NoWorker, -1)
  ELSE WholeRow(r, "failed", attempts, 100, NoWorker, -1)

CanceledRow(r) ==
  WholeRow(r, "canceled", r.attempts, r.progress, NoWorker, -1)

(* The row taskStore.Add inserts, with its defaults. *)
NewRow(p, q, m) ==
  [status |-> "pending", attempts |-> 0, progress |-> 0, owner |-> NoWorker,
   lease |-> -1, prio |-> p, queue |-> q,
   max |-> IF m = 0 THEN DefaultMaxAttempts ELSE m]
-----------------------------------------------------------------------------
AbsentRow ==
  [status |-> "absent", prio |-> 0, queue |-> CHOOSE q \in Queues : TRUE,
   max |-> 0, attempts |-> 0, owner |-> NoWorker, lease |-> -1, progress |-> 0]

Init ==
  /\ row = [t \in Tasks |-> AbsentRow]
  /\ wpc = [w \in Workers |-> "idle"]
  /\ held = [w \in Workers |-> {}]
  /\ seen = [w \in Workers |-> [t \in Tasks |-> 0]]
  /\ left = [w \in Workers |-> -1]
  /\ creq = [c \in Cancelers |-> NoImage]
  /\ faults = 0

(* POST /tasks and every enqueueTask: taskStore.Add with its defaults.  A  *)
(* negative max_attempts is stored as it came.                             *)
TaskCreate(t, p, q, m) ==
  /\ ~Created(t)
  /\ \A u \in Tasks : u < t => Created(u)
  /\ row' = [row EXCEPT ![t] = NewRow(p, q, m)]
  /\ UNCHANGED <<wpc, held, seen, left, creq, faults>>

(* runOnce, first half of Claim: now is read, the transaction is opened    *)
(* and the batch is selected and locked.  An empty batch ends runOnce      *)
(* without a change.                                                       *)
ClaimSelect(w) ==
  /\ wpc[w] = "idle"
  /\ Batch(w) # {}
  /\ wpc' = [wpc EXCEPT ![w] = "claiming"]
  /\ held' = [held EXCEPT ![w] = Batch(w)]
  /\ left' = [left EXCEPT ![w] = Lease]
  /\ UNCHANGED <<row, seen, creq, faults>>

(* Second half of Claim: every row is saved and the transaction commits;   *)
(* the worker keeps the rows as it wrote them.                             *)
ClaimCommit(w) ==
  /\ wpc[w] = "claiming"
  /\ row' = [t \in Tasks |-> IF t \in held[w] THEN ClaimedRow(row[t], w) ELSE row[t]]
  /\ seen' = [seen EXCEPT ![w] =
       [t \in Tasks |-> IF t \in held[w] THEN ClaimedRow(row[t], w).attempts ELSE 0]]
  /\ wpc' = [wpc EXCEPT ![w] = "working"]
  /\ UNCHANGED <<held, left, creq, faults>>

(* A statement of the claim transaction fails: rollback, runOnce returns   *)
(* the error and the worker polls again.                                   *)
ClaimAbort(w) ==
  /\ wpc[w] = "claiming"
  /\ faults < MaxFaults
  /\ faults' = faults + 1
  /\ wpc' = [wpc EXCEPT ![w] = "idle"]
  /\ held' = [held EXCEPT ![w] = {}]
  /\ left' = [left EXCEPT ![w] = -1]
  /\ UNCHANGED <<row, seen, creq>>

(* The batch is run in the order of the claim. *)
Current(w, t) ==
  /\ wpc[w] = "working"
  /\ t \in held[w]
  /\ \A u \in held[w] \ {t} : Precedes(t, u)

(* The worker is through with task t; after the last one it polls again. *)
Release(w, t) ==
  /\ left' = [left EXCEPT ![w] = IF held[w] = {t} THEN -1 ELSE @]
  /\ held' = [held EXCEPT ![w] = @ \ {t}]
  /\ seen' = [seen EXCEPT ![w][t] = 0]
  /\ wpc' = [wpc EXCEPT ![w] = IF held[w] = {t} THEN "idle" ELSE "working"]

(* process() returned nil and the copy is saved over whatever the row has  *)
(* become.  The Save waits for a claim transaction that holds the row.     *)
SaveSuccess(w, t) ==
  /\ Current(w, t)
  /\ t \notin LockedRows
  /\ row' = [row EXCEPT ![t] = SucceededRow(@, seen[w][t])]
  /\ Release(w, t)
  /\ UNCHANGED <<creq, faults>>

(* process() returned an error. *)
SaveFailure(w, t) ==
  /\ Current(w, t)
  /\ t \notin LockedRows
  /\ row' = [row EXCEPT ![t] = FailedRow(@, seen[w][t])]
  /\ Release(w, t)
  /\ UNCHANGED <<creq, faults>>

(* The final Save fails; its error is dropped and the loop goes on. *)
LoseSave(w, t) ==
  /\ Current(w, t)
  /\ faults < MaxFaults
  /\ faults' = faults + 1
  /\ Release(w, t)
  /\ UNCHANGED <<row, creq>>

(* The worker process dies: an open transaction is rolled back, the        *)
(* in-memory copies are gone.                                              *)
Crash(w) ==
  /\ wpc[w] # "down"
  /\ faults < MaxFaults
  /\ faults' = faults + 1
  /\ wpc' = [wpc EXCEPT ![w] = "down"]
  /\ held' = [held EXCEPT ![w] = {}]
  /\ seen' = [seen EXCEPT ![w] = [t \in Tasks |-> 0]]
  /\ left' = [left EXCEPT ![w] = -1]
  /\ UNCHANGED <<row, creq>>

(* The process supervisor starts the worker again. *)
Restart(w) ==
  /\ wpc[w] = "down"
  /\ wpc' = [wpc EXCEPT ![w] = "idle"]
  /\ UNCHANGED <<row, held, seen, left, creq, faults>>

(* taskStore.Cancel, first half: Get, and the early return for a task that *)
(* is already succeeded or failed; the copy is canceled and unlocked.      *)
CancelGet(c, t) ==
  /\ creq[c] = NoImage
  /\ Created(t)
  /\ creq' = IF row[t].status \in Finished
             THEN creq
             ELSE [creq EXCEPT ![c] = [task |-> t, image |-> CanceledRow(row[t])]]
  /\ UNCHANGED <<row, wpc, held, seen, left, faults>>

(* Second half: the whole copy is saved over whatever the row has become. *)
CancelSave(c) ==
  /\ creq[c] # NoImage
  /\ creq[c].task \notin LockedRows
  /\ row' = [row EXCEPT ![creq[c].task] = creq[c].image]
  /\ creq' = [creq EXCEPT ![c] = NoImage]
  /\ UNCHANGED <<wpc, held, seen, left, faults>>

Older(n) == IF n > -1 THEN n - 1 ELSE -1

AgedRow(r) == WholeRow(r, r.status, r.attempts, r.progress, r.owner, Older(r.lease))

(* One clock unit passes.  Without SlowWork the clock only moves while     *)
(* every batch is still inside its lease: the deployment's promise that a  *)
(* batch takes less time than a lease.                                     *)
Tick ==
  /\ \/ \E t \in Tasks : row[t].lease > -1
     \/ \E w \in Workers : left[w] > -1
  /\ \A w \in Workers : ~SlowWork /\ wpc[w] \in {"claiming", "working"} => left[w] > 0
  /\ row' = [t \in Tasks |-> AgedRow(row[t])]
  /\ left' = [w \in Workers |-> Older(left[w])]
  /\ UNCHANGED <<wpc, held, seen, creq, faults>>

WorkerStep(w) ==
  \/ ClaimSelect(w) \/ ClaimCommit(w) \/ ClaimAbort(w)
  \/ \E t \in Tasks : SaveSuccess(w, t) \/ SaveFailure(w, t) \/ LoseSave(w, t)
  \/ Crash(w) \/ Restart(w)

Next ==
  \/ \E t \in Tasks, p \in Priorities, q \in Queues, m \in RequestedMax :
        TaskCreate(t, p, q, m)
  \/ \E w \in Workers : WorkerStep(w)
  \/ \E c \in Cancelers : CancelSave(c) \/ \E t \in Tasks : CancelGet(c, t)
  \/ Tick

Spec == Init /\ [][Next]_vars

(* Workers poll for ever, the clock runs, a request that has been read is  *)
(* eventually answered and a dead worker is restarted.  Nobody has to      *)
(* create or cancel anything, and no fault has to happen.                  *)
Fairness ==
  /\ \A w \in Workers :
       /\ WF_vars(ClaimSelect(w)) /\ WF_vars(ClaimCommit(w)) /\ WF_vars(Restart(w))
       /\ WF_vars(\E t \in Tasks : SaveSuccess(w, t) \/ SaveFailure(w, t))
  /\ \A c \in Cancelers : WF_vars(CancelSave(c))
  /\ WF_vars(Tick)

FairSpec == Spec /\ Fairness
-----------------------------------------------------------------------------
(* Every variable keeps its type: the columns of a row, the state of a     *)
(* worker between Claim and Save, the copy a cancel request holds.         *)
TypeOK ==
  /\ row \in [Tasks -> Row]
  /\ wpc \in [Workers -> {"idle", "claiming", "working", "down"}]
  /\ held \in [Workers -> SUBSET Tasks]
  /\ seen \in [Workers -> [Tasks -> Nat]]
  /\ left \in [Workers -> -1..Lease]
  /\ creq \in [Cancelers -> Image]
  /\ faults \in 0..MaxFaults

(* What one writer's image of a row looks like, whoever the writer is.     *)
CoherentRow(r) ==
  /\ r.status = "running" <=> r.owner # NoWorker
  /\ r.status # "running" => r.lease = -1
  /\ r.status \in Finished <=> r.progress = 100
  /\ r.status = "failed" => r.attempts = r.max
  /\ r.status \in {"running", "succeeded"} => r.attempts >= 1
  /\ r.status = "pending" => r.attempts < r.max \/ r.max < 0
  /\ r.attempts = 0 \/ r.attempts <= r.max

(* Whole-row Saves of stale copies interleave with claims and with         *)
(* cancellations, yet a row is never a mixture of two writers: lock        *)
(* columns are set exactly while it is running, progress is 100 exactly    *)
(* when it has finished, it fails only on its last attempt, and a pending  *)
(* task always has an attempt left (unless the request asked for a         *)
(* negative max_attempts).  Claim, runOnce and Cancel each write several   *)
(* columns; this is what their order of writes must keep together.         *)
RowsCoherent == \A t \in Tasks : Created(t) => CoherentRow(row[t])

(* Without a crash, an aborted claim or a lost Save, a running row always  *)
(* belongs to a live worker that still has it in its batch: nothing is     *)
(* left running with nobody to finish it, whatever lease expiries, late    *)
(* Saves and cancellations did before.                                     *)
RunningIsAttended ==
  faults = 0 =>
    \A t \in Tasks : row[t].status = "running" =>
      /\ wpc[row[t].owner] = "working"
      /\ t \in held[row[t].owner]

Exclusive ==
  \A v, w \in Workers : v # w => held[v] \cap held[w] = {}

(* If every batch is run within its lease, no task is in the batches of    *)
(* two workers at once, in spite of crashes, aborted transactions, lost    *)
(* Saves and concurrent cancellations.  One lease has to cover the whole   *)
(* batch, since runOnce runs it sequentially and never renews it.          *)
ExclusiveWhenPrompt == ~SlowWork => Exclusive

(* Nobody has t in a batch, and every cancellation of t still to be saved  *)
(* would write what the row already says.                                  *)
Settled(t) ==
  /\ row[t].status \in Terminal
  /\ \A w \in Workers : t \notin held[w]
  /\ \A c \in Cancelers : creq[c].task = t => creq[c].image = row[t]

(* A task that is succeeded, failed or canceled is never claimed again,    *)
(* and once no worker or request still holds an old copy of it its row     *)
(* never changes.                                                          *)
SettledIsFinal ==
  [][\A t \in Tasks : Settled(t) => Settled(t)' /\ row'[t] = row[t]]_vars

(* No attempt is left: Claim will not pick the row again.                  *)
Exhausted(t) == row[t].attempts >= row[t].max

(* Every task a worker polls for reaches, for good, a terminal status or   *)
(* the end of its attempts, whatever crashes, lost Saves and late Saves    *)
(* that move Attempts backwards.                                           *)
Converges ==
  \A t \in Tasks :
    (Created(t) /\ \E w \in Workers : WorkerQueue[w] = row[t].queue)
       ~> [](row[t].status \in Terminal \/ Exhausted(t))

(* Unless a fault occurs it reaches a terminal status for good: leases     *)
(* that expire under a slow worker delay a task, they never strand it.     *)
FinishesWithoutFaults ==
  \A t \in Tasks :
    (Created(t) /\ row[t].max > 0 /\ \E w \in Workers : WorkerQueue[w] = row[t].queue)
       ~> (faults > 0 \/ [](row[t].status \in Terminal))

(* docs/modules/task-management.md, section 7: canceled is one of the      *)
(* terminal states, so a canceled task stays canceled.                     *)
CanceledIsTerminal ==
  [][\A t \in Tasks : row[t].status = "canceled" => row'[t].status = "canceled"]_vars
=============================================================================
