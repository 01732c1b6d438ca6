--------------------------- MODULE TaskQueueProofs ---------------------------
(***************************************************************************)
(* Proofs about the task queue, for every number of tasks, workers and     *)
(* requests, every lease, batch size and fault bound.  The last part shows *)
(* that the queue implements LeasedWork in every instance in which no      *)
(* batch outlives its lease.                                               *)
(***************************************************************************)
EXTENDS TaskQueueRefinement, TLAPS

-----------------------------------------------------------------------------
(* Lemmas about the operators of the model.                                *)

(* A batch holds only rows that match the WHERE of Claim. *)
LEMMA BatchClaimable ==
  ASSUME NEW w, NEW t \in Batch(w)
  PROVE  t \in Tasks /\ Claimable(w, t)
  BY DEF Batch

(* The rows that Claim, runOnce and Cancel write are rows. *)
LEMMA WrittenRowsTyped ==
  ASSUME NEW r \in Row, NEW n \in Nat, TypeOK
  PROVE  /\ \A w \in Workers : ClaimedRow(r, w) \in Row
         /\ SucceededRow(r, n) \in Row
         /\ FailedRow(r, n) \in Row
         /\ CanceledRow(r) \in Row
  <1> USE QueueAssumption DEF Row, WholeRow, Statuses, Terminal, Finished
  <1>1. ASSUME NEW w \in Workers PROVE left[w] \in -1..Lease BY DEF TypeOK
  <1>2. ASSUME NEW w \in Workers PROVE ClaimedRow(r, w) \in Row BY <1>1 DEF ClaimedRow
  <1>3. SucceededRow(r, n) \in Row BY DEF SucceededRow
  <1>4. FailedRow(r, n) \in Row BY DEF FailedRow
  <1>5. CanceledRow(r) \in Row BY DEF CanceledRow
  <1> QED BY <1>2, <1>3, <1>4, <1>5

(* The row that stands for none has the type of a row. *)
LEMMA AbsentRowTyped == AbsentRow \in Row
  BY QueueAssumption DEF AbsentRow, Row, Statuses, Terminal, Finished

(* An age stays within the lease. *)
LEMMA OlderTyped ==
  ASSUME NEW n \in -1..Lease
  PROVE  Older(n) \in -1..Lease
  BY QueueAssumption DEF Older

(* Release keeps the types of the worker's state. *)
LEMMA ReleaseTyped ==
  ASSUME TypeOK, NEW w \in Workers, NEW t \in Tasks, Release(w, t)
  PROVE  /\ left' \in [Workers -> -1..Lease]
         /\ held' \in [Workers -> SUBSET Tasks]
         /\ seen' \in [Workers -> [Tasks -> Nat]]
         /\ wpc' \in [Workers -> {"idle", "claiming", "working", "down"}]
  BY QueueAssumption DEF TypeOK, Release
-----------------------------------------------------------------------------
(* TypeOK is inductive by itself. *)
LEMMA TypeInit == Init => TypeOK
  BY QueueAssumption, AbsentRowTyped DEF Init, TypeOK, Image, NoImage

(* Every step keeps the types. *)
LEMMA TypeStep == TypeOK /\ [Next]_vars => TypeOK'
  <1> SUFFICES ASSUME TypeOK, [Next]_vars PROVE TypeOK' OBVIOUS
  <1> USE QueueAssumption
  <1>1. ASSUME NEW t \in Tasks, NEW p \in Priorities, NEW q \in Queues,
               NEW m \in RequestedMax, TaskCreate(t, p, q, m)
        PROVE  TypeOK'
    <2>1. NewRow(p, q, m) \in Row BY DEF NewRow, Row, Statuses
    <2> QED BY <1>1, <2>1 DEF TypeOK, TaskCreate
  <1>2. ASSUME NEW w \in Workers, ClaimSelect(w) PROVE TypeOK'
    <2>1. Batch(w) \in SUBSET Tasks BY BatchClaimable
    <2> QED BY <1>2, <2>1 DEF TypeOK, ClaimSelect
  <1>3. ASSUME NEW w \in Workers, ClaimCommit(w) PROVE TypeOK'
    <2>1. \A t \in Tasks : ClaimedRow(row[t], w) \in Row
      BY WrittenRowsTyped, 0 \in Nat DEF TypeOK
    <2>2. row' \in [Tasks -> Row] BY <1>3, <2>1 DEF TypeOK, ClaimCommit
    <2>3. \A t \in Tasks : ClaimedRow(row[t], w).attempts \in Nat BY <2>1 DEF Row
    <2>4. seen' \in [Workers -> [Tasks -> Nat]] BY <1>3, <2>3 DEF TypeOK, ClaimCommit
    <2> QED BY <1>3, <2>2, <2>4 DEF TypeOK, ClaimCommit
  <1>4. ASSUME NEW w \in Workers, ClaimAbort(w) PROVE TypeOK'
    BY <1>4 DEF TypeOK, ClaimAbort
  <1>5. ASSUME NEW w \in Workers, NEW t \in Tasks, SaveSuccess(w, t) PROVE TypeOK'
    <2>0. row[t] \in Row /\ seen[w][t] \in Nat BY DEF TypeOK
    <2>1. SucceededRow(row[t], seen[w][t]) \in Row BY <2>0, WrittenRowsTyped
    <2> QED BY <1>5, <2>1, ReleaseTyped DEF TypeOK, SaveSuccess
  <1>6. ASSUME NEW w \in Workers, NEW t \in Tasks, SaveFailure(w, t) PROVE TypeOK'
    <2>0. row[t] \in Row /\ seen[w][t] \in Nat BY DEF TypeOK
    <2>1. FailedRow(row[t], seen[w][t]) \in Row BY <2>0, WrittenRowsTyped
    <2> QED BY <1>6, <2>1, ReleaseTyped DEF TypeOK, SaveFailure
  <1>7. ASSUME NEW w \in Workers, NEW t \in Tasks, LoseSave(w, t) PROVE TypeOK'
    BY <1>7, ReleaseTyped DEF TypeOK, LoseSave
  <1>8. ASSUME NEW w \in Workers, Crash(w) PROVE TypeOK'
    BY <1>8 DEF TypeOK, Crash
  <1>9. ASSUME NEW w \in Workers, Restart(w) PROVE TypeOK'
    BY <1>9 DEF TypeOK, Restart
  <1>10. ASSUME NEW c \in Cancelers, NEW t \in Tasks, CancelGet(c, t) PROVE TypeOK'
    <2>2. CanceledRow(row[t]) \in Row BY WrittenRowsTyped, 0 \in Nat DEF TypeOK
    <2>3. [task |-> t, image |-> CanceledRow(row[t])] \in Image BY <2>2 DEF Image
    <2> QED BY <1>10, <2>3 DEF TypeOK, CancelGet
  <1>11. ASSUME NEW c \in Cancelers, CancelSave(c) PROVE TypeOK'
    <2>1. creq[c] \in [task : Tasks, image : Row] BY <1>11 DEF CancelSave, TypeOK, Image
    <2> QED BY <1>11, <2>1 DEF TypeOK, CancelSave, Image
  <1>12. ASSUME Tick PROVE TypeOK'
    <2>1. \A t \in Tasks : AgedRow(row[t]) \in Row
      BY OlderTyped DEF TypeOK, Row, AgedRow, WholeRow
    <2>2. \A w \in Workers : Older(left[w]) \in -1..Lease BY OlderTyped DEF TypeOK
    <2> QED BY <1>12, <2>1, <2>2 DEF TypeOK, Tick
  <1>13. CASE UNCHANGED vars BY <1>13 DEF vars, TypeOK
  <1> QED
    BY <1>1, <1>2, <1>3, <1>4, <1>5, <1>6, <1>7, <1>8, <1>9, <1>10, <1>11,
       <1>12, <1>13 DEF Next, WorkerStep

(* Type correctness of the task queue. *)
THEOREM TypeCorrect == Spec => []TypeOK
  BY TypeInit, TypeStep, PTL DEF Spec
-----------------------------------------------------------------------------
(* RowsCoherent is not inductive: a row is overwritten by copies made long *)
(* before, so the copies have to be coherent too, and a claimed row must   *)
(* still be claimable when the claim commits.                              *)

(* The copy a cancel request still has to save. *)
ImageCoherent(c) ==
  creq[c] # NoImage =>
    /\ creq[c].image.status = "canceled"
    /\ CoherentRow(creq[c].image)
    /\ row[creq[c].task].status # "absent"
    /\ creq[c].image.max = row[creq[c].task].max

ImagesCoherent == \A c \in Cancelers : ImageCoherent(c)

(* The copies of a batch, and the rows a claim transaction has locked. *)
CopyCoherent(w, t) ==
  /\ row[t].status # "absent"
  /\ wpc[w] = "working" => seen[w][t] >= 1 /\ seen[w][t] <= row[t].max
  /\ wpc[w] = "claiming" =>
       /\ row[t].status \in {"pending", "running"}
       /\ row[t].status = "running" => row[t].lease = -1
       /\ row[t].attempts < row[t].max

BatchesCoherent ==
  \A w \in Workers :
    /\ wpc[w] \in {"idle", "down"} => held[w] = {}
    /\ \A t \in held[w] : CopyCoherent(w, t)

(* SKIP LOCKED: two open claim transactions lock different rows. *)
ClaimsDisjoint ==
  \A v, w \in Workers :
    v # w /\ wpc[v] = "claiming" /\ wpc[w] = "claiming" => held[v] \cap held[w] = {}

CoherenceInv ==
  TypeOK /\ RowsCoherent /\ ImagesCoherent /\ BatchesCoherent /\ ClaimsDisjoint

(* The rows and the images of them cohere initially. *)
LEMMA CoherenceInit == Init => CoherenceInv
  BY TypeInit DEF Init, CoherenceInv, RowsCoherent, ImagesCoherent, ImageCoherent,
     BatchesCoherent, ClaimsDisjoint, Created, AbsentRow, NoImage

(* Everything a step can do to one row. *)
RowChange(t) ==
  \/ row'[t] = row[t]
  \/ /\ ~Created(t)
     /\ \E p \in Priorities, q \in Queues, m \in RequestedMax : row'[t] = NewRow(p, q, m)
  \/ \E w \in Workers :
       /\ wpc[w] = "claiming" /\ wpc'[w] = "working"
       /\ t \in held[w] /\ row'[t] = ClaimedRow(row[t], w)
  \/ \E w \in Workers :
       /\ wpc[w] = "working" /\ t \in held[w] /\ t \notin LockedRows
       /\ row'[t] \in {SucceededRow(row[t], seen[w][t]), FailedRow(row[t], seen[w][t])}
  \/ \E c \in Cancelers :
       /\ creq[c] # NoImage /\ creq[c].task = t /\ t \notin LockedRows
       /\ row'[t] = creq[c].image
  \/ row'[t] = AgedRow(row[t])

(* A step does to a row what RowChange says. *)
LEMMA RowStep ==
  ASSUME TypeOK, [Next]_vars, NEW t \in Tasks
  PROVE  RowChange(t)
  <1>1. ASSUME NEW u \in Tasks, NEW p \in Priorities, NEW q \in Queues,
               NEW m \in RequestedMax, TaskCreate(u, p, q, m)
        PROVE  RowChange(t)
    BY <1>1 DEF TypeOK, TaskCreate, RowChange
  <1>2. ASSUME NEW w \in Workers, ClaimSelect(w) \/ ClaimAbort(w) \/ Crash(w) \/ Restart(w)
        PROVE  RowChange(t)
    BY <1>2 DEF ClaimSelect, ClaimAbort, Crash, Restart, RowChange
  <1>3. ASSUME NEW w \in Workers, ClaimCommit(w) PROVE RowChange(t)
    BY <1>3 DEF TypeOK, ClaimCommit, RowChange
  <1>4. ASSUME NEW w \in Workers, NEW u \in Tasks, SaveSuccess(w, u) PROVE RowChange(t)
    BY <1>4 DEF TypeOK, SaveSuccess, Current, RowChange
  <1>5. ASSUME NEW w \in Workers, NEW u \in Tasks, SaveFailure(w, u) PROVE RowChange(t)
    BY <1>5 DEF TypeOK, SaveFailure, Current, RowChange
  <1>6. ASSUME NEW w \in Workers, NEW u \in Tasks, LoseSave(w, u) PROVE RowChange(t)
    BY <1>6 DEF LoseSave, RowChange
  <1>7. ASSUME NEW c \in Cancelers, NEW u \in Tasks, CancelGet(c, u) PROVE RowChange(t)
    BY <1>7 DEF CancelGet, RowChange
  <1>8. ASSUME NEW c \in Cancelers, CancelSave(c) PROVE RowChange(t)
    BY <1>8 DEF TypeOK, CancelSave, RowChange
  <1>9. ASSUME Tick PROVE RowChange(t)
    BY <1>9 DEF Tick, RowChange
  <1>10. CASE UNCHANGED vars BY <1>10 DEF vars, RowChange
  <1> QED
    BY <1>1, <1>2, <1>3, <1>4, <1>5, <1>6, <1>7, <1>8, <1>9, <1>10 DEF Next, WorkerStep

(* A step keeps a row coherent, in existence and with its max_attempts. *)
LEMMA RowStaysCoherent ==
  ASSUME CoherenceInv, NEW t \in Tasks, RowChange(t), row'[t] \in Row
  PROVE  /\ Created(t)' => CoherentRow(row'[t])
         /\ Created(t) => Created(t)' /\ row'[t].max = row[t].max
  <1> USE QueueAssumption
  <1>0. row[t] \in Row BY DEF CoherenceInv, TypeOK
  <1>1. CASE row'[t] = row[t]
    BY <1>1 DEF CoherenceInv, RowsCoherent, Created
  <1>2. ASSUME ~Created(t), NEW p \in Priorities, NEW q \in Queues, NEW m \in RequestedMax,
               row'[t] = NewRow(p, q, m)
        PROVE  CoherentRow(row'[t])
    BY <1>2 DEF NewRow, CoherentRow, Finished
  <1>3. ASSUME NEW w \in Workers, wpc[w] = "claiming", t \in held[w],
               row'[t] = ClaimedRow(row[t], w)
        PROVE  CoherentRow(row'[t]) /\ Created(t)' /\ row'[t].max = row[t].max
    <2>1. /\ row[t].status \in {"pending", "running"}
          /\ row[t].attempts < row[t].max
          /\ CoherentRow(row[t])
      BY <1>3 DEF CoherenceInv, BatchesCoherent, CopyCoherent, RowsCoherent, Created
    <2> QED BY <1>0, <1>3, <2>1 DEF ClaimedRow, WholeRow, CoherentRow, Row, Finished, Created
  <1>4. ASSUME NEW w \in Workers, wpc[w] = "working", t \in held[w],
               row'[t] \in {SucceededRow(row[t], seen[w][t]), FailedRow(row[t], seen[w][t])}
        PROVE  CoherentRow(row'[t]) /\ Created(t)' /\ row'[t].max = row[t].max
    <2>1. /\ seen[w][t] >= 1 /\ seen[w][t] <= row[t].max
          /\ seen[w][t] \in Nat /\ row[t].max \in Int
      BY <1>0, <1>4 DEF CoherenceInv, BatchesCoherent, CopyCoherent, TypeOK, Row
    <2> QED
      BY <1>4, <2>1 DEF SucceededRow, FailedRow, WholeRow, CoherentRow, Finished, Created
  <1>5. ASSUME NEW c \in Cancelers, creq[c] # NoImage, creq[c].task = t,
               row'[t] = creq[c].image
        PROVE  CoherentRow(row'[t]) /\ Created(t)' /\ row'[t].max = row[t].max
    BY <1>5 DEF CoherenceInv, ImagesCoherent, ImageCoherent, Created
  <1>6. ASSUME row'[t] = AgedRow(row[t]), Created(t)
        PROVE  CoherentRow(row'[t]) /\ Created(t)' /\ row'[t].max = row[t].max
    <2>1. CoherentRow(row[t]) BY <1>6 DEF CoherenceInv, RowsCoherent
    <2> QED BY <1>0, <1>6, <2>1 DEF AgedRow, WholeRow, Older, CoherentRow, Row, Created
  <1>7. ASSUME row'[t] = AgedRow(row[t]), ~Created(t) PROVE ~Created(t)'
    BY <1>7 DEF AgedRow, WholeRow, Created
  <1> QED BY <1>1, <1>2, <1>3, <1>4, <1>5, <1>6, <1>7 DEF RowChange

(* Everything a step can do to one worker. *)
WorkerChange(w) ==
  \/ wpc'[w] = wpc[w] /\ held'[w] = held[w] /\ seen'[w] = seen[w]
  \/ ClaimSelect(w) \/ ClaimCommit(w)
  \/ /\ wpc[w] = "working" /\ wpc'[w] = "working"
     /\ held'[w] \subseteq held[w]
     /\ \A t \in held'[w] : seen'[w][t] = seen[w][t]
  \/ wpc'[w] \in {"idle", "down"} /\ held'[w] = {}

(* A step does to a worker what WorkerChange says. *)
LEMMA WorkerStepChange ==
  ASSUME CoherenceInv, [Next]_vars, NEW w \in Workers
  PROVE  WorkerChange(w)
  <1> USE DEF WorkerChange
  <1>0. TypeOK BY DEF CoherenceInv
  <1>1. ASSUME NEW v \in Workers, ClaimSelect(v) PROVE WorkerChange(w)
    BY <1>0, <1>1 DEF TypeOK, ClaimSelect
  <1>2. ASSUME NEW v \in Workers, ClaimCommit(v) PROVE WorkerChange(w)
    BY <1>0, <1>2 DEF TypeOK, ClaimCommit
  <1>3. ASSUME NEW v \in Workers, ClaimAbort(v) \/ Crash(v) PROVE WorkerChange(w)
    BY <1>0, <1>3 DEF TypeOK, ClaimAbort, Crash
  <1>4. ASSUME NEW v \in Workers, Restart(v) PROVE WorkerChange(w)
    BY <1>0, <1>4 DEF TypeOK, Restart, CoherenceInv, BatchesCoherent
  <1>5. ASSUME NEW v \in Workers, NEW t \in Tasks, Release(v, t), Current(v, t)
        PROVE  WorkerChange(w)
    BY <1>0, <1>5 DEF TypeOK, Release, Current
  <1>6. ASSUME UNCHANGED <<wpc, held, seen>> PROVE WorkerChange(w)
    BY <1>6
  <1> QED
    BY <1>1, <1>2, <1>3, <1>4, <1>5, <1>6
    DEF Next, WorkerStep, vars, TaskCreate, SaveSuccess, SaveFailure, LoseSave,
        CancelGet, CancelSave, Tick

(* A row locked by a claim that stays open can only grow older. *)
LEMMA LockedRowStep ==
  ASSUME CoherenceInv, NEW w \in Workers, NEW t \in held[w], t \in Tasks,
         wpc[w] = "claiming", wpc'[w] = "claiming", RowChange(t)
  PROVE  row'[t] = row[t] \/ row'[t] = AgedRow(row[t])
  <1>1. t \in LockedRows BY DEF LockedRows
  <1>2. Created(t) BY DEF CoherenceInv, BatchesCoherent, CopyCoherent, Created
  <1>3. \A v \in Workers : wpc[v] = "claiming" /\ t \in held[v] => v = w
    BY DEF CoherenceInv, ClaimsDisjoint
  <1> QED BY <1>1, <1>2, <1>3 DEF RowChange

(* Every step keeps rows and images coherent. *)
LEMMA CoherenceStep == CoherenceInv /\ [Next]_vars => CoherenceInv'
  <1> SUFFICES ASSUME CoherenceInv, [Next]_vars PROVE CoherenceInv' OBVIOUS
  <1> USE QueueAssumption
  <1>1. TypeOK /\ TypeOK' BY TypeStep DEF CoherenceInv
  <1>2. ASSUME NEW t \in Tasks PROVE RowChange(t) /\ row'[t] \in Row
    BY <1>1, RowStep DEF TypeOK
  <1>3. ASSUME NEW t \in Tasks
        PROVE  /\ Created(t)' => CoherentRow(row'[t])
               /\ Created(t) => Created(t)' /\ row'[t].max = row[t].max
    BY <1>2, RowStaysCoherent
  <1>4. RowsCoherent' BY <1>3 DEF RowsCoherent, CoherentRow
  <1>5. ImagesCoherent'
    <2> SUFFICES ASSUME NEW c \in Cancelers PROVE ImageCoherent(c)'
      BY DEF ImagesCoherent
    <2>1. CASE creq'[c] = creq[c] \/ creq'[c] = NoImage
      <3>1. ImageCoherent(c) BY DEF CoherenceInv, ImagesCoherent
      <3>2. creq[c] # NoImage => creq[c].task \in Tasks BY <1>1 DEF TypeOK, Image
      <3> QED BY <1>3, <2>1, <3>1, <3>2 DEF ImageCoherent, Created, CoherentRow
    <2>2. ASSUME NEW t \in Tasks, Created(t), row' = row, row[t].status \notin Finished,
                 creq'[c] = [task |-> t, image |-> CanceledRow(row[t])]
          PROVE  ImageCoherent(c)'
      <3>1. CoherentRow(row[t]) /\ row[t] \in Row
        BY <1>1, <2>2 DEF CoherenceInv, RowsCoherent, TypeOK
      <3>2. CoherentRow(CanceledRow(row[t]))
        BY <2>2, <3>1 DEF CoherentRow, CanceledRow, WholeRow, Finished, Row
      <3>3. CanceledRow(row[t]).status = "canceled" /\ CanceledRow(row[t]).max = row[t].max
        BY DEF CanceledRow, WholeRow
      <3>4. creq'[c].task = t /\ creq'[c].image = CanceledRow(row[t]) BY <2>2
      <3> QED BY <2>2, <3>2, <3>3, <3>4 DEF ImageCoherent, Created, CoherentRow
    <2>3. ASSUME NEW d \in Cancelers, NEW t \in Tasks, CancelGet(d, t)
          PROVE  \/ creq'[c] = creq[c]
                 \/ /\ Created(t) /\ row' = row /\ row[t].status \notin Finished
                    /\ creq'[c] = [task |-> t, image |-> CanceledRow(row[t])]
      BY <1>1, <2>3 DEF TypeOK, CancelGet
    <2>4. ASSUME NEW d \in Cancelers, CancelSave(d) PROVE creq'[c] = creq[c] \/ creq'[c] = NoImage
      BY <1>1, <2>4 DEF TypeOK, CancelSave
    <2>5. CASE UNCHANGED creq BY <2>1, <2>5
    <2> QED
      BY <2>1, <2>2, <2>3, <2>4, <2>5
      DEF Next, WorkerStep, vars, TaskCreate, ClaimSelect, ClaimCommit, ClaimAbort,
          SaveSuccess, SaveFailure, LoseSave, Crash, Restart, Tick
  <1>6. ASSUME NEW w \in Workers PROVE WorkerChange(w)
    BY WorkerStepChange
  <1>7. BatchesCoherent'
    <2> SUFFICES ASSUME NEW w \in Workers
                 PROVE  /\ wpc'[w] \in {"idle", "down"} => held'[w] = {}
                        /\ \A t \in held'[w] : CopyCoherent(w, t)'
      BY DEF BatchesCoherent
    <2>0. /\ wpc[w] \in {"idle", "down"} => held[w] = {}
          /\ \A t \in held[w] : t \in Tasks /\ CopyCoherent(w, t)
      BY <1>1 DEF CoherenceInv, BatchesCoherent, TypeOK
    <2>1. CASE wpc'[w] = wpc[w] /\ held'[w] = held[w] /\ seen'[w] = seen[w]
      <3> SUFFICES ASSUME NEW t \in held[w] PROVE CopyCoherent(w, t)'
        BY <2>0, <2>1
      <3>1. t \in Tasks /\ CopyCoherent(w, t) BY <2>0
      <3>2. wpc[w] = "claiming" => row'[t] = row[t] \/ row'[t] = AgedRow(row[t])
        BY <1>2, <2>1, <3>1, LockedRowStep
      <3>3. row'[t] = AgedRow(row[t]) =>
              /\ row'[t].status = row[t].status /\ row'[t].attempts = row[t].attempts
              /\ row'[t].max = row[t].max /\ (row[t].lease = -1 => row'[t].lease = -1)
        BY DEF AgedRow, WholeRow, Older
      <3> QED BY <1>3, <2>1, <3>1, <3>2, <3>3 DEF CopyCoherent, Created
    <2>2. CASE ClaimSelect(w)
      <3>1. wpc'[w] = "claiming" /\ held'[w] = Batch(w) /\ row' = row
        BY <1>1, <2>2 DEF ClaimSelect, TypeOK
      <3> SUFFICES ASSUME NEW t \in Batch(w) PROVE CopyCoherent(w, t)'
        BY <3>1
      <3>2. t \in Tasks /\ Claimable(w, t) BY BatchClaimable
      <3>3. row[t] \in Row BY <1>1, <3>2 DEF TypeOK
      <3> QED BY <3>1, <3>2, <3>3 DEF CopyCoherent, Claimable, Row
    <2>3. CASE ClaimCommit(w)
      <3>1. /\ wpc'[w] = "working" /\ held'[w] = held[w] /\ wpc[w] = "claiming"
            /\ \A t \in held[w] : seen'[w][t] = row[t].attempts + 1
        BY <1>1, <2>0, <2>3 DEF ClaimCommit, TypeOK, ClaimedRow, WholeRow
      <3> SUFFICES ASSUME NEW t \in held[w] PROVE CopyCoherent(w, t)'
        BY <3>1
      <3>2. row[t] \in Row BY <1>1, <2>0 DEF TypeOK
      <3> QED BY <1>3, <2>0, <3>1, <3>2 DEF CopyCoherent, Created, Row
    <2>4. CASE /\ wpc[w] = "working" /\ wpc'[w] = "working"
               /\ held'[w] \subseteq held[w]
               /\ \A t \in held'[w] : seen'[w][t] = seen[w][t]
      BY <1>3, <2>0, <2>4 DEF CopyCoherent, Created
    <2>5. CASE wpc'[w] \in {"idle", "down"} /\ held'[w] = {}
      BY <2>5
    <2> QED BY <1>6, <2>1, <2>2, <2>3, <2>4, <2>5 DEF WorkerChange
  <1>8. ClaimsDisjoint'
    <2> SUFFICES ASSUME NEW v \in Workers, NEW w \in Workers, v # w,
                        wpc'[v] = "claiming", wpc'[w] = "claiming"
                 PROVE  held'[v] \cap held'[w] = {}
      BY DEF ClaimsDisjoint
    <2>1. ASSUME NEW u \in Workers, wpc'[u] = "claiming"
          PROVE  \/ wpc[u] = "claiming" /\ held'[u] = held[u]
                 \/ ClaimSelect(u)
      BY <1>1, <1>6, <2>1 DEF WorkerChange, ClaimCommit, TypeOK
    <2>2. ASSUME NEW x \in Workers, NEW y \in Workers, x # y,
                 ClaimSelect(x), wpc'[y] = "claiming"
          PROVE  held'[x] \cap held'[y] = {}
      <3>1. held'[x] = Batch(x) /\ wpc[y] = "claiming" /\ held'[y] = held[y]
        BY <1>1, <2>2 DEF ClaimSelect, TypeOK
      <3>2. held[y] \subseteq LockedRows BY <3>1 DEF LockedRows
      <3> QED BY <3>1, <3>2, BatchClaimable DEF Claimable
    <2>3. CASE ClaimSelect(v) BY <2>2, <2>3
    <2>4. CASE ClaimSelect(w) BY <2>2, <2>4
    <2>5. CASE ~ClaimSelect(v) /\ ~ClaimSelect(w)
      BY <2>1, <2>5 DEF CoherenceInv, ClaimsDisjoint
    <2> QED BY <2>3, <2>4, <2>5
  <1> QED BY <1>1, <1>4, <1>5, <1>7, <1>8 DEF CoherenceInv

(* Whole-row Saves of stale copies never leave a mixed row, for any number *)
(* of workers, requests, faults and expired leases.                        *)
THEOREM RowsAlwaysCoherent == Spec => []RowsCoherent
  <1>1. CoherenceInv => RowsCoherent BY DEF CoherenceInv
  <1> QED BY <1>1, CoherenceInit, CoherenceStep, PTL DEF Spec
-----------------------------------------------------------------------------
(* RunningIsAttended, one row at a time. *)
Attended(t) ==
  faults = 0 /\ row[t].status = "running" =>
    wpc[row[t].owner] = "working" /\ t \in held[row[t].owner]

(* A row with a worker at it keeps one. *)
LEMMA AttendedStep ==
  ASSUME CoherenceInv, CoherenceInv', [Next]_vars, NEW t \in Tasks, Attended(t)
  PROVE  Attended(t)'
  <1> USE QueueAssumption DEF Attended
  <1>a. TypeOK /\ TypeOK' BY DEF CoherenceInv
  <1>b. row[t].owner \in Workers \cup {NoWorker} BY <1>a DEF TypeOK, Row
  <1>c. ASSUME row[t].status = "running" PROVE row[t].owner # NoWorker
    <2>1. CoherentRow(row[t]) BY <1>c DEF CoherenceInv, RowsCoherent, Created
    <2> QED BY <1>c, <2>1, Zenon DEF CoherentRow
  <1>0. TypeOK /\ TypeOK' /\ (row[t].status = "running" => row[t].owner \in Workers)
    BY <1>a, <1>b, <1>c
  <1>1. ASSUME NEW u \in Tasks, NEW p \in Priorities, NEW q \in Queues,
               NEW m \in RequestedMax, TaskCreate(u, p, q, m)
        PROVE  Attended(t)'
    BY <1>0, <1>1 DEF TaskCreate, NewRow, TypeOK
  <1>2. ASSUME NEW w \in Workers, ClaimSelect(w) \/ Restart(w) PROVE Attended(t)'
    <2>1. /\ row' = row /\ faults' = faults /\ wpc[w] # "working"
          /\ \A v \in Workers : v # w => wpc'[v] = wpc[v] /\ held'[v] = held[v]
      BY <1>0, <1>2 DEF ClaimSelect, Restart, TypeOK
    <2> QED BY <1>0, <2>1
  <1>3. ASSUME NEW w \in Workers, ClaimCommit(w) PROVE Attended(t)'
    <2>1. CASE t \in held[w]
      <3>1. row'[t].owner = w BY <1>3, <2>1 DEF ClaimCommit, ClaimedRow, WholeRow
      <3> QED BY <1>0, <1>3, <2>1, <3>1 DEF ClaimCommit, TypeOK
    <2>2. CASE t \notin held[w]
      BY <1>0, <1>3, <2>2 DEF ClaimCommit, TypeOK
    <2> QED BY <2>1, <2>2
  <1>4. ASSUME NEW w \in Workers, ClaimAbort(w) \/ Crash(w) \/ \E u \in Tasks : LoseSave(w, u)
        PROVE  Attended(t)'
    BY <1>0, <1>4 DEF ClaimAbort, Crash, LoseSave, TypeOK
  <1>5. ASSUME NEW w \in Workers, NEW u \in Tasks, SaveSuccess(w, u) \/ SaveFailure(w, u)
        PROVE  Attended(t)'
    <2>1. CASE t = u
      <3>1. row'[t].status # "running"
        BY <1>0, <1>5, <2>1 DEF SaveSuccess, SaveFailure, SucceededRow, FailedRow, WholeRow, TypeOK
      <3> QED BY <3>1
    <2>2. CASE t # u
      <3>1. row'[t] = row[t] /\ faults' = faults
        BY <1>0, <1>5, <2>2 DEF SaveSuccess, SaveFailure, TypeOK
      <3> QED BY <1>0, <1>5, <2>2, <3>1 DEF SaveSuccess, SaveFailure, Release, TypeOK
    <2> QED BY <2>1, <2>2
  <1>6. ASSUME NEW c \in Cancelers, NEW u \in Tasks, CancelGet(c, u) PROVE Attended(t)'
    BY <1>6 DEF CancelGet
  <1>7. ASSUME NEW c \in Cancelers, CancelSave(c) PROVE Attended(t)'
    <2>1. creq[c].image.status = "canceled"
      BY <1>7 DEF CancelSave, CoherenceInv, ImagesCoherent, ImageCoherent
    <2> QED BY <1>0, <1>7, <2>1 DEF CancelSave, TypeOK
  <1>8. ASSUME Tick PROVE Attended(t)'
    BY <1>0, <1>8 DEF Tick, AgedRow, WholeRow
  <1>9. CASE UNCHANGED vars BY <1>9 DEF vars
  <1> QED
    BY <1>1, <1>2, <1>3, <1>4, <1>5, <1>6, <1>7, <1>8, <1>9 DEF Next, WorkerStep

(* Without faults, no row is left running with nobody to finish it.        *)
THEOREM RunningAlwaysAttended == Spec => []RunningIsAttended
  <1> DEFINE I == CoherenceInv /\ \A t \in Tasks : Attended(t)
  <1>1. Init => I
    BY CoherenceInit DEF Init, AbsentRow, Attended
  <1>2. I /\ [Next]_vars => I'
    <2> SUFFICES ASSUME I, [Next]_vars PROVE I' OBVIOUS
    <2>1. CoherenceInv' BY CoherenceStep
    <2>2. ASSUME NEW t \in Tasks PROVE Attended(t)' BY <2>1, AttendedStep
    <2> QED BY <2>1, <2>2
  <1>3. I => RunningIsAttended BY DEF RunningIsAttended, Attended
  <1> QED BY <1>1, <1>2, <1>3, PTL DEF Spec
-----------------------------------------------------------------------------
(* Exclusion when no batch outlives its lease.  Exclusive is not inductive *)
(* by itself: what keeps a held row out of another worker's claim is that  *)
(* it is running under an unexpired lease, the one its holder counts, or   *)
(* canceled.                                                               *)
LeaseCovers(w) == wpc[w] \in {"claiming", "working"} => left[w] >= 0

GuardedRow(w, t) ==
  wpc[w] = "working" /\ t \in held[w] =>
    \/ row[t].status = "canceled"
    \/ row[t].status = "running" /\ row[t].lease = left[w]

PromptInv ==
  /\ CoherenceInv
  /\ Exclusive
  /\ \A w \in Workers : LeaseCovers(w)
  /\ \A w \in Workers, t \in Tasks : GuardedRow(w, t)

(* Nobody holds a task initially. *)
LEMMA PromptInit == Init => PromptInv
  BY CoherenceInit
  DEF Init, PromptInv, Exclusive, LeaseCovers, GuardedRow

(* A worker that is prompt extends its leases before they end. *)
LEMMA LeaseStep ==
  ASSUME ~SlowWork, PromptInv, [Next]_vars, NEW w \in Workers
  PROVE  LeaseCovers(w)'
  <1> USE QueueAssumption DEF LeaseCovers
  <1>0. TypeOK /\ LeaseCovers(w) BY DEF PromptInv, CoherenceInv
  <1>1. ASSUME NEW v \in Workers, ClaimSelect(v) PROVE LeaseCovers(w)'
    BY <1>0, <1>1 DEF ClaimSelect, TypeOK
  <1>2. ASSUME NEW v \in Workers, ClaimCommit(v) \/ ClaimAbort(v) \/ Crash(v) \/ Restart(v)
        PROVE  LeaseCovers(w)'
    BY <1>0, <1>2 DEF ClaimCommit, ClaimAbort, Crash, Restart, TypeOK
  <1>3. ASSUME NEW v \in Workers, NEW t \in Tasks, Current(v, t), Release(v, t)
        PROVE  LeaseCovers(w)'
    BY <1>0, <1>3 DEF Current, Release, TypeOK
  <1>4. ASSUME Tick PROVE LeaseCovers(w)'
    BY <1>0, <1>4 DEF Tick, Older, TypeOK
  <1>5. CASE UNCHANGED <<wpc, left>> BY <1>0, <1>5
  <1> QED
    BY <1>1, <1>2, <1>3, <1>4, <1>5
    DEF Next, WorkerStep, vars, TaskCreate, SaveSuccess, SaveFailure, LoseSave,
        CancelGet, CancelSave

(* No two workers hold a task. *)
LEMMA ExclusiveStep ==
  ASSUME PromptInv, [Next]_vars
  PROVE  Exclusive'
  <1>0. TypeOK /\ CoherenceInv BY DEF PromptInv, CoherenceInv
  <1> SUFFICES ASSUME NEW v \in Workers, NEW w \in Workers, v # w
               PROVE  held'[v] \cap held'[w] = {}
    BY DEF Exclusive
  <1>1. ASSUME NEW u \in Workers
        PROVE  held'[u] \subseteq held[u] \/ ClaimSelect(u)
    BY <1>0, WorkerStepChange DEF WorkerChange, ClaimCommit, TypeOK
  <1>2. ASSUME NEW x \in Workers, NEW y \in Workers, x # y, ClaimSelect(x)
        PROVE  held'[x] \cap held'[y] = {}
    <2>1. held'[x] = Batch(x) /\ held'[y] = held[y] BY <1>0, <1>2 DEF ClaimSelect, TypeOK
    <2>2. ASSUME NEW t \in Batch(x), t \in held[y] PROVE FALSE
      <3>1. t \in Tasks /\ Claimable(x, t) BY BatchClaimable
      <3>2. wpc[y] # "claiming" BY <2>2, <3>1 DEF Claimable, LockedRows
      <3>3. wpc[y] = "working"
        BY <1>0, <2>2, <3>2 DEF TypeOK, CoherenceInv, BatchesCoherent
      <3>4. left[y] >= 0 /\ GuardedRow(y, t)
        BY <3>1, <3>3 DEF PromptInv, LeaseCovers
      <3>5. left[y] \in Int BY <1>0 DEF TypeOK
      <3> QED BY <2>2, <3>1, <3>3, <3>4, <3>5 DEF GuardedRow, Claimable
    <2> QED BY <2>1, <2>2
  <1>3. CASE ClaimSelect(v) BY <1>2, <1>3
  <1>4. CASE ClaimSelect(w) BY <1>2, <1>4
  <1>5. CASE ~ClaimSelect(v) /\ ~ClaimSelect(w)
    BY <1>1, <1>5 DEF PromptInv, Exclusive
  <1> QED BY <1>3, <1>4, <1>5

(* The row of a held task stays its worker's. *)
LEMMA GuardedStep ==
  ASSUME PromptInv, [Next]_vars, NEW w \in Workers, NEW t \in Tasks
  PROVE  GuardedRow(w, t)'
  <1> USE QueueAssumption DEF GuardedRow
  <1>0. /\ TypeOK /\ CoherenceInv /\ GuardedRow(w, t)
        /\ \A v \in Workers : v # w => held[v] \cap held[w] = {}
    BY DEF PromptInv, CoherenceInv, Exclusive
  <1>1. ASSUME NEW u \in Tasks, NEW p \in Priorities, NEW q \in Queues,
               NEW m \in RequestedMax, TaskCreate(u, p, q, m)
        PROVE  GuardedRow(w, t)'
    <2>1. t \in held[w] => t # u
      BY <1>0, <1>1 DEF TaskCreate, Created, CoherenceInv, BatchesCoherent, CopyCoherent
    <2> QED BY <1>0, <1>1, <2>1 DEF TaskCreate, TypeOK
  <1>2. ASSUME NEW v \in Workers, ClaimSelect(v) \/ ClaimAbort(v) \/ Crash(v) \/ Restart(v)
        PROVE  GuardedRow(w, t)'
    BY <1>0, <1>2 DEF ClaimSelect, ClaimAbort, Crash, Restart, TypeOK
  <1>3. ASSUME NEW v \in Workers, ClaimCommit(v) PROVE GuardedRow(w, t)'
    <2>1. CASE v = w
      BY <1>0, <1>3, <2>1 DEF ClaimCommit, ClaimedRow, WholeRow, TypeOK
    <2>2. CASE v # w
      BY <1>0, <1>3, <2>2 DEF ClaimCommit, TypeOK
    <2> QED BY <2>1, <2>2
  <1>4. ASSUME NEW v \in Workers, NEW u \in Tasks, Current(v, u), Release(v, u),
               \A x \in Tasks : x # u => row'[x] = row[x]
        PROVE  GuardedRow(w, t)'
    <2>1. CASE t = u
      <3>1. t \notin held'[w] BY <1>0, <1>4, <2>1 DEF Current, Release, TypeOK
      <3> QED BY <3>1
    <2>2. CASE t # u
      <3>1. row'[t] = row[t] BY <1>4, <2>2
      <3>2. wpc'[w] = "working" /\ t \in held'[w] =>
              wpc[w] = "working" /\ t \in held[w] /\ left'[w] = left[w]
        BY <1>0, <1>4, <2>2 DEF Current, Release, TypeOK
      <3> QED BY <1>0, <3>1, <3>2
    <2> QED BY <2>1, <2>2
  <1>5. ASSUME NEW v \in Workers, NEW u \in Tasks,
               SaveSuccess(v, u) \/ SaveFailure(v, u) \/ LoseSave(v, u)
        PROVE  GuardedRow(w, t)'
    BY <1>0, <1>4, <1>5 DEF SaveSuccess, SaveFailure, LoseSave, TypeOK
  <1>6. ASSUME NEW c \in Cancelers, NEW u \in Tasks, CancelGet(c, u)
        PROVE  GuardedRow(w, t)'
    BY <1>0, <1>6 DEF CancelGet
  <1>7. ASSUME NEW c \in Cancelers, CancelSave(c) PROVE GuardedRow(w, t)'
    <2>1. creq[c].image.status = "canceled"
      BY <1>0, <1>7 DEF CancelSave, CoherenceInv, ImagesCoherent, ImageCoherent
    <2> QED BY <1>0, <1>7, <2>1 DEF CancelSave, TypeOK
  <1>8. ASSUME Tick PROVE GuardedRow(w, t)'
    BY <1>0, <1>8 DEF Tick, AgedRow, WholeRow
  <1>9. CASE UNCHANGED vars BY <1>0, <1>9 DEF vars
  <1> QED
    BY <1>1, <1>2, <1>3, <1>5, <1>6, <1>7, <1>8, <1>9 DEF Next, WorkerStep

(* Every step keeps the invariant of prompt workers. *)
LEMMA PromptStep == ~SlowWork /\ PromptInv /\ [Next]_vars => PromptInv'
  <1> SUFFICES ASSUME ~SlowWork, PromptInv, [Next]_vars PROVE PromptInv' OBVIOUS
  <1>1. CoherenceInv' BY CoherenceStep DEF PromptInv
  <1>2. Exclusive' BY ExclusiveStep
  <1>3. ASSUME NEW w \in Workers PROVE LeaseCovers(w)' BY LeaseStep
  <1>4. ASSUME NEW w \in Workers, NEW t \in Tasks PROVE GuardedRow(w, t)' BY GuardedStep
  <1> QED BY <1>1, <1>2, <1>3, <1>4 DEF PromptInv

(* No task is ever in two batches when batches end within their lease.     *)
THEOREM ClaimsAreExclusive == Spec => []ExclusiveWhenPrompt
  <1>1. CASE SlowWork
    <2>1. ExclusiveWhenPrompt BY <1>1 DEF ExclusiveWhenPrompt
    <2> QED BY <2>1, PTL
  <1>2. CASE ~SlowWork
    <2>1. PromptInv /\ [Next]_vars => PromptInv' BY <1>2, PromptStep
    <2>2. PromptInv => ExclusiveWhenPrompt BY DEF PromptInv, ExclusiveWhenPrompt
    <2> QED BY <2>1, <2>2, PromptInit, PTL DEF Spec
  <1> QED BY <1>1, <1>2
-----------------------------------------------------------------------------
(* A coherent terminal row is a fixed point of the clock, and a canceled   *)
(* one of a cancellation.                                                  *)
LEMMA TerminalRowFixed ==
  ASSUME NEW r \in Row, CoherentRow(r), r.status \in Terminal
  PROVE  /\ AgedRow(r) = r
         /\ r.status = "canceled" => CanceledRow(r) = r
  <1>1. r.status # "running" BY DEF Terminal, Finished
  <1>2. r.lease = -1 /\ r.owner = NoWorker BY <1>1 DEF CoherentRow
  <1> QED BY <1>2 DEF AgedRow, CanceledRow, WholeRow, Older, Row

(* A row that is settled does not change. *)
LEMMA SettledStep ==
  ASSUME CoherenceInv, CoherenceInv', [Next]_vars, NEW t \in Tasks, Settled(t)
  PROVE  Settled(t)' /\ row'[t] = row[t]
  <1> USE QueueAssumption
  <1>0. TypeOK /\ TypeOK' BY DEF CoherenceInv
  <1>1. /\ row[t] \in Row /\ row[t].status \in Terminal /\ Created(t)
        /\ \A w \in Workers : t \notin held[w]
        /\ \A c \in Cancelers : creq[c].task = t => creq[c].image = row[t]
    BY <1>0 DEF Settled, TypeOK, Created, Terminal, Finished
  <1>2. CoherentRow(row[t]) BY <1>1 DEF CoherenceInv, RowsCoherent
  <1>3. AgedRow(row[t]) = row[t] BY <1>1, <1>2, TerminalRowFixed
  <1>4. row'[t] = row[t]
    <2>1. RowChange(t) BY <1>0, RowStep
    <2> QED BY <1>1, <1>3, <2>1 DEF RowChange
  <1>5. ASSUME NEW w \in Workers PROVE t \notin held'[w]
    <2>1. WorkerChange(w) BY WorkerStepChange
    <2>2. t \notin Batch(w)
      BY <1>1, BatchClaimable DEF Claimable, Terminal, Finished
    <2> QED BY <1>0, <1>1, <2>1, <2>2 DEF WorkerChange, ClaimSelect, ClaimCommit, TypeOK
  <1>6. ASSUME NEW c \in Cancelers, creq'[c].task = t PROVE creq'[c].image = row[t]
    <2>1. CASE creq'[c] = creq[c] BY <1>1, <1>6, <2>1
    <2>2. creq'[c] # NoImage BY <1>6 DEF NoImage, Tasks
    <2>3. ASSUME NEW d \in Cancelers, NEW u \in Tasks, CancelGet(d, u), creq'[c] # creq[c]
          PROVE  creq'[c].image = row[t]
      <3>1. /\ creq'[c] = [task |-> u, image |-> CanceledRow(row[u])]
            /\ row[u].status \notin Finished
        BY <1>0, <2>3 DEF CancelGet, TypeOK
      <3>2. u = t BY <1>6, <3>1
      <3>3. row[t].status = "canceled" BY <1>1, <3>1, <3>2 DEF Terminal
      <3>4. CanceledRow(row[t]) = row[t] BY <1>1, <1>2, <3>3, TerminalRowFixed
      <3> QED BY <3>1, <3>2, <3>4
    <2>4. ASSUME NEW d \in Cancelers, CancelSave(d) PROVE creq'[c] = creq[c]
      BY <1>0, <2>2, <2>4 DEF CancelSave, TypeOK
    <2> QED
      BY <2>1, <2>3, <2>4
      DEF Next, WorkerStep, vars, TaskCreate, ClaimSelect, ClaimCommit, ClaimAbort,
          SaveSuccess, SaveFailure, LoseSave, Crash, Restart, Tick
  <1> QED BY <1>1, <1>4, <1>5, <1>6 DEF Settled

(* A terminal task that no worker and no request still has a differing     *)
(* copy of never changes again.                                            *)
THEOREM SettledRowsAreFinal == Spec => SettledIsFinal
  <1>1. CoherenceInv /\ CoherenceInv' /\ [Next]_vars =>
          [\A t \in Tasks : Settled(t) => Settled(t)' /\ row'[t] = row[t]]_vars
    BY SettledStep
  <1>2. Spec => []CoherenceInv
    BY CoherenceInit, CoherenceStep, PTL DEF Spec
  <1> QED BY <1>1, <1>2, PTL DEF Spec, SettledIsFinal
-----------------------------------------------------------------------------
(* At most one worker holds a task, so the refinement mapping finds it. *)
LEMMA HolderIsUnique ==
  ASSUME Exclusive, NEW w \in Workers, NEW t \in Tasks, Holds(w, t)
  PROVE  holderOf[t] = w
  <1>1. \A v \in Workers : Holds(v, t) => v = w BY DEF Exclusive, Holds
  <1> QED BY <1>1 DEF holderOf

(* A task that no worker holds has no holder. *)
LEMMA NobodyHolds ==
  ASSUME NEW t \in Tasks, \A w \in Workers : ~Holds(w, t)
  PROVE  holderOf[t] = NoWorker
  BY DEF holderOf

(* Steps that change neither wpc nor held, or only outside "working". *)
LEMMA HoldersKept ==
  ASSUME \A w \in Workers, t \in Tasks : Holds(w, t)' <=> Holds(w, t)
  PROVE  holderOf' = holderOf
  <1>1. ASSUME NEW t \in Tasks
        PROVE  /\ (\E w \in Workers : Holds(w, t)') <=> (\E w \in Workers : Holds(w, t))
               /\ (CHOOSE w \in Workers : Holds(w, t)') = (CHOOSE w \in Workers : Holds(w, t))
    BY Zenon
  <1> QED BY <1>1, Zenon DEF holderOf

(* The initial states are those of the abstract queue. *)
LEMMA RefinesInit == Init => Abstract!Init
  <1> SUFFICES ASSUME Init PROVE Abstract!Init OBVIOUS
  <1>1. statusOf = [t \in Tasks |-> "absent"] BY DEF Init, statusOf, AbsentRow
  <1>2. \A w \in Workers, t \in Tasks : ~Holds(w, t) BY DEF Init, Holds
  <1>3. holderOf = [t \in Tasks |-> NoWorker] BY <1>2 DEF holderOf
  <1> QED BY <1>1, <1>3 DEF Abstract!Init

(* A worker that releases one task of its batch. *)
LEMMA ReleaseHolder ==
  ASSUME PromptInv, Exclusive', NEW w \in Workers, NEW t \in Tasks,
         Current(w, t), Release(w, t)
  PROVE  /\ holderOf[t] = w
         /\ holderOf' = [holderOf EXCEPT ![t] = NoWorker]
  <1>0. TypeOK /\ Exclusive BY DEF PromptInv, CoherenceInv
  <1>1. Holds(w, t) BY DEF Current, Holds
  <1>2. holderOf[t] = w BY <1>0, <1>1, HolderIsUnique
  <1>3. \A v \in Workers : ~Holds(v, t)'
    BY <1>0, <1>1 DEF Exclusive, Holds, Release, TypeOK
  <1>4. holderOf'[t] = NoWorker BY <1>3 DEF holderOf
  <1>5. ASSUME NEW u \in Tasks, u # t PROVE holderOf'[u] = holderOf[u]
    <2>1. \A v \in Workers : Holds(v, u)' <=> Holds(v, u)
      BY <1>0, <1>1, <1>5 DEF Holds, Release, TypeOK
    <2>2. /\ (\E v \in Workers : Holds(v, u)') <=> (\E v \in Workers : Holds(v, u))
          /\ (CHOOSE v \in Workers : Holds(v, u)') = (CHOOSE v \in Workers : Holds(v, u))
      BY <2>1, Zenon
    <2> QED BY <2>2, Zenon DEF holderOf
  <1> QED BY <1>2, <1>4, <1>5 DEF holderOf

(* Every step is one of the abstract queue, or none. *)
LEMMA RefinesStep ==
  ASSUME PromptInv, PromptInv', [Next]_vars
  PROVE  [Abstract!Next]_(Abstract!vars)
  <1> USE QueueAssumption
  <1>0. TypeOK /\ TypeOK' /\ CoherenceInv /\ Exclusive /\ Exclusive'
    BY DEF PromptInv, CoherenceInv
  <1>a. ASSUME statusOf' = statusOf, holderOf' = holderOf
        PROVE  [Abstract!Next]_(Abstract!vars)
    BY <1>a DEF Abstract!vars
  <1>b. ASSUME row' = row PROVE statusOf' = statusOf BY <1>b DEF statusOf
  <1>c. ASSUME UNCHANGED <<wpc, held>> PROVE holderOf' = holderOf
    BY <1>c, HoldersKept DEF Holds
  <1>1. ASSUME NEW t \in Tasks, NEW p \in Priorities, NEW q \in Queues,
               NEW m \in RequestedMax, TaskCreate(t, p, q, m)
        PROVE  [Abstract!Next]_(Abstract!vars)
    <2>1. holderOf' = holderOf BY <1>1, <1>c DEF TaskCreate
    <2>2. /\ statusOf[t] = "absent"
          /\ statusOf' = [statusOf EXCEPT ![t] = "pending"]
      BY <1>0, <1>1 DEF TaskCreate, Created, NewRow, statusOf, TypeOK
    <2> QED BY <2>1, <2>2 DEF Abstract!Next, Abstract!Submit
  <1>2. ASSUME NEW w \in Workers, ClaimSelect(w) \/ ClaimAbort(w) \/ Restart(w)
        PROVE  [Abstract!Next]_(Abstract!vars)
    <2>1. \A v \in Workers, t \in Tasks : Holds(v, t)' <=> Holds(v, t)
      BY <1>0, <1>2 DEF ClaimSelect, ClaimAbort, Restart, Holds, TypeOK
    <2>2. row' = row BY <1>2 DEF ClaimSelect, ClaimAbort, Restart
    <2> QED BY <1>a, <1>b, <2>1, <2>2, HoldersKept
  <1>3. ASSUME NEW w \in Workers, ClaimCommit(w)
        PROVE  [Abstract!Next]_(Abstract!vars)
    <2>1. /\ wpc[w] = "claiming" /\ wpc'[w] = "working"
          /\ held' = held /\ held[w] \subseteq Tasks
          /\ \A v \in Workers : v # w => wpc'[v] = wpc[v]
      BY <1>0, <1>3 DEF ClaimCommit, TypeOK
    <2>2. ASSUME NEW t \in held[w]
          PROVE  statusOf[t] \in {"pending", "running"} /\ holderOf[t] = NoWorker
      <3>1. t \in Tasks /\ CopyCoherent(w, t)
        BY <1>0, <2>1 DEF CoherenceInv, BatchesCoherent
      <3>2. \A v \in Workers : ~Holds(v, t)
        BY <1>0, <2>1, <2>2 DEF Exclusive, Holds
      <3> QED BY <2>1, <3>1, <3>2, NobodyHolds DEF CopyCoherent, statusOf
    <2>3. statusOf' = [t \in Tasks |-> IF t \in held[w] THEN "running" ELSE statusOf[t]]
      BY <1>3 DEF ClaimCommit, ClaimedRow, WholeRow, statusOf
    <2>4. ASSUME NEW t \in Tasks
          PROVE  holderOf'[t] = IF t \in held[w] THEN w ELSE holderOf[t]
      <3>1. CASE t \in held[w]
        <4>1. Holds(w, t)' BY <2>1, <3>1 DEF Holds
        <4>2. \A v \in Workers : Holds(v, t)' => v = w
          BY <1>0, <4>1 DEF Exclusive, Holds
        <4> QED BY <3>1, <4>1, <4>2 DEF holderOf
      <3>2. CASE t \notin held[w]
        <4>1. \A v \in Workers : Holds(v, t)' <=> Holds(v, t)
          BY <2>1, <3>2 DEF Holds
        <4>2. /\ (\E v \in Workers : Holds(v, t)') <=> (\E v \in Workers : Holds(v, t))
              /\ (CHOOSE v \in Workers : Holds(v, t)') = (CHOOSE v \in Workers : Holds(v, t))
          BY <4>1, Zenon
        <4> QED BY <3>2, <4>2, Zenon DEF holderOf
      <3> QED BY <3>1, <3>2
    <2>5. holderOf' = [t \in Tasks |-> IF t \in held[w] THEN w ELSE holderOf[t]]
      BY <2>4 DEF holderOf
    <2>6. Abstract!Take(w, held[w]) BY <2>2, <2>3, <2>5 DEF Abstract!Take
    <2> QED BY <2>1, <2>6 DEF Abstract!Next
  <1>4. ASSUME NEW w \in Workers, NEW t \in Tasks, SaveSuccess(w, t) \/ SaveFailure(w, t)
        PROVE  [Abstract!Next]_(Abstract!vars)
    <2>0. Current(w, t) /\ Release(w, t) BY <1>4 DEF SaveSuccess, SaveFailure
    <2>1. holderOf[t] = w /\ holderOf' = [holderOf EXCEPT ![t] = NoWorker]
      BY <1>0, <2>0, ReleaseHolder
    <2>2. row[t].status \in {"running", "canceled"}
      BY <2>0 DEF PromptInv, GuardedRow, Current
    <2>3. /\ row'[t].status \in {"succeeded", "failed", "pending"}
          /\ \A u \in Tasks : u # t => row'[u] = row[u]
      BY <1>0, <1>4 DEF SaveSuccess, SaveFailure, SucceededRow, FailedRow, WholeRow, TypeOK
    <2>4. statusOf' = [statusOf EXCEPT ![t] = row'[t].status] BY <2>3 DEF statusOf
    <2>5. Abstract!Report(t) BY <2>1, <2>2, <2>3, <2>4 DEF Abstract!Report, statusOf
    <2> QED BY <2>5 DEF Abstract!Next
  <1>5. ASSUME NEW w \in Workers, NEW t \in Tasks, LoseSave(w, t)
        PROVE  [Abstract!Next]_(Abstract!vars)
    <2>0. Current(w, t) /\ Release(w, t) /\ row' = row BY <1>5 DEF LoseSave
    <2>1. holderOf' = [holderOf EXCEPT ![t] = NoWorker] BY <1>0, <2>0, ReleaseHolder
    <2>2. holderOf' = [u \in Tasks |-> IF u \in {t} THEN NoWorker ELSE holderOf[u]]
      BY <2>1 DEF holderOf
    <2>3. Abstract!Drop({t}) BY <1>b, <2>0, <2>2 DEF Abstract!Drop
    <2> QED BY <2>3 DEF Abstract!Next
  <1>6. ASSUME NEW w \in Workers, Crash(w)
        PROVE  [Abstract!Next]_(Abstract!vars)
    <2> DEFINE S == {t \in Tasks : Holds(w, t)}
    <2>1. ASSUME NEW t \in Tasks
          PROVE  holderOf'[t] = IF t \in S THEN NoWorker ELSE holderOf[t]
      <3>1. CASE Holds(w, t)
        <4>1. \A v \in Workers : ~Holds(v, t)'
          BY <1>0, <1>6, <3>1 DEF Crash, Exclusive, Holds, TypeOK
        <4> QED BY <3>1, <4>1 DEF holderOf
      <3>2. CASE ~Holds(w, t)
        <4>1. \A v \in Workers : Holds(v, t)' <=> Holds(v, t)
          BY <1>0, <1>6, <3>2 DEF Crash, Holds, TypeOK
        <4>2. /\ (\E v \in Workers : Holds(v, t)') <=> (\E v \in Workers : Holds(v, t))
              /\ (CHOOSE v \in Workers : Holds(v, t)') = (CHOOSE v \in Workers : Holds(v, t))
          BY <4>1, Zenon
        <4> QED BY <3>2, <4>2, Zenon DEF holderOf
      <3> QED BY <3>1, <3>2
    <2>2. holderOf' = [t \in Tasks |-> IF t \in S THEN NoWorker ELSE holderOf[t]]
      BY <2>1 DEF holderOf
    <2>3. statusOf' = statusOf BY <1>6, <1>b DEF Crash
    <2>4. Abstract!Drop(S) BY <2>2, <2>3 DEF Abstract!Drop
    <2>5. S \in SUBSET Tasks OBVIOUS
    <2> QED BY <2>4, <2>5 DEF Abstract!Next
  <1>7. ASSUME NEW c \in Cancelers, NEW t \in Tasks, CancelGet(c, t)
        PROVE  [Abstract!Next]_(Abstract!vars)
    BY <1>7, <1>a, <1>b, <1>c DEF CancelGet
  <1>8. ASSUME NEW c \in Cancelers, CancelSave(c)
        PROVE  [Abstract!Next]_(Abstract!vars)
    <2>1. holderOf' = holderOf BY <1>8, <1>c DEF CancelSave
    <2>2. /\ creq[c].task \in Tasks
          /\ row[creq[c].task].status # "absent"
          /\ creq[c].image.status = "canceled"
      BY <1>0, <1>8 DEF CancelSave, CoherenceInv, ImagesCoherent, ImageCoherent, TypeOK, Image
    <2>3. statusOf' = [statusOf EXCEPT ![creq[c].task] = "canceled"]
      BY <1>0, <1>8, <2>2 DEF CancelSave, statusOf, TypeOK
    <2>4. Abstract!Cancel(creq[c].task)
      BY <2>1, <2>2, <2>3 DEF Abstract!Cancel, statusOf
    <2> QED BY <2>2, <2>4 DEF Abstract!Next
  <1>9. ASSUME Tick PROVE [Abstract!Next]_(Abstract!vars)
    <2>1. statusOf' = statusOf BY <1>9 DEF Tick, statusOf, AgedRow, WholeRow
    <2> QED BY <1>9, <1>a, <1>c, <2>1 DEF Tick
  <1>10. CASE UNCHANGED vars
    BY <1>10, <1>a, <1>b, <1>c DEF vars
  <1> QED
    BY <1>1, <1>2, <1>3, <1>4, <1>5, <1>6, <1>7, <1>8, <1>9, <1>10 DEF Next, WorkerStep

(* With batches that end within their lease, the queue of leases,          *)
(* transactions, stale copies and faults is an implementation of           *)
(* LeasedWork.                                                             *)
THEOREM QueueImplementsLeasedWork ==
  ASSUME ~SlowWork
  PROVE  Spec => ImplementsLeasedWork
  <1>1. PromptInv /\ [Next]_vars => PromptInv' BY PromptStep
  <1>2. PromptInv /\ PromptInv' /\ [Next]_vars => [Abstract!Next]_(Abstract!vars)
    BY RefinesStep
  <1> QED
    BY <1>1, <1>2, PromptInit, RefinesInit, PTL
    DEF Spec, ImplementsLeasedWork, Abstract!Spec
=============================================================================
