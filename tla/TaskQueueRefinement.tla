------------------------- MODULE TaskQueueRefinement -------------------------
(* The task queue implements LeasedWork when no batch outlives its lease.  *)
EXTENDS TaskQueue

(* The worker that has claimed t and not yet reported: the one with t in   *)
(* the batch runOnce is working through.                                   *)
Holds(w, t) == wpc[w] = "working" /\ t \in held[w]

holderOf ==
  [t \in Tasks |-> IF \E w \in Workers : Holds(w, t)
                   THEN CHOOSE w \in Workers : Holds(w, t) ELSE NoWorker]

statusOf == [t \in Tasks |-> row[t].status]

Abstract == INSTANCE LeasedWork WITH status <- statusOf, holder <- holderOf

(* With batches that end within their lease, Claim's transaction, runOnce  *)
(* and Cancel together behave as LeasedWork: a task is taken only when     *)
(* nobody holds it and only its single holder reports for it, through      *)
(* crashes, rolled-back claims, lost Saves and cancellations.              *)
ImplementsLeasedWork == Abstract!Spec
=============================================================================
