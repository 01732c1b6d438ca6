------------------------------ MODULE LeasedWork ------------------------------
(***************************************************************************)
(* What the task queue promises its users when every batch is run within   *)
(* its lease, without leases, transactions, in-memory copies or attempts:  *)
(* a task is held by at most one worker, only an unheld, unfinished task   *)
(* is taken, only its holder reports a result for it, and nothing but a    *)
(* cancellation changes the status of a task nobody holds.                 *)
(***************************************************************************)
CONSTANTS Tasks, Workers, NoWorker

VARIABLES
  status,   \* the status of each task
  holder    \* the worker that has the task in its batch

vars == <<status, holder>>

Init ==
  /\ status = [t \in Tasks |-> "absent"]
  /\ holder = [t \in Tasks |-> NoWorker]

(* A client submits a task. *)
Submit(t) ==
  /\ status[t] = "absent"
  /\ status' = [status EXCEPT ![t] = "pending"]
  /\ UNCHANGED holder

(* A worker takes a batch of tasks that nobody holds. *)
Take(w, S) ==
  /\ \A t \in S : status[t] \in {"pending", "running"} /\ holder[t] = NoWorker
  /\ status' = [t \in Tasks |-> IF t \in S THEN "running" ELSE status[t]]
  /\ holder' = [t \in Tasks |-> IF t \in S THEN w ELSE holder[t]]

(* The holder reports: done, failed for good, or to be tried again.  It    *)
(* may be unaware that the task was canceled meanwhile.                    *)
Report(t) ==
  /\ holder[t] # NoWorker
  /\ status[t] \in {"running", "canceled"}
  /\ \E s \in {"succeeded", "failed", "pending"} : status' = [status EXCEPT ![t] = s]
  /\ holder' = [holder EXCEPT ![t] = NoWorker]

(* A holder fails: its tasks are held by nobody and stay as they are. *)
Drop(S) ==
  /\ holder' = [t \in Tasks |-> IF t \in S THEN NoWorker ELSE holder[t]]
  /\ UNCHANGED status

(* A client cancels; the request may have been overtaken by a result. *)
Cancel(t) ==
  /\ status[t] # "absent"
  /\ status' = [status EXCEPT ![t] = "canceled"]
  /\ UNCHANGED holder

Next ==
  \/ \E t \in Tasks : Submit(t) \/ Report(t) \/ Cancel(t)
  \/ \E S \in SUBSET Tasks : Drop(S) \/ \E w \in Workers : Take(w, S)

Spec == Init /\ [][Next]_vars
=============================================================================
