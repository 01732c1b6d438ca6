----------------------------- MODULE MCLifecycle -----------------------------
(* What must eventually happen: to the tasks of the queue, and to a server *)
(* that was told to stop.  A behaviour is one of the queue or one of the   *)
(* server; the conditions of fairness are those of the part it is of.      *)
EXTENDS MCTaskQueue, ServerLifecycle

VARIABLE side   \* the part the behaviour is about

mcVars == <<vars, lifecycleVars, side>>

MCInit ==
  /\ Init /\ LifecycleInit /\ side \in {"queue", "server"}
  /\ side = "queue" => opts = CHOOSE o \in Options : TRUE

MCNext ==
  /\ UNCHANGED side
  /\ \/ side = "queue" /\ Next /\ UNCHANGED lifecycleVars
     \/ side = "server" /\ LifecycleNext /\ UNCHANGED vars

MCSpec ==
  /\ MCInit /\ [][MCNext]_mcVars
  /\ side = "queue" => Fairness
  /\ side = "server" => LifecycleFairness
=============================================================================
