----------------------------- MODULE MCTaskQueue -----------------------------
(* Instances of TaskQueue for TLC. *)
EXTENDS TaskQueueRefinement, TLC

CONSTANTS w1, w2, q1, q2

OneQueue == [w \in Workers |-> q1]
TwoPriorities == {0, 1}
(* An absent max_attempts and, besides it, a negative one. *)
AnyMax == {-1, 0}

WorkerSymmetry == Permutations(Workers)
=============================================================================
