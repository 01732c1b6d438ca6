---------------------------- MODULE MCCanvasStore ----------------------------
(* A small instance of CanvasStore. *)
EXTENDS CanvasStore, TLC

CONSTANTS s1, s2, e1, e2

Symmetric == Permutations(Sessions) \cup Permutations(Edits)
=============================================================================
