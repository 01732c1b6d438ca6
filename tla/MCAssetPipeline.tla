--------------------------- MODULE MCAssetPipeline ---------------------------
(* Small instances of AssetPipeline. *)
EXTENDS AssetPipeline, TLC

CONSTANTS w1, w2

WorkerSymmetry == Permutations(Workers)
=============================================================================
