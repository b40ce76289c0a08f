--------------------------- MODULE MCIngestionCache ---------------------------
(* Instances of IngestionCache for TLC. *)
EXTENDS IngestionCache, TLC

ThreadSymmetry == Permutations(Threads)
=============================================================================
