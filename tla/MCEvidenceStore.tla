--------------------------- MODULE MCEvidenceStore ---------------------------
(* Instances of EvidenceStore for TLC. *)
EXTENDS EvidenceStore, TLC

CallSymmetry == Permutations(Calls)
=============================================================================
