---------------------------- MODULE MCCaseWorkflow ----------------------------
(* Instances of CaseWorkflow for TLC. *)
EXTENDS CaseWorkflow, TLC

CallSymmetry == Permutations(Calls)
=============================================================================
