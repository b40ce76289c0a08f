-------------------------- MODULE MCDeliveryPipeline --------------------------
(* Values for the constants of DeliveryPipeline, and its symmetries.        *)
EXTENDS DeliveryPipeline, TLC

CONSTANTS e1, a1, a2, s1, s2, w1, w2

WorkerSymmetry == Permutations(Workers)
AdminSymmetry == Permutations(Admins)
\* posts is a history variable no action reads: runs that state nothing of it
\* need not tell states apart by it.
NoPosts == <<clock, dbVars, apiVars, workerVars, acked, crashes>>
=============================================================================
