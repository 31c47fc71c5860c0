--------------------------- MODULE MCExecutionQueue ---------------------------
(* ExecutionQueue on small sets; the .cfg files choose the deployment. *)
EXTENDS ExecutionQueue, TLC

\* Rows and symbols are interchangeable in runs without liveness properties.
QueueSymmetry == Permutations(Orders) \cup Permutations(Symbols)
=============================================================================
