----------------------------- MODULE MCLiveTrading -----------------------------
(* LiveTrading on small sets; the .cfg files choose the deployment. *)
EXTENDS LiveTrading, TLC

\* Rows are interchangeable in runs without liveness properties.
LiveSymmetry == Permutations(Orders) \cup Permutations(Devices)
=============================================================================
