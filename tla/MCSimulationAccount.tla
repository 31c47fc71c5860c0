-------------------------- MODULE MCSimulationAccount --------------------------
(* SimulationAccount on small sets; the .cfg files choose the deployment. *)
EXTENDS SimulationAccount, TLC

\* Coins are interchangeable where none is singled out as flaky.
CoinSymmetry == Permutations(Coins)
=============================================================================
