--------------------------- MODULE TradingConstants ---------------------------
(* What the backend and the phone of one account have in common. *)
EXTENDS Naturals

CONSTANTS
  Symbols,     \* the coins the account trades
  Orders,      \* ids of pending_executions rows (bounds how many)
  Holdings     \* quantities the wallet may start with, or be credited from outside

ASSUME HoldingsAssumption == Holdings \subseteq Nat
=============================================================================
