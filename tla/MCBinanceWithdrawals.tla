------------------------- MODULE MCBinanceWithdrawals -------------------------
(* Two payments and the engine's hold against a balance of two, for TLC. *)
EXTENDS BinanceWithdrawals, TLC

CONSTANTS p1, p2
=============================================================================
