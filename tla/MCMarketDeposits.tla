-------------------------- MODULE MCMarketDeposits --------------------------
(* MarketDeposits for TLC. *)
EXTENDS MarketDeposits
=============================================================================
