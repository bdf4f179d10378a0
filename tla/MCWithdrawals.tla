--------------------------- MODULE MCWithdrawals ---------------------------
(* Small instances of Withdrawals for TLC. *)
EXTENDS Withdrawals, TLC

\* Wallets, payments and requests are interchangeable.
Symmetry == Permutations(Wallets) \cup Permutations(Payments) \cup Permutations(Requests)
=============================================================================
