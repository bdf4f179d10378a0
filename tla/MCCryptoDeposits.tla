-------------------------- MODULE MCCryptoDeposits ---------------------------
(* Small instances of CryptoDeposits for TLC. *)
EXTENDS CryptoDeposits, TLC

\* Transactions and wallets are interchangeable.
Symmetry == Permutations(Txs) \cup Permutations(Wallets) \cup Permutations(Pollers)
=============================================================================
