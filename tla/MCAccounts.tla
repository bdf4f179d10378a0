----------------------------- MODULE MCAccounts -----------------------------
(* Accounts for TLC. *)
EXTENDS Accounts, TLC

Symmetry == Permutations(Users) \cup Permutations(Requests)
=============================================================================
