----------------------------- MODULE MCAccounts -----------------------------
(* Accounts for TLC: rows and workers are interchangeable. *)
EXTENDS Accounts, TLC

Symmetry == Permutations(Users) \cup Permutations(Links) \cup Permutations(Handlers)
=============================================================================
