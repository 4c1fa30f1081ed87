------------------------------ MODULE MCLockout ------------------------------
(* Lockout for TLC: recorded failures and workers are interchangeable. *)
EXTENDS Lockout, TLC

Symmetry == Permutations(Attempts) \cup Permutations(Handlers)
=============================================================================
