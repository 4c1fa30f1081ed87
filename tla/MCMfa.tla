-------------------------------- MODULE MCMfa --------------------------------
(* Mfa for TLC: secrets, recovery codes and workers are interchangeable. *)
EXTENDS Mfa, TLC

Symmetry == Permutations(Secrets) \cup Permutations(Codes) \cup Permutations(Handlers)
=============================================================================
