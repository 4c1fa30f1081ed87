--------------------------- MODULE MCAccessTokens ---------------------------
(* AccessTokens for TLC: instances, workers and tokens are interchangeable. *)
EXTENDS AccessTokens, TLC

Symmetry == Permutations(Instances) \cup Permutations(Handlers) \cup Permutations(Tokens)
=============================================================================
