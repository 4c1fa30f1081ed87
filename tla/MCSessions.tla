----------------------------- MODULE MCSessions -----------------------------
(* Sessions for TLC: rows and workers are interchangeable. *)
EXTENDS Sessions, TLC

Symmetry == Permutations(Tokens) \cup Permutations(Handlers)
=============================================================================
