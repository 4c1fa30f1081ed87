----------------------------- MODULE MCClients -----------------------------
(* Clients for TLC: rows and workers are interchangeable. *)
EXTENDS Clients, TLC

Symmetry == Permutations(Tokens) \cup Permutations(Handlers)
=============================================================================
