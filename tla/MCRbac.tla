------------------------------- MODULE MCRbac -------------------------------
(* MemoryRoles, and Rbac in it, for TLC: rows, new names and workers are interchangeable. *)
EXTENDS MemoryRoles, TLC

Symmetry == Permutations(CustomRoles) \cup Permutations(CustomNames)
              \cup Permutations(Perms) \cup Permutations(Handlers)
=============================================================================
