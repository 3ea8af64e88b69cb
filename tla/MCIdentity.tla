----------------------------- MODULE MCIdentity -----------------------------
(* Identity for TLC: users and organisations are interchangeable. *)
EXTENDS Identity, TLC

Symmetry == Permutations(Users) \cup Permutations(Orgs)
=============================================================================
