---------------------------- MODULE MCMetaAccess ----------------------------
(* MetaAccess for TLC: connections, accounts and requests are interchangeable. *)
EXTENDS MetaAccess, TLC

Symmetry == Permutations(Connections) \cup Permutations(Accounts)
            \cup Permutations(Requests)
=============================================================================
