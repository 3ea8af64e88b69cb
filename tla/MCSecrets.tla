----------------------------- MODULE MCSecrets -----------------------------
(* Secrets for TLC: two leads of which one names a person, and the processes alike. *)
EXTENDS Secrets, TLC

CONSTANTS l1, l2, u1

MCOwner == (l1 :> u1) @@ (l2 :> None)
MCBatches == {<<l1>>, <<l2, l1>>}
Symmetry == Permutations(Processes)
=============================================================================
