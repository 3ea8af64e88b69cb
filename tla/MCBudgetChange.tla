---------------------------- MODULE MCBudgetChange ----------------------------
(* Model values and symmetry for TLC.                                       *)
EXTENDS BudgetInvariants, TLC

Symmetry ==
  UNION {Permutations(Requests), Permutations(Recs), Permutations(Approvals),
         Permutations(Trees)}
=============================================================================
