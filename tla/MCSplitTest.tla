----------------------------- MODULE MCSplitTest -----------------------------
(* Model values and symmetry for TLC.                                       *)
EXTENDS SplitTestInvariants, TLC

Symmetry ==
  UNION {Permutations(Requests), Permutations(Tests), Permutations(Approvals),
         Permutations(Studies), Permutations(Ads)}
=============================================================================
