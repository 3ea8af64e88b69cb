-------------------------- MODULE MCCampaignApproval --------------------------
(* Model values, symmetry and connection layout for TLC.                    *)
EXTENDS CampaignInvariants, TLC

CONSTANTS x1, x2

\* Every ad account under the one connection of the client.
OneConnection == [x \in Accounts |-> "k1"]
\* The second ad account comes from a connection of its own.
TwoConnections == [x \in Accounts |-> IF x = x1 THEN "k1" ELSE "k2"]

\* Ids and contents are only compared; users, accounts and NoAds are told apart.
Symmetry ==
  UNION {Permutations(Requests), Permutations(Approvals), Permutations(Runs),
         Permutations(Contents \ {NoAds})}
=============================================================================
