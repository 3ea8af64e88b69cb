------------------------- MODULE InsightsInvariants -------------------------
(***************************************************************************)
(* What is true of Insights between any two steps, and why: the inductive  *)
(* invariants behind the theorems of InsightsProofs, as state predicates   *)
(* that TLC can check. First the numbers the algorithms are given.         *)
(***************************************************************************)
EXTENDS Insights

Figure == [level : {"CAMPAIGN", "AD_SET", "AD"}, spend : Nat, impressions : Nat, reach : Nat,
           clicks : Nat, leads : Nat, conversions : Nat, days : Nat]
AccountFacts == [pixel : BOOLEAN, creatives : Nat, styles : Nat,
                 remarketing : BOOLEAN, lookalike : BOOLEAN]
Scores == [hygiene : 0..100, sufficiency : 0..100, structure : 0..100]
Variant == [id : Nat, trials : Nat, successes : Nat]

-----------------------------------------------------------------------------
(* Where figures are filed                                                 *)

Answers == SUBSET [tree : Trees, day : 1..day, result : Results]

Typed ==
    /\ TypeOK
    /\ job \in [Workers -> [pc : {"idle", "asked"}, answer : Answers, fresh : BOOLEAN]]

\* A campaign points at a tree that it built itself, and whatever Meta has figures of,
\* somebody built.
Owned ==
    /\ \A c \in Campaigns : campaign[c].tree # None => owner[campaign[c].tree] = c
    /\ \A t \in Trees, p \in Days : reported[t][p] # None => owner[t] # None
    /\ \A w \in Workers : \A f \in job[w].answer : owner[f.tree] # None

\* Where the row of an entity comes from: a campaign's from a tree it built, a tree's
\* from the tree itself when its campaign no longer pointed at it. built and points are
\* the owners of the trees and the campaigns.
Filed(x, row, built, points) ==
    /\ x \in Campaigns => built[row.tree] = x
    /\ x \in Trees => /\ x = row.tree /\ built[x] # None
                      /\ built[x] \in Campaigns => points[built[x]].tree # x

SyncInvariant ==
    /\ Typed /\ Owned
    /\ \A x \in Entities, p \in Days : rows[x][p] # None => Filed(x, rows[x][p], owner, campaign)

-----------------------------------------------------------------------------
(* What the overview adds up                                               *)

\* A figure is filed under a tree and a day only where Meta reports one.
Grounded ==
    /\ \A w \in Workers : \A f \in job[w].answer : reported[f.tree][f.day] # None
    /\ \A x \in Entities, p \in Days : rows[x][p] # None => reported[rows[x][p].tree][p] # None

OnOnePage == Cardinality(MetaFigures) <= PageSize
NoneAbandoned == \A t \in Trees : ~Abandoned(t)

\* A fresh answer is what Meta says today and, if it fits on a page, all of it.
FreshIsAll ==
    \A w \in Workers : job[w].pc = "asked" /\ job[w].fresh =>
      /\ \A f \in job[w].answer : f.result = reported[f.tree][f.day]
      /\ OnOnePage => \A e \in MetaFigures : \E f \in job[w].answer : f.tree = e[1] /\ f.day = e[2]

\* So is what was filed from it.
FiledIsAll ==
    upToDate /\ OnOnePage /\ NoneAbandoned =>
      \A e \in MetaFigures :
        rows[EntityOf(e[1])][e[2]] = [tree |-> e[1], result |-> reported[e[1]][e[2]]]

OverviewInvariant == SyncInvariant /\ Grounded /\ FreshIsAll /\ FiledIsAll
=============================================================================
