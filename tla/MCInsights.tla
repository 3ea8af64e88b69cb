----------------------------- MODULE MCInsights -----------------------------
(* Insights for TLC: what a tree achieves in a day, and what an account has. *)
EXTENDS Insights, TLC

CONSTANTS c1

Cells(n, a, b) == <<[trials |-> n, successes |-> a], [trials |-> n, successes |-> b]>>

\* A day of clicks that bring nothing, and a day of dear purchases.
Nothing == [spend |-> 100, impressions |-> 4500, reach |-> 1200, clicks |-> 120,
            leads |-> 0, purchases |-> 0, cells |-> Cells(60, 0, 0)]
Dear    == [spend |-> 150, impressions |-> 3000, reach |-> 2000, clicks |-> 120,
            leads |-> 3, purchases |-> 1, cells |-> Cells(60, 12, 2)]
MCResults == {Nothing, Dear}
MCCorrections == {<<Nothing, Dear>>}

MCAdSets == [c \in Campaigns |-> 5]

Bare == [pixel |-> FALSE, creatives |-> 4, styles |-> 1, remarketing |-> FALSE, lookalike |-> FALSE]
MCFacts == {Bare, [Bare EXCEPT !.creatives = 12, !.styles = 6],
            [Bare EXCEPT !.pixel = TRUE, !.remarketing = TRUE, !.lookalike = TRUE]}

Symmetry == Permutations(Trees)

\* A client with one kind of signal at the sizes around the gates of both audiences.
OneSignal == {[NoStats EXCEPT ![signal] = n] : signal \in Sources \cup Seeds, n \in {0, 1, 99, 100}}

ASSUME TiersChecked ==
    \A stats \in OneSignal, budget \in {0, 99, 100, 500, 501} :
       LET tier == RecommendBudgetTier(budget, stats)
       IN  /\ ShareSpent(tier) = IF tier.tier = "C" /\ ~CanRemarket(stats) THEN 80 ELSE 100
           /\ ~(CanRemarket(stats) /\ CanLookalike(stats))
           /\ ~CanRemarket(stats) => "remarketing" \notin DOMAIN tier.layers
=============================================================================
