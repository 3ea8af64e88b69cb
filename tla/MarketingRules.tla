--------------------------- MODULE MarketingRules ---------------------------
(***************************************************************************)
(* The deterministic algorithms of marketing-core: benchmark targets, the  *)
(* kill, refresh and scale rules, the account audit, the decision of an    *)
(* A/B test and the structure a daily budget pays for.                     *)
(*                                                                         *)
(* Money is whole shekels; quotients are compared by multiplying out, so a *)
(* comparison is exact where the code's floating point is. The texts of    *)
(* findings are left out; a finding is its rule, type, severity, entity.   *)
(***************************************************************************)
EXTENDS Integers, FiniteSets, FiniteSetsExt

-----------------------------------------------------------------------------
(* Benchmarks *)

\* The typical cost of a lead in each vertical; whatever is not in the table is 60.
TypicalCpl ==
    [home_services |-> 45, fitness |-> 30, beauty |-> 28, medical_aesthetics |-> 80,
     dental |-> 80, real_estate |-> 120, law |-> 100, finance_insurance |-> 110,
     education_courses |-> 50, coaching |-> 55, b2b_services |-> 160, events_tourism |-> 40]

TargetCpa(vertical) == IF vertical \in DOMAIN TypicalCpl THEN TypicalCpl[vertical] ELSE 60

-----------------------------------------------------------------------------
(* Kill, refresh and scale rules over the metrics m of one entity          *)

ResultsOf(m) == IF m.conversions # 0 THEN m.conversions ELSE m.leads

EnoughDelivery(m) == m.impressions >= 8000 \/ m.days >= 4
EnoughSpend(m, target) == m.spend >= 3 * target /\ m.days >= 4

ZeroConverter(m, target) == m.spend >= 3 * target /\ ResultsOf(m) = 0
ExpensiveConverter(m, target) ==
    /\ ResultsOf(m) > 0
    /\ m.spend >= 5 * target
    /\ m.spend > 2 * target * ResultsOf(m)
\* Only for entities of level AD.
DeadCreative(m, p50) ==
    /\ m.level = "AD"
    /\ m.impressions >= 8000
    /\ 200 * m.clicks < m.impressions
    /\ 1000 * m.spend > p50 * m.impressions
Fatigue(m) == m.reach > 0 /\ 2 * m.impressions > 7 * m.reach
SteadyWinner(m, target) ==
    /\ ResultsOf(m) >= 5
    /\ m.days >= 3
    /\ 10 * m.spend <= 8 * target * ResultsOf(m)
StrongWinner(m, target) ==
    /\ ResultsOf(m) >= 10
    /\ 10 * m.spend <= 6 * target * ResultsOf(m)

\* The rules in the order in which they are tried, with the gates in front of them.
RulesOn(m, target, p50) == <<
    [rule |-> "K1", type |-> "KILL_AD", severity |-> "CRITICAL",
     fires |-> EnoughSpend(m, target) /\ ZeroConverter(m, target)],
    [rule |-> "K2", type |-> "KILL_AD", severity |-> "WARNING",
     fires |-> EnoughSpend(m, target) /\ ExpensiveConverter(m, target)],
    [rule |-> "K3", type |-> "REFRESH_CREATIVE", severity |-> "WARNING",
     fires |-> EnoughDelivery(m) /\ DeadCreative(m, p50)],
    [rule |-> "R1", type |-> "REFRESH_CREATIVE", severity |-> "SUGGESTION",
     fires |-> EnoughDelivery(m) /\ Fatigue(m)],
    [rule |-> "S2", type |-> "SCALE_BUDGET", severity |-> "SUGGESTION",
     fires |-> m.days >= 3 /\ StrongWinner(m, target)],
    [rule |-> "S1", type |-> "SCALE_BUDGET", severity |-> "SUGGESTION",
     fires |-> m.days >= 3 /\ SteadyWinner(m, target)]>>

\* Of the rules that fire on an entity, the first of each type is reported.
EvaluateRules(metrics, target, p50) ==
    UNION {LET tried == RulesOn(metrics[x], target, p50)
           IN  {[rule |-> tried[i].rule, type |-> tried[i].type,
                 severity |-> tried[i].severity, entity |-> x] :
                  i \in {i \in DOMAIN tried :
                           /\ tried[i].fires
                           /\ \A j \in 1..(i - 1) : tried[j].fires => tried[j].type # tried[i].type}}
           : x \in DOMAIN metrics}

-----------------------------------------------------------------------------
(* The account audit                                                       *)

\* facts: pixel, creatives, styles, remarketing, lookalike; live: the published
\* campaigns with the number of their ad sets; metrics: by entity.
TrackingScore(facts) == IF facts.pixel THEN 100 ELSE 0
AtMost100(n) == Min({100, n})
AtLeast(low, n) == Max({low, n})
CreativeScore(facts) ==
    (7 * AtMost100(10 * facts.creatives) + 3 * AtMost100(20 * facts.styles)) \div 10
AudienceScore(facts) ==
    40 + (IF facts.remarketing THEN 30 ELSE 0) + (IF facts.lookalike THEN 30 ELSE 0)
StructureScore(live) == AtLeast(0, 100 - 15 * Cardinality({c \in DOMAIN live : live[c] > 4}))
\* Mutant: a campaign without any result is not looked at.
UnderfundedWithResults(live, metrics) ==
    {c \in DOMAIN live \cap DOMAIN metrics :
       /\ metrics[c].days >= 3 /\ ResultsOf(metrics[c]) > 0
       /\ 10 * ResultsOf(metrics[c]) < 3 * metrics[c].days}
Underfunded(live, metrics) ==
    {c \in DOMAIN live \cap DOMAIN metrics :
       metrics[c].days >= 3 /\ 10 * ResultsOf(metrics[c]) < 3 * metrics[c].days}
SufficiencyScore(live, metrics) ==
    LET short == Cardinality(Underfunded(live, metrics))
    IN  IF short = 0 THEN 100 ELSE AtLeast(30, 100 - 25 * short)
HygieneScore(metrics, target) ==
    LET found == EvaluateRules(metrics, target, 35)
        Of(severity) == Cardinality({f \in found : f.severity = severity})
    IN  IF DOMAIN metrics = {} THEN 50
        ELSE AtLeast(0, 100 - 25 * Of("CRITICAL") - 10 * Of("WARNING"))

\* The categories that depend on campaigns and figures, and the weighted score.
Delivery(live, metrics, target) ==
    [hygiene |-> HygieneScore(metrics, target),
     sufficiency |-> SufficiencyScore(live, metrics), structure |-> StructureScore(live)]
AuditScore(facts, delivery) ==
    (20 * TrackingScore(facts) + 20 * CreativeScore(facts) + 20 * delivery.hygiene
       + 15 * AudienceScore(facts) + 15 * delivery.sufficiency + 10 * delivery.structure
       + 50) \div 100

-----------------------------------------------------------------------------
(* The decision of an A/B test over variants with trials and successes     *)

\* The rate of v is below that of w; a variant without trials has rate 0.
RateBelow(v, w) == IF v.trials = 0 THEN w.successes > 0 /\ w.trials > 0
                   ELSE w.trials > 0 /\ v.successes * w.trials < w.successes * v.trials
SameRate(v, w) == ~RateBelow(v, w) /\ ~RateBelow(w, v)

SufficientSample(v, w) ==
    v.trials >= 100 /\ w.trials >= 100 /\ v.successes + w.successes >= 15

\* p < 0.05, that is z^2 > 1.96^2, for the pooled two-proportion test. The square
\* of the difference is kept to a tenth so that the products stay small.
Significant(v, w) ==
    LET n == v.trials + w.trials
        s == v.successes + w.successes
        d == w.successes * v.trials - v.successes * w.trials
    IN  /\ v.trials > 0 /\ w.trials > 0
        /\ s > 0 /\ s < n
        /\ 10 * ((10 * d * d) \div (v.trials * w.trials)) * n > 384 * s * (n - s)

\* Mutant: the first variant is the control.
FirstIsControl(a, b) == a
\* The control has the lower rate; a tie goes by id.
Control(a, b) == IF RateBelow(a, b) \/ (SameRate(a, b) /\ a.id <= b.id) THEN a ELSE b
Challenger(a, b) == IF Control(a, b) = a THEN b ELSE a

EvaluateAbTest(a, b) ==
    [control |-> Control(a, b).id, variant |-> Challenger(a, b).id,
     sufficient |-> SufficientSample(a, b),
     decided |-> SufficientSample(a, b) /\ Significant(Control(a, b), Challenger(a, b))]

-----------------------------------------------------------------------------
(* Budget tiers: the layers a daily budget is split over                   *)

Layer(share, stage, adSets, adsPerAdSet) ==
    [share |-> share, stage |-> stage, adSets |-> adSets, adsPerAdSet |-> adsPerAdSet]

\* stats: what the pixel and the pages of a client have gathered.
Sources == {"siteVisitors", "pageEngagers", "igEngagers"}
Seeds == {"customerList", "purchases", "leads"}
NoStats == [signal \in Sources \cup Seeds |-> 0]
CanRemarket(stats) == \E source \in Sources : stats[source] > 0
CanLookalike(stats) == \E seed \in Seeds : stats[seed] >= 100

RecommendBudgetTier(budget, stats) ==
    LET warm == CanRemarket(stats)
        B == [prospecting |-> Layer(IF warm THEN 70 ELSE 85, "TOF", 2, 3),
              remarketing |-> Layer(20, "MOF", 1, 3),
              testing     |-> Layer(IF warm THEN 10 ELSE 15, "TOF", 1, 2)]
        C == [prospecting |-> Layer(55, "TOF", 3, 3),
              remarketing |-> Layer(20, "MOF", 2, 3),
              closing     |-> Layer(15, "BOF", 1, 2),
              testing     |-> Layer(IF warm THEN 10 ELSE 25, "TOF", 2, 2)]
        Reachable(layers) ==
          [name \in {name \in DOMAIN layers : warm \/ layers[name].stage = "TOF"} |-> layers[name]]
    IN  IF budget < 100 THEN [tier |-> "A", layers |-> [prospecting |-> Layer(100, "TOF", 1, 3)]]
        ELSE IF budget <= 500 THEN [tier |-> "B", layers |-> Reachable(B)]
        ELSE [tier |-> "C", layers |-> Reachable(C)]

Share(tier, name) == IF name \in DOMAIN tier.layers THEN tier.layers[name].share ELSE 0
ShareSpent(tier) ==
    Share(tier, "prospecting") + Share(tier, "remarketing") + Share(tier, "closing")
      + Share(tier, "testing")
=============================================================================
