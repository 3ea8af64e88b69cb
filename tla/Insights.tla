------------------------------ MODULE Insights ------------------------------
(***************************************************************************)
(* From what Meta reports of a client's campaigns to what the tool says of *)
(* them: SyncService.runSync files the figures as performance snapshots,   *)
(* AnalyticsService and RecommendationsService aggregate those and apply   *)
(* the algorithms of MarketingRules.                                       *)
(*                                                                         *)
(* Time passes in days, which begin at midnight UTC for Meta too. A tree   *)
(* is a campaign at Meta; one that the tool did not build is Outside. How  *)
(* campaigns come to be published is in CampaignApproval; here it matters  *)
(* which tree a campaign points at, and which trees still serve.           *)
(***************************************************************************)
EXTENDS MarketingRules, Functions

CONSTANTS Campaigns, Trees, Workers, None, Outside,
          Results,      \* what Meta can report of a tree in a day
          Corrections,  \* which result Meta may correct to which
          AdSets,       \* the number of ad sets of a campaign
          Facts,        \* what the audit reads besides campaigns and figures
          Vertical,     \* the client's vertical (normalizeVertical)
          SyncWindow,   \* the days a sync asks for
          RuleWindow,   \* the days the rules and the audit look back
          PageSize,     \* the figures Meta puts on one page
          MaxDay,       \* bound: days modelled
          MaxVolume     \* bound: trees built, and figures Meta has of them

ASSUME InsightsAssumption ==
    /\ Campaigns \cap Trees = {} /\ None # Outside /\ Outside \notin Campaigns
    /\ None \notin Campaigns \cup Trees \cup Results \cup [tree : Trees, result : Results]
    /\ IsFiniteSet(Campaigns) /\ IsFiniteSet(Trees)
    /\ Corrections \subseteq Results \X Results /\ AdSets \in [Campaigns -> Nat]
    /\ SyncWindow \in Nat \ {0} /\ RuleWindow \in Nat \ {0}
    /\ PageSize \in Nat /\ MaxDay \in Nat /\ MaxVolume \in Nat

\* Meta reports counts and whole shekels, and of a split test two variants.
ASSUME ResultsAssumption ==
    Results \subseteq [spend : Nat, impressions : Nat, reach : Nat, clicks : Nat, leads : Nat,
                      purchases : Nat,
                      cells : [1..2 -> [trials : Nat, successes : Nat]]]

ASSUME FactsAssumption ==
    Facts \subseteq [pixel : BOOLEAN, creatives : Nat, styles : Nat,
                    remarketing : BOOLEAN, lookalike : BOOLEAN]

VARIABLES day,       \* the number of days that are over
          owner,     \* who built a tree: a campaign, Outside, or nobody yet
          serving,   \* the trees that deliver
          campaign,  \* the status of a campaign and the tree it points at
          reported,  \* what Meta says today of a tree in a day
          rows,      \* the snapshots: entity and day to figures and their tree
          job,       \* a sync in progress
          upToDate   \* nothing at Meta changed since the answer that was filed last

vars == <<day, owner, serving, campaign, reported, rows, job, upToDate>>

Days == 1..MaxDay
Entities == Campaigns \cup Trees
Statuses == {"DRAFT", "PUBLISHED", "PAUSED", "ERROR", "REMOVED"}
Idle == [pc |-> "idle", answer |-> {}, fresh |-> FALSE]

Init ==
    /\ day = 0
    /\ owner = [t \in Trees |-> None]
    /\ serving = {}
    /\ campaign = [c \in Campaigns |-> [status |-> "DRAFT", tree |-> None]]
    /\ reported = [t \in Trees |-> [p \in Days |-> None]]
    /\ rows = [x \in Entities |-> [p \in Days |-> None]]
    /\ job = [w \in Workers |-> Idle]
    /\ upToDate = FALSE

-----------------------------------------------------------------------------
(* Campaigns and what Meta delivers *)

Volume == Cardinality({t \in Trees : owner[t] # None})
          + Cardinality({f \in Trees \X Days : reported[f[1]][f[2]] # None})

\* Mutant: the tree is activated without being recorded.
PublishUnrecorded(c, t) ==
    /\ campaign[c].status # "REMOVED" /\ owner[t] = None /\ Volume < MaxVolume
    /\ campaign' = [campaign EXCEPT ![c] = [status |-> "PUBLISHED", tree |-> t]]
    /\ serving' = serving \cup {t}
    /\ UNCHANGED <<day, owner, reported, rows, job, upToDate>>

\* A publish builds a tree and points the campaign at it first. It may fail before
\* or after the tree was activated. A second decision makes even a published campaign
\* APPROVED again, which can then be published once more.
Publish(c, t) ==
    /\ campaign[c].status # "REMOVED" /\ owner[t] = None /\ Volume < MaxVolume
    /\ owner' = [owner EXCEPT ![t] = c]
    /\ \/ /\ campaign' = [campaign EXCEPT ![c] = [status |-> "PUBLISHED", tree |-> t]]
          /\ serving' = serving \cup {t}
       \/ /\ campaign' = [campaign EXCEPT ![c] = [status |-> "ERROR", tree |-> t]]
          /\ serving' \in {serving, serving \cup {t}}
    /\ UNCHANGED <<day, reported, rows, job, upToDate>>

Pause(c) ==
    /\ campaign[c].tree # None
    /\ serving' = serving \ {campaign[c].tree}
    /\ campaign' = [campaign EXCEPT ![c].status = "PAUSED"]
    /\ UNCHANGED <<day, owner, reported, rows, job, upToDate>>

\* Only drafts are removed; a request that is rejected makes any campaign that is
\* not published a draft again. Snapshots name it without a foreign key: they stay.
Remove(c) ==
    /\ campaign[c].status \in {"DRAFT", "PAUSED", "ERROR"}
    /\ campaign' = [campaign EXCEPT ![c] = [status |-> "REMOVED", tree |-> None]]
    /\ UNCHANGED <<day, owner, serving, reported, rows, job, upToDate>>

\* Somebody works in Meta's own Ads Manager.
StartOutside(t) ==
    /\ owner[t] = None /\ Volume < MaxVolume
    /\ owner' = [owner EXCEPT ![t] = Outside]
    /\ serving' = serving \cup {t}
    /\ UNCHANGED <<day, campaign, reported, rows, job, upToDate>>

\* Answers that are not filed yet, and the snapshots, are no longer what Meta says.
MetaChanged ==
    /\ upToDate' = FALSE
    /\ job' = [w \in Workers |-> [job[w] EXCEPT !.fresh = FALSE]]

\* A day ends: every serving tree has its figures.
Deliver ==
    /\ day < MaxDay /\ Volume + Cardinality(serving) <= MaxVolume
    /\ day' = day + 1
    /\ \E achieved \in [serving -> Results] :
         reported' = [t \in Trees |-> IF t \in serving
                                      THEN [reported[t] EXCEPT ![day + 1] = achieved[t]]
                                      ELSE reported[t]]
    /\ MetaChanged
    /\ UNCHANGED <<owner, serving, campaign, rows>>

\* Results are attributed late: Meta corrects the last day.
Restate(t) ==
    /\ day > 0
    /\ \E r \in Results :
         /\ <<reported[t][day], r>> \in Corrections
         /\ reported' = [reported EXCEPT ![t][day] = r]
    /\ MetaChanged
    /\ UNCHANGED <<day, owner, serving, campaign, rows>>

-----------------------------------------------------------------------------
(* SyncService.runSync; which connection it uses is in MetaAccess *)

Recent(window) == {p \in Days : p <= day /\ p > day - window}

\* last_30d: the days up to yesterday.
MetaFigures == {f \in Trees \X Recent(SyncWindow) : reported[f[1]][f[2]] # None}

\* getInsights: one page of them, in Meta's order, and no second one.
Ask(w) ==
    /\ job[w].pc = "idle"
    /\ LET full == Min({PageSize, Cardinality(MetaFigures)})
       IN  \E page \in {s \in SUBSET MetaFigures : Cardinality(s) = full} :
             job' = [job EXCEPT ![w] = [pc |-> "asked", fresh |-> TRUE,
                        answer |-> {[tree |-> f[1], day |-> f[2],
                                     result |-> reported[f[1]][f[2]]] : f \in page}]]
    /\ UNCHANGED <<day, owner, serving, campaign, reported, rows, upToDate>>

\* Mutant: only running campaigns are looked up.
EntityOfRunning(t) ==
    IF \E c \in Campaigns : campaign[c].tree = t /\ campaign[c].status = "PUBLISHED"
    THEN CHOOSE c \in Campaigns : campaign[c].tree = t
    ELSE t

\* The campaign that points at the tree; without one, the tree stands for itself.
EntityOf(t) ==
    IF \E c \in Campaigns : campaign[c].tree = t
    THEN CHOOSE c \in Campaigns : campaign[c].tree = t
    ELSE t

\* Mutant: a snapshot that exists is not updated.
InsertOnly(figures) ==
    [x \in Entities |-> [p \in Days |->
        IF rows[x][p] = None /\ \E f \in figures : EntityOf(f.tree) = x /\ f.day = p
        THEN LET f == CHOOSE f \in figures : EntityOf(f.tree) = x /\ f.day = p
             IN  [tree |-> f.tree, result |-> f.result]
        ELSE rows[x][p]]]

\* One upsert for each figure: the key is the entity and the day.
Upsert(figures) ==
    [x \in Entities |-> [p \in Days |->
        IF \E f \in figures : EntityOf(f.tree) = x /\ f.day = p
        THEN LET f == CHOOSE f \in figures : EntityOf(f.tree) = x /\ f.day = p
             IN  [tree |-> f.tree, result |-> f.result]
        ELSE rows[x][p]]]

Store(w) ==
    /\ job[w].pc = "asked"
    /\ rows' = Upsert(job[w].answer)
    /\ job' = [job EXCEPT ![w] = Idle]
    /\ upToDate' = job[w].fresh
    /\ UNCHANGED <<day, owner, serving, campaign, reported>>

\* The process dies, or an upsert fails: the figures written so far stay.
StoreBreaks(w) ==
    /\ job[w].pc = "asked"
    /\ \E written \in SUBSET job[w].answer :
         written # job[w].answer /\ rows' = Upsert(written)
    /\ job' = [job EXCEPT ![w] = Idle]
    /\ upToDate' = FALSE
    /\ UNCHANGED <<day, owner, serving, campaign, reported>>

Next ==
    \/ Deliver
    \/ \E c \in Campaigns : Pause(c) \/ Remove(c)
    \/ \E c \in Campaigns, t \in Trees : Publish(c, t)
    \/ \E t \in Trees : StartOutside(t) \/ Restate(t)
    \/ \E w \in Workers : Ask(w) \/ Store(w) \/ StoreBreaks(w)

Spec == Init /\ [][Next]_vars

-----------------------------------------------------------------------------
(* What the tool says: clientOverview, accountAudit, generate, refreshResults *)

\* A snapshot is dated at the midnight its day begins with. since keeps the time of
\* day, so the first day of the window is before it (except at midnight sharp).
Seen(window) == Recent(window - 1)

Figures(x, window) == {p \in Seen(window) : rows[x][p] # None}
Total(x, window, field) ==
    SumFunction([p \in Figures(x, window) |-> rows[x][p].result[field]])

\* The connector counts purchases, or leads where Meta names no purchase.
Conversions(result) == IF result.purchases > 0 THEN result.purchases ELSE result.leads

\* A total of the overview over the last days, of all entities of the client.
Overview(window, field) == SumFunction([x \in Entities |-> Total(x, window, field)])

\* What the rules and the audit are given: all entities with a snapshot in the window.
MetricsOf(x) ==
    LET seen == Figures(x, RuleWindow)
        Sum(field) == SumFunction([p \in seen |-> rows[x][p].result[field]])
    IN  [level |-> "CAMPAIGN", spend |-> Sum("spend"), impressions |-> Sum("impressions"),
         reach |-> Sum("reach"), clicks |-> Sum("clicks"), leads |-> Sum("leads"),
         conversions |-> SumFunction([p \in seen |-> Conversions(rows[x][p].result)]),
         days |-> Cardinality(seen)]
Metrics == [x \in {x \in Entities : Figures(x, RuleWindow) # {}} |-> MetricsOf(x)]

Live == [c \in {c \in Campaigns : campaign[c].status = "PUBLISHED"} |-> AdSets[c]]

Delivered(metrics) == Delivery(Live, metrics, TargetCpa(Vertical))

\* What Meta has so far on a variant of a split test inside a tree.
Cell(t, i) ==
    LET past == {p \in Days : reported[t][p] # None}
        Sum(count) == SumFunction([p \in past |-> reported[t][p].cells[i][count]])
    IN  [id |-> i, trials |-> Sum("trials"), successes |-> Sum("successes")]

-----------------------------------------------------------------------------
(* Properties *)

\* The type invariant; the answer of a sync names past days only (SyncService.runSync).
TypeOK ==
    /\ day \in 0..MaxDay
    /\ owner \in [Trees -> Campaigns \cup {Outside, None}]
    /\ serving \subseteq {t \in Trees : owner[t] # None}
    /\ campaign \in [Campaigns -> [status : Statuses, tree : Trees \cup {None}]]
    /\ reported \in [Trees -> [Days -> Results \cup {None}]]
    /\ rows \in [Entities -> [Days -> [tree : Trees, result : Results] \cup {None}]]
    /\ \A w \in Workers :
         /\ job[w].pc \in {"idle", "asked"} /\ job[w].fresh \in BOOLEAN
         /\ job[w].answer \subseteq [tree : Trees, day : 1..day, result : Results]
    /\ upToDate \in BOOLEAN

\* A tree whose campaign was published again or removed: nothing points at it.
Abandoned(t) == owner[t] \in Campaigns /\ campaign[owner[t]].tree # t

\* The same figures are filed under two entities only when the campaign that built
\* the tree was published again or removed in between (runSync maps by metaCampaignId).
CountedOnce ==
    \A x, y \in Entities : \A p \in Days :
      rows[x][p] # None /\ rows[y][p] # None /\ x # y /\ rows[x][p].tree = rows[y][p].tree
        => Abandoned(rows[x][p].tree)

\* What Meta reports of a window without the first of its days.
SeenFigures == {f \in MetaFigures : f[2] # day - SyncWindow + 1}
MetaTotal(field) == SumFunction([f \in SeenFigures |-> reported[f[1]][f[2]][field]])

\* After a sync that fits on a page, and as long as nothing changes at Meta, the
\* overview over the days a sync asks for shows what Meta reports, restatements
\* included, of all these days but the first, which it never shows (clientOverview).
OverviewAgrees ==
    /\ upToDate /\ Cardinality(MetaFigures) <= PageSize
    /\ \A t \in Trees : ~Abandoned(t)
    => \A field \in {"spend", "leads"} : Overview(SyncWindow, field) = MetaTotal(field)

\* Fewer results at the same cost. When conversions fall to zero the leads stand in
\* for them, so there only falls count that leave no more leads than conversions.
Worse(m) ==
    {[m EXCEPT !.leads = v[1], !.conversions = v[2]] :
       v \in {v \in {0, m.leads} \X {0, m.conversions \div 2, m.conversions} :
               (v[2] = 0 /\ m.conversions > 0) => v[1] <= m.conversions}} \ {m}

\* f has everything g has.
AtLeastAsGood(f, g) ==
    /\ \A asset \in {"pixel", "remarketing", "lookalike"} : g[asset] => f[asset]
    /\ f.creatives >= g.creatives /\ f.styles >= g.styles

\* The audit never pays for a missing asset, nor for worse results, where a fall of
\* the conversions to zero that leaves more leads than that is not one (auditAccount).
AuditIsMonotone ==
    LET metrics == Metrics
        delivered == Delivered(metrics)
    IN  /\ \A f, g \in Facts : AtLeastAsGood(g, f) =>
             AuditScore(g, delivered) >= AuditScore(f, delivered)
        /\ \A x \in DOMAIN metrics : \A m \in Worse(metrics[x]) :
             LET worse == Delivered([metrics EXCEPT ![x] = m])
             IN  \A f \in Facts : AuditScore(f, worse) <= AuditScore(f, delivered)

\* A split test is decided for the variant with the higher rate, on enough data,
\* and the same whichever variant comes first (evaluateAbTest).
WinnerIsReal ==
    \A t \in Trees :
      LET a == Cell(t, 1)
          b == Cell(t, 2)
          verdict == EvaluateAbTest(a, b)
          back == EvaluateAbTest(b, a)
      IN  /\ verdict.decided = back.decided
          /\ verdict.decided =>
               /\ verdict.variant = back.variant
               /\ IF verdict.variant = 1 THEN RateBelow(b, a) ELSE RateBelow(a, b)
=============================================================================
