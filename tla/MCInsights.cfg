\* One campaign, two trees of its own or from outside, four days, syncs that break.
SPECIFICATION Spec
CONSTANTS
    Campaigns = {c1}
    c1 = c1
    Trees = {t1, t2}
    Workers = {w1}
    None = None
    Outside = Outside
    Results <- MCResults
    Corrections <- MCCorrections
    AdSets <- MCAdSets
    Facts <- MCFacts
    Vertical = "other"
    SyncWindow = 4
    RuleWindow = 5
    PageSize = 3
    MaxDay = 4
    MaxVolume = 5
SYMMETRY Symmetry
INVARIANTS TypeOK CountedOnce OverviewAgrees AuditIsMonotone WinnerIsReal
CHECK_DEADLOCK FALSE
