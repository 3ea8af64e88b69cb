\* Two requests of any kind about one client and its campaign.
SPECIFICATION Spec
CONSTANTS
    Clients = {k1}
    k1 = k1
    Campaigns = {g1}
    ClientOf <- MCClientOf
    Requests = {r1, r2}
    Runs = {m1, m2}
    Files = {f1}
    None = None
    Provider = "anthropic"
    Outputs <- MCOutputs
    VariantCount = 3
    Industries = {"dental clinic", "weight loss"}
    VerticalOf <- MCVerticals
    Restrictions <- MCRestrictions
    Urls <- MCUrls
    Sites <- MCSites
CONSTRAINT OneGeneration
SYMMETRY Symmetry
INVARIANTS TypeOK FromSuccessfulRuns ForbiddenIsMarked CompleteWhenReported
PROPERTY ArchivedStays
CHECK_DEADLOCK FALSE
