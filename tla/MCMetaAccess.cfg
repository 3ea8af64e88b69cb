\* Two requests in progress on one connection; syncing is in SyncCatchesUp.cfg.
\* Bound: audiences are handled one at a time, beside everything else.
SPECIFICATION Spec
CONSTANTS
    Clients = {k1}
    MetaUsers = {m1}
    Connections = {c1}
    Accounts = {a1, a2}
    Audiences = {x1}
    Requests = {r1, r2}
    Workers = {}
    None = None
    MaxCredentials = 2
    Attempts = 1
SYMMETRY Symmetry
INVARIANT ConnectionInvariant
PROPERTIES FlaggedForCause ListedExists
CONSTRAINT OneAudienceHandler
CHECK_DEADLOCK FALSE
