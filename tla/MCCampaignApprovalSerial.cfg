\* One request at a time, every fault: what is left when no two requests race.
SPECIFICATION Spec
CONSTANTS
  None = None
  Requests = {r1}
  Writers = {ann}
  Rosters = {{ann, bob}}
  Approvals = {a1, a2, a3}
  Runs = {m1, m2}
  NoAds = NoAds
  Contents = {NoAds, c1}
  x1 = x1
  x2 = x2
  Accounts = {x1, x2}
  ConnectionOf <- TwoConnections
  Size = 2
  Faults = {"call_fails", "answer_lost", "log_fails", "crash", "no_credential"}
SYMMETRY Symmetry
CHECK_DEADLOCK FALSE
INVARIANTS
  AtMostOnePending
  StatusIsEarned
PROPERTY
  ImplementsSingleUseGate
