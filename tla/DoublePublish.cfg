\* Two requests race, no fault: is an approval single-use?
SPECIFICATION Spec
CONSTANTS
  None = None
  Requests = {r1, r2}
  Writers = {ann}
  Rosters = {{ann, bob}}
  Approvals = {a1, a2}
  Runs = {m1, m2}
  NoAds = NoAds
  Contents = {NoAds, c1, c2}
  x1 = x1
  x2 = x2
  Accounts = {x1}
  ConnectionOf <- OneConnection
  Size = 2
  Faults = {}
SYMMETRY Symmetry
CHECK_DEADLOCK FALSE
INVARIANT OnePublishPerApproval
