\* Two requests at a time, of any kinds; a connection may lose its credential.
\* (Failing and unanswered calls are in the serial and the settling run.)
SPECIFICATION Spec
CONSTANTS
  None = None
  Requests = {r1, r2}
  Writers = {ann}
  Rosters = {{ann}, {ann, bob}}
  Approvals = {a1, a2}
  Runs = {m1, m2}
  NoAds = NoAds
  Contents = {NoAds, c1, c2}
  x1 = x1
  x2 = x2
  Accounts = {x1}
  ConnectionOf <- OneConnection
  Size = 2
  Faults = {"no_credential"}
SYMMETRY Symmetry
INVARIANTS
  ApprovedPlanOnly
  BuiltBeforeActive
  MakerChecker
PROPERTY
  ImplementsGate
CHECK_DEADLOCK FALSE
