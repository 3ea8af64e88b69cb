\* Every request is served to its end; calls fail and answers get lost.
SPECIFICATION FairSpec
CONSTANTS
  None = None
  Requests = {r1, r2}
  Writers = {ann}
  Rosters = {{ann, bob}}
  Approvals = {a1}
  Runs = {m1, m2}
  NoAds = NoAds
  Contents = {NoAds, c1}
  x1 = x1
  x2 = x2
  Accounts = {x1}
  ConnectionOf <- OneConnection
  Size = 2
  Faults = {"call_fails", "answer_lost"}
CHECK_DEADLOCK FALSE
PROPERTY PublishingSettles
