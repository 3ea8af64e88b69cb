\* One request at a time; every fault.
SPECIFICATION Spec
CONSTANTS
  None = None
  Requests = {r1}
  Writers = {ann}
  Approvers = {ann, bob}
  Tests = {t1, t2}
  Approvals = {a1, a2}
  Studies = {s1, s2}
  Ads = {p, q}
  Versions = 2
  Faults = {"call_fails", "launch_lost", "stop_lost", "commit_fails", "cleanup_fails", "crash"}
SYMMETRY Symmetry
CHECK_DEADLOCK FALSE
INVARIANTS
  LaunchedAsApproved
  LiveStudyTracked
  CancelledIsStopped
  WinnerLeads
  TestsInOrder
