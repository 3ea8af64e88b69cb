\* One request at a time, every fault.
SPECIFICATION Spec
CONSTANTS
  None = None
  Requests = {r1}
  Writers = {ann}
  Approvers = {ann, bob}
  Recs = {x1, x2}
  Approvals = {a1, a2}
  Trees = {m1, m2}
  Budgets = {10, 15}
  Faults = {"call_fails", "answer_lost", "commit_fails", "crash"}
SYMMETRY Symmetry
CHECK_DEADLOCK FALSE
INVARIANTS
  SentAsShown
  ConsumedWasSent
  DriftHasEvidence
  OneApprovalPerRecommendation
