--------------------------- MODULE BudgetInvariants ---------------------------
(***************************************************************************)
(* Why BudgetChange keeps what it promises: what a slot may rely on at     *)
(* each program counter, and what approval rows and changes say of each    *)
(* other.  BudgetInvariant is inductive for any interleaving,              *)
(* SerialInvariant when requests are served one after the other.           *)
(***************************************************************************)
EXTENDS BudgetChange

Applying == {"preview", "open"}
Checked == {"drift", "call", "commit"}
Deciding == {"count", "reject"} \cup Checked
Sending == {"call", "commit"}

WellFormed(s) ==
  /\ s.pc \in Applying => s.user \in Writers /\ s.rec \in Recs
  /\ s.pc = "mark" => s.rec \in Recs /\ s.decision \in Decisions
  /\ s.pc \in Deciding => s.user \in Approvers /\ s.approval \in Approvals
  /\ s.pc \in Sending => s.tree \in Trees

GoodSlots == {s \in Slots : WellFormed(s)}

Typed == TypeOK /\ req \in [Requests -> GoodSlots]

WasSent(a, changes) == \E e \in changes : e.approval = a

\* What a handler knows of the rows and the changes while it decides.
SlotMatches(s, rows, changes) ==
  /\ s.pc \in Deciding => rows[s.approval].status # "ABSENT"
  /\ s.pc \in Checked /\ rows[s.approval].requester = s.user => Approvers = {s.user}
  /\ s.pc = "commit" => WasSent(s.approval, changes)

\* An approval shows one step on the budget it shows.
RowSound(row) == row.new = Scaled(row.current)

\* A change is that of an approval, made by somebody who may make it.
ChangeSound(e, rows) ==
  /\ rows[e.approval].status # "ABSENT"
  /\ e.amount = rows[e.approval].new
  /\ rows[e.approval].requester = e.by => Approvers = {e.by}

BudgetInvariant ==
  /\ Typed
  /\ \A r \in Requests : SlotMatches(req[r], approvals, ledger)
  /\ \A a \in Approvals : RowSound(approvals[a])
  /\ \A e \in ledger : ChangeSound(e, approvals)
  /\ ConsumedWasSent

-----------------------------------------------------------------------------
(* One request at a time.                                                  *)

OneRequest == \A r, q \in Requests : r = q

\* What a handler read is still so when it acts on it.
SlotHolds(s, row, rs, as, atMeta) ==
  /\ s.pc \in Applying => rs[s.rec].status = "NEW"
  /\ s.pc \in Deciding => as[s.approval].status = "PENDING"
  /\ s.pc \in Sending => s.tree = row.tree
  /\ s.pc = "commit" => atMeta[s.tree] = as[s.approval].new

\* A recommendation that has an approval is not open any more.
Handled == \A a \in Approvals : approvals[a].rec # None => recs[approvals[a].rec].status \in Decisions

SerialInvariant ==
  /\ BudgetInvariant
  /\ \A r \in Requests : SlotHolds(req[r], campaign, recs, approvals, live)
  /\ Handled
  /\ DriftHasEvidence
  /\ OneApprovalPerRecommendation
=============================================================================
