----------------------------- MODULE BudgetProofs -----------------------------
(***************************************************************************)
(* Theorems about BudgetChange, for any number of requests, approvals,     *)
(* recommendations and users and any budgets, however requests interleave  *)
(* and whatever fails; at the end, when requests are served one by one.    *)
(***************************************************************************)
EXTENDS BudgetInvariants, TLAPS

-----------------------------------------------------------------------------
(* Values.                                                                 *)

\* Rounding moves a step by at most half a unit.
LEMMA ScaledBounds ==
  ASSUME NEW b \in Nat
  PROVE  Scaled(b) \in Nat /\ 10 * Scaled(b) - 12 * b \in -4 .. 5
BY DEF Scaled

LEMMA Values ==
  /\ Idle \in GoodSlots
  /\ NoApproval \in ApprovalRows /\ RowSound(NoApproval)
  /\ NoRec \in RecRows
<1>1. Idle \in Slots
  BY DEF Idle, Slots, PC
<1>2. Scaled(0) = 0
  BY DEF Scaled
<1> QED BY <1>1, <1>2 DEF GoodSlots, WellFormed, Idle, Applying, Deciding, Checked, Sending,
       NoApproval, ApprovalRows, RowSound, NoRec, RecRows

LEMMA StatusOfApproval ==
  ASSUME NEW row \in ApprovalRows, NEW v \in ApprovalStatus
  PROVE  /\ [row EXCEPT !.status = v] \in ApprovalRows
         /\ v # "ABSENT"
BY DEF ApprovalRows, ApprovalStatus

LEMMA StatusOfRec ==
  ASSUME NEW row \in RecRows, NEW v \in RecommendationStatus
  PROVE  [row EXCEPT !.status = v] \in RecRows
BY DEF RecRows

-----------------------------------------------------------------------------
(* Type correctness.                                                       *)

\* The slot a handler moves to is well formed, whatever it held before.
LEMMA Moves ==
  ASSUME req \in [Requests -> GoodSlots], NEW r \in Requests
  PROVE  /\ \A s \in GoodSlots : Become(r, s) => req' \in [Requests -> GoodSlots]
         /\ Return(r) => req' \in [Requests -> GoodSlots]
BY Values DEF Become, Return

LEMMA TypedUserRequest ==
  ASSUME Typed, NEW r \in Requests, UserRequest(r)
  PROVE  Typed'
<1> USE Values, Moves DEF Typed, TypeOK, Start
<1>0. req' \in [Requests -> GoodSlots] => req' \in [Requests -> Slots]
  BY DEF GoodSlots
<1>1. CASE Generate(r)
  <2>1. [Idle EXCEPT !.pc = "analyse"] \in GoodSlots
    BY DEF Idle, GoodSlots, Slots, PC, WellFormed, Applying, Deciding, Checked, Sending
  <2> QED BY <1>0, <1>1, <2>1 DEF Generate
<1>2. ASSUME NEW u \in Writers, NEW x \in Recs, Apply(r, u, x) PROVE Typed'
  <2>1. [Idle EXCEPT !.pc = "preview", !.user = u, !.rec = x] \in GoodSlots
    BY DEF Idle, GoodSlots, Slots, PC, WellFormed, Applying, Deciding, Checked, Sending
  <2> QED BY <1>0, <1>2, <2>1 DEF Apply
<1>3. ASSUME NEW x \in Recs, NEW d \in Decisions, RecDecide(r, x, d) PROVE Typed'
  <2>1. [Idle EXCEPT !.pc = "mark", !.rec = x, !.decision = d] \in GoodSlots
    BY DEF Idle, GoodSlots, Slots, PC, WellFormed, Applying, Deciding, Checked, Sending
  <2> QED BY <1>0, <1>3, <2>1 DEF RecDecide
<1>4. ASSUME NEW u \in Approvers, NEW a \in Approvals, NEW approve \in BOOLEAN,
             Decide(r, u, a, approve)
      PROVE  Typed'
  <2>1. ASSUME NEW next \in {"reject", "count", "drift"}
        PROVE  [Idle EXCEPT !.pc = next, !.user = u, !.approval = a] \in GoodSlots
    BY DEF Idle, GoodSlots, Slots, PC, WellFormed, Applying, Deciding, Checked, Sending
  <2> QED BY <1>0, <1>4, <2>1 DEF Decide
<1>5. ASSUME NEW b \in Budgets, EditBudget(r, b) PROVE Typed'
  <2>1. campaign' \in CampaignRows
    BY <1>5, BudgetAssumption DEF EditBudget, CampaignRows
  <2> QED BY <1>5, <2>1 DEF EditBudget
<1>6. ASSUME NEW m \in Trees, Publish(r, m) PROVE Typed'
  <2>1. campaign' \in CampaignRows /\ campaign.budget \in Nat
    BY <1>6 DEF Publish, CampaignRows
  <2> QED BY <1>6, <2>1 DEF Publish
<1>7. CASE Reopen(r)
  <2>1. campaign' \in CampaignRows
    BY <1>7 DEF Reopen, CampaignRows
  <2> QED BY <1>7, <2>1 DEF Reopen
<1> QED BY <1>1, <1>2, <1>3, <1>4, <1>5, <1>6, <1>7 DEF UserRequest

LEMMA TypedServe ==
  ASSUME Typed, NEW r \in Requests, Serve(r)
  PROVE  Typed'
<1> USE Values, Moves DEF Typed, TypeOK, At
<1>0. /\ req[r] \in GoodSlots /\ req[r] \in Slots /\ WellFormed(req[r])
      /\ req' \in [Requests -> GoodSlots] => req' \in [Requests -> Slots]
  BY DEF GoodSlots
<1>1. CASE GenerateAnalyse(r)
  <2>1. ASSUME NEW found \in SUBSET Kinds
        PROVE  [req[r] EXCEPT !.pc = "supersede", !.found = found] \in GoodSlots
    BY <1>0, <1>1
    DEF GenerateAnalyse, GoodSlots, Slots, PC, WellFormed, Applying, Deciding, Checked, Sending
  <2> QED BY <1>0, <1>1, <2>1 DEF GenerateAnalyse
<1>2. CASE GenerateSupersede(r)
  <2>1. [req[r] EXCEPT !.pc = "insert", !.seen = OpenRecs] \in GoodSlots
    BY <1>0, <1>2
    DEF GenerateSupersede, OpenRecs, GoodSlots, Slots, PC, WellFormed, Applying, Deciding,
        Checked, Sending
  <2> QED BY <1>0, <1>2, <2>1 DEF GenerateSupersede
<1>3. CASE GenerateInsert(r)
  <2>1. ASSUME NEW x \in Recs
        PROVE  [recs[x] EXCEPT !.status = "DISMISSED"] \in RecRows
    BY StatusOfRec DEF RecommendationStatus, Decisions
  <2>2. ASSUME NEW id, NEW x, \E k \in req[r].found : id[k] = x
        PROVE  [status |-> "NEW", kind |-> CHOOSE k \in req[r].found : id[k] = x] \in RecRows
    <3>1. (CHOOSE k \in req[r].found : id[k] = x) \in Kinds
      BY <1>0, <2>2 DEF Slots
    <3> QED BY <3>1 DEF RecRows, RecommendationStatus
  <2>3. ASSUME NEW id,
               recs' = [x \in Recs |->
                 IF \E k \in req[r].found : id[k] = x
                 THEN [status |-> "NEW", kind |-> CHOOSE k \in req[r].found : id[k] = x]
                 ELSE IF x \in req[r].seen /\ recs[x].status = "NEW"
                      THEN [recs[x] EXCEPT !.status = "DISMISSED"]
                      ELSE recs[x]]
        PROVE  recs' \in [Recs -> RecRows]
    <3>1. ASSUME NEW x \in Recs PROVE recs'[x] \in RecRows
      BY <2>1, <2>2, <2>3
    <3> QED BY <2>3, <3>1
  <2>4. recs' \in [Recs -> RecRows]
    BY <1>3, <2>3 DEF GenerateInsert
  <2> QED BY <1>0, <1>3, <2>4 DEF GenerateInsert
<1>4. CASE ApplyPreview(r)
  <2>1. [req[r] EXCEPT !.pc = "open", !.tree = campaign.tree, !.amount = campaign.budget]
          \in GoodSlots
    BY <1>0, <1>4
    DEF ApplyPreview, CampaignRows, GoodSlots, Slots, PC, WellFormed, Applying, Deciding,
        Checked, Sending
  <2> QED BY <1>0, <1>4, <2>1 DEF ApplyPreview
<1>5. CASE ApplyOpen(r)
  <2>1. /\ req[r].user \in Writers /\ req[r].rec \in Recs /\ req[r].amount \in Nat
        /\ req[r].tree \in Trees \cup {None}
    BY <1>0, <1>5 DEF ApplyOpen, WellFormed, Applying, Slots
  <2>2. [status |-> "PENDING", rec |-> req[r].rec, tree |-> req[r].tree,
         current |-> req[r].amount, new |-> Scaled(req[r].amount),
         requester |-> req[r].user] \in ApprovalRows
    BY <2>1, ScaledBounds DEF ApprovalRows, ApprovalStatus
  <2>3. Acknowledged(req[r].rec) \in RecRows
    BY <2>1, StatusOfRec DEF Acknowledged, RecommendationStatus, Decisions
  <2>4. approvals' \in [Approvals -> ApprovalRows] /\ recs' \in [Recs -> RecRows]
    BY <1>5, <2>2, <2>3 DEF ApplyOpen
  <2> QED BY <1>0, <1>5, <2>4 DEF ApplyOpen
<1>6. CASE RecMark(r)
  <2>1. req[r].rec \in Recs /\ req[r].decision \in RecommendationStatus
    BY <1>0, <1>6 DEF RecMark, WellFormed, RecommendationStatus
  <2>2. recs' \in [Recs -> RecRows]
    BY <1>6, <2>1, StatusOfRec DEF RecMark
  <2> QED BY <1>0, <1>6, <2>2 DEF RecMark
<1>7. CASE DecideCount(r)
  <2>1. [req[r] EXCEPT !.pc = "drift"] \in GoodSlots
    BY <1>0, <1>7
    DEF DecideCount, GoodSlots, Slots, PC, WellFormed, Applying, Deciding, Checked, Sending
  <2> QED BY <1>0, <1>7, <2>1 DEF DecideCount, Goto
<1>8. CASE DecideReject(r)
  <2>1. approvals' \in [Approvals -> ApprovalRows]
    BY <1>8, StatusOfApproval DEF DecideReject, ApprovalStatus
  <2> QED BY <1>0, <1>8, <2>1 DEF DecideReject
<1>9. CASE BudgetDrift(r)
  <2>1. ASSUME campaign.tree # None
        PROVE  [req[r] EXCEPT !.pc = "call", !.tree = campaign.tree] \in GoodSlots
    BY <1>0, <1>9, <2>1
    DEF BudgetDrift, CampaignRows, GoodSlots, Slots, PC, WellFormed, Applying, Deciding,
        Checked, Sending
  <2> QED BY <1>0, <1>9, <2>1 DEF BudgetDrift, AtMeta
<1>10. CASE BudgetCall(r)
  <2>1. /\ req[r].approval \in Approvals /\ req[r].tree \in Trees /\ req[r].user \in Approvers
    BY <1>0, <1>10 DEF BudgetCall, Thrown, WellFormed, Deciding, Checked, Sending
  <2>2. approvals[req[r].approval].new \in Nat
    BY <2>1 DEF ApprovalRows
  <2>3. live' \in [Trees -> Nat \cup {None}] /\ ledger' \subseteq Changes
    BY <1>10, <2>1, <2>2 DEF BudgetCall, Thrown, Changes
  <2>4. [req[r] EXCEPT !.pc = "commit"] \in GoodSlots
    BY <1>0, <1>10
    DEF BudgetCall, Thrown, GoodSlots, Slots, PC, WellFormed, Applying, Deciding, Checked, Sending
  <2>5. req' \in [Requests -> GoodSlots]
    BY <1>10, <2>4 DEF BudgetCall, Thrown, Goto
  <2> QED BY <1>0, <1>10, <2>3, <2>5 DEF BudgetCall, Thrown
<1>11. CASE BudgetCommit(r)
  <2>1. approvals' \in [Approvals -> ApprovalRows]
    <3>1. \/ approvals' = approvals
          \/ approvals' = [approvals EXCEPT ![req[r].approval].status = "CONSUMED"]
      BY <1>11 DEF BudgetCommit
    <3>2. ASSUME NEW a \in Approvals
          PROVE  [approvals[a] EXCEPT !.status = "CONSUMED"] \in ApprovalRows
      BY StatusOfApproval DEF ApprovalStatus
    <3> QED BY <3>1, <3>2
  <2>2. req[r].approval \in Approvals
    BY <1>0, <1>11 DEF BudgetCommit, WellFormed, Deciding, Checked
  <2>3. campaign' \in CampaignRows
    BY <1>11, <2>2 DEF BudgetCommit, RecordedBudget, CampaignRows, ApprovalRows
  <2> QED BY <1>0, <1>11, <2>1, <2>3 DEF BudgetCommit
<1> QED BY <1>1, <1>2, <1>3, <1>4, <1>5, <1>6, <1>7, <1>8, <1>9, <1>10, <1>11 DEF Serve

LEMMA TypedNext == Typed /\ [Next]_vars => Typed'
<1> SUFFICES ASSUME Typed, [Next]_vars PROVE Typed'
  OBVIOUS
<1>1. ASSUME NEW r \in Requests, Crash(r) PROVE Typed'
  BY <1>1, Moves DEF Crash, Typed, TypeOK, GoodSlots
<1>2. CASE UNCHANGED vars
  BY <1>2 DEF vars, Typed, TypeOK
<1> QED BY <1>1, <1>2, TypedUserRequest, TypedServe DEF Next

-----------------------------------------------------------------------------
(* What a step does to the rows and to the changes.                        *)

\* An approval that exists goes on existing and shows what it showed.
SameApproval(row, new) ==
  /\ new.status # "ABSENT" /\ new.requester = row.requester
  /\ new.current = row.current /\ new.new = row.new

LEMMA ApprovalStep ==
  ASSUME Typed, [Next]_vars
  PROVE  \/ approvals' = approvals
         \/ \E r \in Requests, a \in Approvals :
              /\ ApplyOpen(r) /\ FreshApproval(a)
              /\ approvals' = [approvals EXCEPT ![a] =
                   [status |-> "PENDING", rec |-> req[r].rec, tree |-> req[r].tree,
                    current |-> req[r].amount, new |-> Scaled(req[r].amount),
                    requester |-> req[r].user]]
         \/ \E r \in Requests :
              /\ DecideReject(r)
              /\ approvals' = [approvals EXCEPT ![req[r].approval].status = "REJECTED"]
         \/ \E r \in Requests :
              /\ BudgetCommit(r)
              /\ approvals' = [approvals EXCEPT ![req[r].approval].status = "CONSUMED"]
<1>1. ASSUME NEW r \in Requests, UserRequest(r) \/ Crash(r)
      PROVE  approvals' = approvals
  BY <1>1 DEF UserRequest, Generate, Apply, RecDecide, Decide, EditBudget, Publish, Reopen, Crash
<1>2. ASSUME NEW r \in Requests, Serve(r)
      PROVE  approvals' = approvals \/ ApplyOpen(r) \/ DecideReject(r) \/ BudgetCommit(r)
  BY <1>2 DEF Serve, GenerateAnalyse, GenerateSupersede, GenerateInsert, ApplyPreview, RecMark,
     DecideCount, BudgetDrift, BudgetCall, Thrown
<1>3. ASSUME UNCHANGED vars PROVE approvals' = approvals
  BY <1>3 DEF vars
<1> QED BY <1>1, <1>2, <1>3 DEF Next, ApplyOpen, DecideReject, BudgetCommit

LEMMA RowsStable ==
  ASSUME BudgetInvariant, [Next]_vars, NEW a \in Approvals
  PROVE  /\ approvals[a].status # "ABSENT" => SameApproval(approvals[a], approvals'[a])
         /\ RowSound(approvals'[a])
<1>0. Typed /\ RowSound(approvals[a]) /\ approvals \in [Approvals -> ApprovalRows]
  BY DEF BudgetInvariant, Typed, TypeOK
<1>1. ASSUME NEW v, v # "ABSENT", approvals'[a] = [approvals[a] EXCEPT !.status = v]
      PROVE  SameApproval(approvals[a], approvals'[a]) /\ RowSound(approvals'[a])
  BY <1>0, <1>1 DEF SameApproval, RowSound, ApprovalRows
<1>2. ASSUME approvals'[a] = approvals[a]
      PROVE  /\ approvals[a].status # "ABSENT" => SameApproval(approvals[a], approvals'[a])
             /\ RowSound(approvals'[a])
  BY <1>0, <1>2 DEF SameApproval, RowSound
<1>3. ASSUME NEW r \in Requests, NEW b \in Approvals, FreshApproval(b),
             approvals' = [approvals EXCEPT ![b] =
                   [status |-> "PENDING", rec |-> req[r].rec, tree |-> req[r].tree,
                    current |-> req[r].amount, new |-> Scaled(req[r].amount),
                    requester |-> req[r].user]]
      PROVE  /\ approvals[a].status # "ABSENT" => SameApproval(approvals[a], approvals'[a])
             /\ RowSound(approvals'[a])
  <2>1. CASE a # b
    BY <1>0, <1>2, <1>3, <2>1
  <2>2. CASE a = b
    BY <1>0, <1>3, <2>2 DEF FreshApproval, NoApproval, RowSound
  <2> QED BY <2>1, <2>2
<1>4. ASSUME NEW b, NEW v, v # "ABSENT", approvals' = [approvals EXCEPT ![b].status = v]
      PROVE  /\ approvals[a].status # "ABSENT" => SameApproval(approvals[a], approvals'[a])
             /\ RowSound(approvals'[a])
  <2>1. approvals'[a] = approvals[a] \/ approvals'[a] = [approvals[a] EXCEPT !.status = v]
    BY <1>0, <1>4
  <2> QED BY <1>1, <1>2, <1>4, <2>1
<1>5. "REJECTED" # "ABSENT" /\ "CONSUMED" # "ABSENT"
  OBVIOUS
<1> QED BY <1>0, <1>2, <1>3, <1>4, <1>5, ApprovalStep

LEMMA LedgerStep ==
  ASSUME Typed, [Next]_vars
  PROVE  \/ ledger' = ledger
         \/ \E r \in Requests :
              /\ BudgetCall(r) /\ approvals' = approvals
              /\ ledger' = ledger \cup
                   {[approval |-> req[r].approval, tree |-> req[r].tree,
                     amount |-> approvals[req[r].approval].new, by |-> req[r].user]}
<1>1. ASSUME NEW r \in Requests, UserRequest(r) \/ Crash(r)
      PROVE  ledger' = ledger
  BY <1>1 DEF UserRequest, Generate, Apply, RecDecide, Decide, EditBudget, Publish, Reopen, Crash
<1>2. ASSUME NEW r \in Requests, Serve(r)
      PROVE  ledger' = ledger \/ BudgetCall(r)
  BY <1>2 DEF Serve, GenerateAnalyse, GenerateSupersede, GenerateInsert, ApplyPreview, ApplyOpen,
     RecMark, DecideCount, DecideReject, BudgetDrift, BudgetCommit
<1>3. ASSUME UNCHANGED vars PROVE ledger' = ledger
  BY <1>3 DEF vars
<1> QED BY <1>1, <1>2, <1>3 DEF Next, BudgetCall

LEMMA LedgerGrows ==
  ASSUME Typed, [Next]_vars
  PROVE  ledger \subseteq ledger'
BY LedgerStep

-----------------------------------------------------------------------------
(* What a slot knows.                                                      *)

LEMMA SlotsKeep ==
  ASSUME BudgetInvariant, [Next]_vars, NEW s \in GoodSlots, SlotMatches(s, approvals, ledger)
  PROVE  SlotMatches(s, approvals', ledger')
<1>0. Typed
  BY DEF BudgetInvariant
<1>1. CASE s.pc \in Deciding
  <2>1. s.approval \in Approvals /\ approvals[s.approval].status # "ABSENT"
    BY <1>1 DEF GoodSlots, WellFormed, SlotMatches
  <2>2. SameApproval(approvals[s.approval], approvals'[s.approval])
    BY <2>1, RowsStable
  <2>3. WasSent(s.approval, ledger) => WasSent(s.approval, ledger')
    BY <1>0, LedgerGrows DEF WasSent
  <2> QED BY <2>2, <2>3 DEF SlotMatches, SameApproval
<1>2. CASE s.pc \notin Deciding
  BY <1>2 DEF SlotMatches, Deciding, Checked
<1> QED BY <1>1, <1>2

\* A handler that decides nothing needs to know nothing.
LEMMA NothingToKnow ==
  ASSUME NEW s, NEW rows, NEW changes, s.pc \notin Deciding
  PROVE  SlotMatches(s, rows, changes)
BY DEF SlotMatches, Deciding, Checked

LEMMA SlotsMove ==
  ASSUME BudgetInvariant, NEW r \in Requests, UserRequest(r) \/ Serve(r) \/ Crash(r)
  PROVE  SlotMatches(req'[r], approvals', ledger')
<1> USE DEF At
<1>0. /\ req \in [Requests -> GoodSlots] /\ req[r] \in Slots /\ WellFormed(req[r])
      /\ SlotMatches(req[r], approvals, ledger)
  BY DEF BudgetInvariant, Typed, GoodSlots
<1>1. \A s : Become(r, s) => req'[r] = s
  BY <1>0 DEF Become
<1>2. ASSUME Return(r)
      PROVE  SlotMatches(req'[r], approvals', ledger')
  <2>1. req'[r].pc = "idle"
    BY <1>1, <1>2 DEF Return, Idle
  <2> QED BY <2>1, NothingToKnow DEF Deciding, Checked
<1>3. CASE Crash(r)
  BY <1>2, <1>3 DEF Crash
<1>4. ASSUME NEW pc, pc \in {"analyse", "preview", "mark", "supersede", "insert", "open", "idle"},
             req'[r].pc = pc
      PROVE  SlotMatches(req'[r], approvals', ledger')
  BY <1>4, NothingToKnow DEF Deciding, Checked
<1>5. CASE UserRequest(r)
  <2>1. CASE \E u \in Approvers, a \in Approvals, approve \in BOOLEAN : Decide(r, u, a, approve)
    <3>1. PICK u \in Approvers, a \in Approvals, approve \in BOOLEAN : Decide(r, u, a, approve)
      BY <2>1
    <3>2. /\ req'[r].approval = a /\ req'[r].user = u
          /\ req'[r].pc \in {"reject", "count", "drift"}
          /\ req'[r].pc = "drift" => approvals[a].requester # u
      BY <1>1, <3>1 DEF Decide, Start, Idle
    <3>3. approvals' = approvals /\ approvals[a].status # "ABSENT"
      BY <3>1 DEF Decide, Undecided
    <3> QED BY <3>2, <3>3 DEF SlotMatches, Checked
  <2>2. CASE ~\E u \in Approvers, a \in Approvals, approve \in BOOLEAN : Decide(r, u, a, approve)
    <3>1. req'[r].pc \in {"analyse", "preview", "mark", "idle"}
      BY <1>1, <1>5, <2>2 DEF UserRequest, Generate, Apply, RecDecide, EditBudget, Publish,
         Reopen, Start, Idle
    <3> QED BY <1>4, <3>1
  <2> QED BY <2>1, <2>2
<1>6. CASE Serve(r)
  <2>1. CASE GenerateAnalyse(r) \/ GenerateSupersede(r) \/ ApplyPreview(r)
    <3>1. Return(r) \/ req'[r].pc \in {"supersede", "insert", "open"}
      BY <1>0, <1>1, <2>1 DEF GenerateAnalyse, GenerateSupersede, ApplyPreview, Slots
    <3> QED BY <1>2, <1>4, <3>1
  <2>2. CASE GenerateInsert(r) \/ ApplyOpen(r) \/ RecMark(r) \/ DecideReject(r) \/ BudgetCommit(r)
    BY <1>2, <2>2 DEF GenerateInsert, ApplyOpen, RecMark, DecideReject, BudgetCommit
  <2>3. CASE DecideCount(r)
    <3>1. CASE SoleApprover(req[r].user)
      <4>1. /\ req'[r] = [req[r] EXCEPT !.pc = "drift"]
            /\ UNCHANGED <<approvals, ledger>>
        BY <1>1, <2>3, <3>1 DEF DecideCount, Goto
      <4>2. req[r].user \in Approvers /\ approvals[req[r].approval].status # "ABSENT"
        BY <1>0, <2>3 DEF DecideCount, WellFormed, SlotMatches, Deciding
      <4>3. Approvers = {req[r].user}
        BY <3>1, <4>2 DEF SoleApprover
      <4> QED BY <1>0, <4>1, <4>2, <4>3 DEF SlotMatches, Slots
    <3>2. CASE ~SoleApprover(req[r].user)
      BY <1>2, <2>3, <3>2 DEF DecideCount
    <3> QED BY <3>1, <3>2
  <2>4. CASE BudgetDrift(r)
    <3>1. \/ Return(r)
          \/ /\ req'[r].pc = "call" /\ req'[r].approval = req[r].approval
             /\ req'[r].user = req[r].user
      BY <1>0, <1>1, <2>4 DEF BudgetDrift, Slots
    <3>2. req[r].pc = "drift" /\ UNCHANGED <<approvals, ledger>>
      BY <2>4 DEF BudgetDrift
    <3> QED BY <1>0, <1>2, <3>1, <3>2 DEF SlotMatches, Deciding, Checked
  <2>5. CASE BudgetCall(r)
    <3>1. CASE Return(r)
      BY <1>2, <3>1
    <3>2. CASE ~Return(r)
      <4>1. /\ req'[r] = [req[r] EXCEPT !.pc = "commit"]
            /\ [approval |-> req[r].approval, tree |-> req[r].tree,
                amount |-> approvals[req[r].approval].new, by |-> req[r].user] \in ledger'
            /\ approvals' = approvals /\ req[r].pc = "call"
        BY <1>1, <2>5, <3>2 DEF BudgetCall, Thrown, Goto
      <4>2. WasSent(req[r].approval, ledger')
        BY <4>1 DEF WasSent
      <4> QED BY <1>0, <4>1, <4>2 DEF SlotMatches, Deciding, Checked, Slots
    <3> QED BY <3>1, <3>2
  <2> QED BY <1>6, <2>1, <2>2, <2>3, <2>4, <2>5 DEF Serve
<1> QED BY <1>3, <1>5, <1>6

LEMMA SlotOwner ==
  ASSUME Typed, [Next]_vars, NEW q \in Requests, req'[q] # req[q]
  PROVE  UserRequest(q) \/ Serve(q) \/ Crash(q)
<1>1. ASSUME NEW r \in Requests, NEW s, Become(r, s), r # q
      PROVE  FALSE
  BY <1>1 DEF Become, Typed
<1>2. ASSUME NEW r \in Requests, UserRequest(r), r # q
      PROVE  FALSE
  BY <1>1, <1>2 DEF UserRequest, Generate, Apply, RecDecide, Decide, EditBudget, Publish,
     Reopen, Start
<1>3. ASSUME NEW r \in Requests, Serve(r), r # q
      PROVE  FALSE
  BY <1>1, <1>3 DEF Serve, GenerateAnalyse, GenerateSupersede, GenerateInsert, ApplyPreview,
     ApplyOpen, RecMark, DecideCount, DecideReject, BudgetDrift, BudgetCall, Thrown, BudgetCommit,
     Goto, Return
<1>4. ASSUME NEW r \in Requests, Crash(r), r # q
      PROVE  FALSE
  BY <1>1, <1>4 DEF Crash, Return
<1>5. ~UNCHANGED vars
  BY DEF vars
<1> QED BY <1>2, <1>3, <1>4, <1>5 DEF Next

-----------------------------------------------------------------------------
(* The invariant.                                                          *)

LEMMA ChangesSound ==
  ASSUME BudgetInvariant, [Next]_vars, NEW e \in ledger'
  PROVE  ChangeSound(e, approvals')
<1>0. Typed /\ ledger \subseteq Changes
  BY DEF BudgetInvariant, Typed, TypeOK
<1>1. CASE e \in ledger
  <2>1. e.approval \in Approvals /\ ChangeSound(e, approvals)
    BY <1>0, <1>1 DEF Changes, BudgetInvariant
  <2>2. SameApproval(approvals[e.approval], approvals'[e.approval])
    BY <2>1, RowsStable DEF ChangeSound
  <2> QED BY <2>1, <2>2 DEF ChangeSound, SameApproval
<1>2. CASE e \notin ledger
  <2>1. PICK r \in Requests :
          /\ BudgetCall(r) /\ approvals' = approvals
          /\ e = [approval |-> req[r].approval, tree |-> req[r].tree,
                  amount |-> approvals[req[r].approval].new, by |-> req[r].user]
    BY <1>0, <1>2, LedgerStep
  <2>2. SlotMatches(req[r], approvals, ledger) /\ req[r].pc = "call"
    BY <2>1 DEF BudgetInvariant, BudgetCall, Thrown, At
  <2> QED BY <2>1, <2>2 DEF SlotMatches, ChangeSound, Deciding, Checked
<1> QED BY <1>1, <1>2

LEMMA ConsumedStaysSent ==
  ASSUME BudgetInvariant, [Next]_vars, NEW a \in Approvals, approvals'[a].status = "CONSUMED"
  PROVE  WasSent(a, ledger')
<1>0. Typed /\ approvals \in [Approvals -> ApprovalRows] /\ ledger \subseteq ledger'
  BY LedgerGrows DEF BudgetInvariant, Typed, TypeOK
<1>1. CASE approvals[a].status = "CONSUMED"
  BY <1>0, <1>1 DEF BudgetInvariant, ConsumedWasSent, WasSent
<1>2. CASE approvals[a].status # "CONSUMED"
  <2>1. PICK r \in Requests : /\ BudgetCommit(r) /\ req[r].approval = a
    <3>1. ASSUME NEW b \in Approvals, NEW row, row.status = "PENDING",
                 approvals' = [approvals EXCEPT ![b] = row]
          PROVE  FALSE
      BY <1>0, <1>2, <3>1
    <3>2. ASSUME NEW b, approvals' = [approvals EXCEPT ![b].status = "REJECTED"]
          PROVE  FALSE
      BY <1>0, <1>2, <3>2 DEF ApprovalRows
    <3>3. ASSUME NEW b, approvals' = [approvals EXCEPT ![b].status = "CONSUMED"]
          PROVE  b = a
      BY <1>0, <1>2, <3>3
    <3> QED BY <1>0, <1>2, <3>1, <3>2, <3>3, ApprovalStep
  <2>2. WasSent(a, ledger)
    BY <2>1 DEF BudgetInvariant, SlotMatches, BudgetCommit, At
  <2> QED BY <1>0, <2>2 DEF WasSent
<1> QED BY <1>1, <1>2

LEMMA BudgetInit == Init => BudgetInvariant
<1> SUFFICES ASSUME Init PROVE BudgetInvariant
  OBVIOUS
<1>1. Typed
  <2>1. campaign \in CampaignRows
    <3>1. {None} \subseteq Trees \cup {None} /\ Budgets \cup {0} \subseteq Nat /\ {TRUE} \subseteq BOOLEAN
      BY BudgetAssumption
    <3> QED BY <3>1, Zenon DEF Init, CampaignRows
  <2>2. recs \in [Recs -> RecRows] /\ approvals \in [Approvals -> ApprovalRows]
    BY Values DEF Init
  <2>3. live \in [Trees -> Nat \cup {None}] /\ ledger \subseteq Changes
    BY DEF Init
  <2>4. req \in [Requests -> GoodSlots]
    BY Values DEF Init
  <2>5. req \in [Requests -> Slots]
    BY <2>4 DEF GoodSlots
  <2> QED BY <2>1, <2>2, <2>3, <2>4, <2>5 DEF Typed, TypeOK
<1>2. \A r \in Requests : SlotMatches(req[r], approvals, ledger)
  BY NothingToKnow DEF Init, Idle, Deciding, Checked
<1>3. \A a \in Approvals : RowSound(approvals[a])
  BY Values DEF Init
<1>4. ConsumedWasSent
  BY DEF Init, ConsumedWasSent, NoApproval
<1> QED BY <1>1, <1>2, <1>3, <1>4 DEF Init, BudgetInvariant

LEMMA BudgetNext == BudgetInvariant /\ [Next]_vars => BudgetInvariant'
<1> SUFFICES ASSUME BudgetInvariant, [Next]_vars PROVE BudgetInvariant'
  OBVIOUS
<1>1. Typed'
  BY TypedNext DEF BudgetInvariant
<1>2. ASSUME NEW q \in Requests PROVE SlotMatches(req'[q], approvals', ledger')
  <2>1. CASE req'[q] = req[q]
    BY <2>1, SlotsKeep DEF BudgetInvariant, Typed
  <2>2. CASE req'[q] # req[q]
    BY <2>2, SlotOwner, SlotsMove DEF BudgetInvariant
  <2> QED BY <2>1, <2>2
<1>3. ASSUME NEW a \in Approvals PROVE RowSound(approvals'[a])
  BY RowsStable
<1>4. ASSUME NEW e \in ledger' PROVE ChangeSound(e, approvals')
  BY ChangesSound
<1>5. ConsumedWasSent'
  BY ConsumedStaysSent DEF ConsumedWasSent, WasSent
<1> QED BY <1>1, <1>2, <1>3, <1>4, <1>5 DEF BudgetInvariant

LEMMA BudgetAlways == Spec => []BudgetInvariant
BY BudgetInit, BudgetNext, PTL DEF Spec

-----------------------------------------------------------------------------
(* The theorems.                                                           *)

\* Every row, budget and request slot keeps its type under any interleaving; in
\* particular a change always names a campaign that exists at Meta.
THEOREM BudgetTypes == Spec => []TypeOK
<1>1. BudgetInvariant => TypeOK
  BY DEF BudgetInvariant, Typed
<1> QED BY <1>1, BudgetAlways, PTL

\* Whatever edits, publishes, decisions, retries and crashes cross, Meta only ever
\* gets an amount an approval showed, one BUDGET_STEP above the budget it showed; the
\* step is the same whichever rule advised it (decideBudgetChange, apply).
THEOREM SentAsShownAlways == Spec => []SentAsShown
<1>1. ASSUME BudgetInvariant, NEW e \in ledger
      PROVE  LET a == approvals[e.approval]
             IN e.amount = a.new /\ 10 * a.new - 12 * a.current \in -4 .. 5
  <2>1. /\ ChangeSound(e, approvals) /\ e.approval \in Approvals
        /\ approvals \in [Approvals -> ApprovalRows]
    BY <1>1 DEF BudgetInvariant, Typed, TypeOK, Changes
  <2>2. /\ approvals[e.approval].current \in Nat
        /\ approvals[e.approval].new = Scaled(approvals[e.approval].current)
    BY <1>1, <2>1 DEF BudgetInvariant, RowSound, ApprovalRows
  <2> QED BY <2>1, <2>2, ScaledBounds DEF ChangeSound
<1>2. BudgetInvariant => SentAsShown
  BY <1>1 DEF SentAsShown
<1> QED BY <1>2, BudgetAlways, PTL

\* Only the sole approver of an organisation changes a budget at their own
\* request, however many users decide at the same time (approvals.service.ts decide).
THEOREM BudgetNeedsCheckerAlways == Spec => []BudgetNeedsChecker
<1>1. BudgetInvariant => BudgetNeedsChecker
  BY DEF BudgetInvariant, ChangeSound, BudgetNeedsChecker
<1> QED BY <1>1, BudgetAlways, PTL

\* An approval is CONSUMED only after its change has reached Meta, even when
\* several approvers decide it at once and some of them fail or refuse.
THEOREM ConsumedWasSentAlways == Spec => []ConsumedWasSent
<1>1. BudgetInvariant => ConsumedWasSent
  BY DEF BudgetInvariant
<1> QED BY <1>1, BudgetAlways, PTL

-----------------------------------------------------------------------------
(* One request at a time.                                                  *)

LEMMA Serving ==
  ASSUME SerialInvariant, NEW r \in Requests
  PROVE  /\ req \in [Requests -> GoodSlots] /\ req[r] \in Slots /\ WellFormed(req[r])
         /\ SlotHolds(req[r], campaign, recs, approvals, live)
         /\ campaign \in CampaignRows /\ recs \in [Recs -> RecRows]
         /\ approvals \in [Approvals -> ApprovalRows]
         /\ live \in [Trees -> Nat \cup {None}] /\ ledger \subseteq Changes
BY DEF SerialInvariant, BudgetInvariant, Typed, TypeOK, GoodSlots

LEMMA IdleHolds ==
  ASSUME NEW row, NEW rs, NEW as, NEW atMeta
  PROVE  SlotHolds(Idle, row, rs, as, atMeta)
BY DEF Idle, SlotHolds, Applying, Deciding, Checked, Sending

\* What every handler goes on knowing.
LEMMA UserRequestHolds ==
  ASSUME SerialInvariant, NEW r \in Requests, UserRequest(r)
  PROVE  SlotHolds(req'[r], campaign', recs', approvals', live')
<1>1. req \in [Requests -> GoodSlots]
  BY Serving
<1> USE DEF SlotHolds, Idle, Applying, Deciding, Checked, Sending, Start, Become, At
<1>2. CASE \E u \in Writers, x \in Recs : Apply(r, u, x)
  <2>1. PICK u \in Writers, x \in Recs : Apply(r, u, x)
    BY <1>2
  <2>2. req'[r].pc = "preview" /\ req'[r].rec = x /\ recs'[x].status = "NEW"
    BY <1>1, <2>1 DEF Apply, Unhandled
  <2> QED BY <2>2
<1>3. CASE \E u \in Approvers, a \in Approvals, approve \in BOOLEAN : Decide(r, u, a, approve)
  <2>1. PICK u \in Approvers, a \in Approvals, approve \in BOOLEAN : Decide(r, u, a, approve)
    BY <1>3
  <2>2. /\ req'[r].pc \in {"reject", "count", "drift"} /\ req'[r].approval = a
        /\ approvals'[a].status = "PENDING"
    BY <1>1, <2>1 DEF Decide, Undecided
  <2> QED BY <2>2
<1>4. CASE \/ Generate(r) \/ Reopen(r)
           \/ \E x \in Recs, d \in Decisions : RecDecide(r, x, d)
           \/ \E b \in Budgets : EditBudget(r, b)
           \/ \E m \in Trees : Publish(r, m)
  <2>1. req'[r].pc \in {"analyse", "mark", "idle"}
    BY <1>1, <1>4 DEF Generate, Reopen, RecDecide, EditBudget, Publish
  <2> QED BY <2>1
<1> QED BY <1>2, <1>3, <1>4 DEF UserRequest

LEMMA ServeHolds ==
  ASSUME SerialInvariant, NEW r \in Requests, Serve(r) \/ Crash(r)
  PROVE  SlotHolds(req'[r], campaign', recs', approvals', live')
<1>1. /\ req \in [Requests -> GoodSlots] /\ req[r] \in Slots /\ WellFormed(req[r])
      /\ SlotHolds(req[r], campaign, recs, approvals, live)
      /\ live \in [Trees -> Nat \cup {None}]
  BY Serving
<1>2. ASSUME Return(r)
      PROVE  SlotHolds(req'[r], campaign', recs', approvals', live')
  BY <1>1, <1>2, IdleHolds DEF Return, Become
<1> USE DEF SlotHolds, Applying, Deciding, Checked, Sending, Become, Goto, At, Slots
<1>3. CASE GenerateAnalyse(r) \/ GenerateSupersede(r)
  <2>1. Return(r) \/ req'[r].pc \in {"supersede", "insert"}
    BY <1>1, <1>3 DEF GenerateAnalyse, GenerateSupersede
  <2> QED BY <1>2, <2>1
<1>4. CASE GenerateInsert(r) \/ ApplyOpen(r) \/ RecMark(r) \/ DecideReject(r) \/ BudgetCommit(r)
           \/ Crash(r)
  BY <1>2, <1>4 DEF GenerateInsert, ApplyOpen, RecMark, DecideReject, BudgetCommit, Crash
<1>5. CASE ApplyPreview(r)
  <2>1. \/ Return(r)
        \/ /\ req[r].pc = "preview" /\ req'[r].pc = "open" /\ req'[r].rec = req[r].rec
           /\ UNCHANGED <<campaign, recs, approvals, live>>
    BY <1>1, <1>5 DEF ApplyPreview
  <2> QED BY <1>1, <1>2, <2>1
<1>6. CASE DecideCount(r)
  <2>1. \/ Return(r)
        \/ /\ req[r].pc = "count" /\ req'[r].pc = "drift" /\ req'[r].approval = req[r].approval
           /\ UNCHANGED <<campaign, recs, approvals, live>>
    BY <1>1, <1>6 DEF DecideCount
  <2> QED BY <1>1, <1>2, <2>1
<1>7. CASE BudgetDrift(r)
  <2>1. \/ Return(r)
        \/ /\ req[r].pc = "drift" /\ req'[r].pc = "call" /\ req'[r].approval = req[r].approval
           /\ req'[r].tree = campaign.tree
           /\ UNCHANGED <<campaign, recs, approvals, live>>
    BY <1>1, <1>7 DEF BudgetDrift
  <2> QED BY <1>1, <1>2, <2>1
<1>8. CASE BudgetCall(r)
  <2>1. \/ Return(r)
        \/ /\ req[r].pc = "call" /\ req'[r].pc = "commit" /\ req'[r].approval = req[r].approval
           /\ req'[r].tree = req[r].tree
           /\ live' = [live EXCEPT ![req[r].tree] = approvals[req[r].approval].new]
           /\ UNCHANGED <<campaign, recs, approvals>>
    BY <1>1, <1>8 DEF BudgetCall, Thrown
  <2>2. req[r].pc = "call" => req[r].tree \in Trees
    BY <1>1 DEF WellFormed
  <2> QED BY <1>1, <1>2, <2>1, <2>2
<1> QED BY <1>3, <1>4, <1>5, <1>6, <1>7, <1>8 DEF Serve

-----------------------------------------------------------------------------
(* One approval per recommendation.                                        *)

\* Which steps touch the recommendations.
LEMMA RecStep ==
  ASSUME SerialInvariant, [Next]_vars, NEW x \in Recs
  PROVE  \/ recs'[x] = recs[x]
         \/ recs[x] = NoRec
         \/ recs'[x].status \in Decisions
<1>0. recs \in [Recs -> RecRows]
  BY DEF SerialInvariant, BudgetInvariant, Typed, TypeOK
<1>1. ASSUME NEW r \in Requests, UserRequest(r) \/ Crash(r)
      PROVE  recs' = recs
  BY <1>1 DEF UserRequest, Generate, Apply, RecDecide, Decide, EditBudget, Publish, Reopen, Crash
<1>2. ASSUME NEW r \in Requests, Serve(r)
      PROVE  recs' = recs \/ GenerateInsert(r) \/ ApplyOpen(r) \/ RecMark(r)
  BY <1>2 DEF Serve, GenerateAnalyse, GenerateSupersede, ApplyPreview, DecideReject,
     DecideCount, BudgetDrift, BudgetCall, Thrown, BudgetCommit
<1>3. ASSUME NEW r \in Requests, GenerateInsert(r)
      PROVE  recs'[x] = recs[x] \/ recs[x] = NoRec \/ recs'[x].status \in Decisions
  <2>1. CASE UNCHANGED recs
    BY <2>1
  <2>2. ASSUME NEW id \in Injections(req[r].found, FreshRecs),
               recs' = [y \in Recs |->
                     IF \E k \in req[r].found : id[k] = y
                     THEN [status |-> "NEW", kind |-> CHOOSE k \in req[r].found : id[k] = y]
                     ELSE IF y \in req[r].seen /\ recs[y].status = "NEW"
                          THEN [recs[y] EXCEPT !.status = "DISMISSED"]
                          ELSE recs[y]]
        PROVE  recs'[x] = recs[x] \/ recs[x] = NoRec \/ recs'[x].status \in Decisions
    <3>1. CASE \E k \in req[r].found : id[k] = x
      BY <2>2, <3>1 DEF Injections, FreshRecs
    <3>2. CASE ~\E k \in req[r].found : id[k] = x
      <4>1. recs'[x] = recs[x] \/ recs'[x] = [recs[x] EXCEPT !.status = "DISMISSED"]
        BY <2>2, <3>2
      <4>2. recs[x] \in RecRows
        BY <1>0
      <4> QED BY <4>1, <4>2 DEF RecRows, Decisions
    <3> QED BY <3>1, <3>2
  <2> QED BY <1>3, <2>1, <2>2 DEF GenerateInsert
<1>4. ASSUME NEW r \in Requests, ApplyOpen(r) \/ RecMark(r)
      PROVE  recs'[x] = recs[x] \/ recs'[x].status \in Decisions
  <2>1. CASE ApplyOpen(r)
    BY <1>0, <2>1 DEF ApplyOpen, Acknowledged, RecRows, Decisions
  <2>2. CASE RecMark(r)
    <3>1. req[r].decision \in Decisions
      BY <2>2, Serving DEF RecMark, At, WellFormed
    <3> QED BY <1>0, <2>2, <3>1 DEF RecMark, RecRows
  <2> QED BY <1>4, <2>1, <2>2
<1>5. UNCHANGED vars => recs' = recs
  BY DEF vars
<1> QED BY <1>1, <1>2, <1>3, <1>4, <1>5 DEF Next

\* An approval names what it named; a new one names a recommendation that was
\* still open.
LEMMA ApprovalRec ==
  ASSUME SerialInvariant, [Next]_vars
  PROVE  \/ \A a \in Approvals : approvals'[a].rec = approvals[a].rec
         \/ \E x \in Recs, b \in Approvals :
              /\ recs[x].status = "NEW" /\ recs'[x].status = "ACKNOWLEDGED"
              /\ approvals'[b].rec = x
              /\ \A a \in Approvals : a # b => approvals'[a].rec = approvals[a].rec
<1>0. Typed /\ approvals \in [Approvals -> ApprovalRows] /\ recs \in [Recs -> RecRows]
  BY DEF SerialInvariant, BudgetInvariant, Typed, TypeOK
<1>1. ASSUME NEW r \in Requests, NEW b \in Approvals, ApplyOpen(r), FreshApproval(b),
             approvals' = [approvals EXCEPT ![b] =
               [status |-> "PENDING", rec |-> req[r].rec, tree |-> req[r].tree,
                current |-> req[r].amount, new |-> Scaled(req[r].amount),
                requester |-> req[r].user]]
      PROVE  \E x \in Recs :
              /\ recs[x].status = "NEW" /\ recs'[x].status = "ACKNOWLEDGED"
              /\ approvals'[b].rec = x
              /\ \A a \in Approvals : a # b => approvals'[a].rec = approvals[a].rec
  <2>1. req[r].rec \in Recs /\ recs[req[r].rec].status = "NEW"
    BY <1>1, Serving DEF ApplyOpen, At, WellFormed, SlotHolds, Applying
  <2>2. approvals # approvals'
    BY <1>0, <1>1 DEF FreshApproval, NoApproval
  <2>3. recs' = [recs EXCEPT ![req[r].rec] = Acknowledged(req[r].rec)]
    BY <1>1, <2>2 DEF ApplyOpen
  <2>4. recs'[req[r].rec].status = "ACKNOWLEDGED"
    BY <1>0, <2>1, <2>3 DEF Acknowledged, RecRows
  <2> QED BY <1>0, <1>1, <2>1, <2>4
<1>2. ASSUME NEW b, NEW v, approvals' = [approvals EXCEPT ![b].status = v]
      PROVE  \A a \in Approvals : approvals'[a].rec = approvals[a].rec
  BY <1>0, <1>2 DEF ApprovalRows
<1>3. CASE approvals' = approvals
  BY <1>3
<1>4. CASE \E r \in Requests :
             approvals' = [approvals EXCEPT ![req[r].approval].status = "REJECTED"]
  BY <1>2, <1>4
<1>5. CASE \E r \in Requests :
             approvals' = [approvals EXCEPT ![req[r].approval].status = "CONSUMED"]
  BY <1>2, <1>5
<1> HIDE DEF ApplyOpen, FreshApproval, Scaled
<1>6. CASE \E r \in Requests, b \in Approvals :
             /\ ApplyOpen(r) /\ FreshApproval(b)
             /\ approvals' = [approvals EXCEPT ![b] =
                  [status |-> "PENDING", rec |-> req[r].rec, tree |-> req[r].tree,
                   current |-> req[r].amount, new |-> Scaled(req[r].amount),
                   requester |-> req[r].user]]
  BY <1>1, <1>6
<1> QED BY <1>0, <1>3, <1>4, <1>5, <1>6, ApprovalStep

LEMMA HandledNext ==
  ASSUME SerialInvariant, [Next]_vars
  PROVE  Handled' /\ OneApprovalPerRecommendation'
<1>1. /\ \A a \in Approvals : approvals[a].rec # None => approvals[a].rec \in Recs
      /\ Handled /\ OneApprovalPerRecommendation
  BY DEF SerialInvariant, BudgetInvariant, Typed, TypeOK, ApprovalRows
<1>2. \A x \in Recs : recs[x].status \in Decisions => recs'[x].status \in Decisions
  BY RecStep DEF NoRec, Decisions
<1>3. CASE \A a \in Approvals : approvals'[a].rec = approvals[a].rec
  BY <1>1, <1>2, <1>3 DEF Handled, OneApprovalPerRecommendation
<1>4. ASSUME NEW x \in Recs, NEW b \in Approvals,
             recs[x].status = "NEW", recs'[x].status = "ACKNOWLEDGED", approvals'[b].rec = x,
             \A a \in Approvals : a # b => approvals'[a].rec = approvals[a].rec
      PROVE  Handled' /\ OneApprovalPerRecommendation'
  <2>1. \A a \in Approvals : approvals[a].rec # x
    BY <1>1, <1>4, NoneAssumption DEF Handled, Decisions
  <2>2. Handled'
    BY <1>1, <1>2, <1>4 DEF Handled, Decisions
  <2>3. OneApprovalPerRecommendation'
    BY <1>1, <1>4, <2>1 DEF OneApprovalPerRecommendation
  <2> QED BY <2>2, <2>3
<1> QED BY <1>3, <1>4, ApprovalRec

-----------------------------------------------------------------------------
(* A budget that was not recorded leaves a trace.                          *)

\* A change that is not recorded as done.
Evidence(e, tree, amount, rows) ==
  e.tree = tree /\ e.amount = amount /\ rows[e.approval].status # "CONSUMED"

\* Approvals are spent by the commit only.
LEMMA EvidenceKept ==
  ASSUME SerialInvariant, [Next]_vars, NEW e \in ledger, NEW tree, NEW amount,
         Evidence(e, tree, amount, approvals), \A r \in Requests : ~BudgetCommit(r)
  PROVE  e \in ledger' /\ Evidence(e, tree, amount, approvals')
<1>1. Typed /\ approvals \in [Approvals -> ApprovalRows] /\ e.approval \in Approvals
  BY DEF SerialInvariant, BudgetInvariant, Typed, TypeOK, Changes
<1>2. ASSUME NEW b, approvals' = [approvals EXCEPT ![b].status = "REJECTED"]
      PROVE  approvals'[e.approval].status # "CONSUMED"
  BY <1>1, <1>2 DEF Evidence, ApprovalRows
<1>3. ASSUME NEW b, NEW row, row.status = "PENDING", approvals' = [approvals EXCEPT ![b] = row]
      PROVE  approvals'[e.approval].status # "CONSUMED"
  BY <1>1, <1>3 DEF Evidence
<1>4. approvals'[e.approval].status # "CONSUMED"
  BY <1>1, <1>2, <1>3, ApprovalStep DEF Evidence
<1> QED BY <1>1, <1>4, LedgerGrows DEF Evidence

LEMMA DriftKept ==
  ASSUME SerialInvariant, [Next]_vars, campaign'.tree = campaign.tree,
         campaign'.editable = campaign.editable, campaign'.budget = campaign.budget,
         live' = live, \A r \in Requests : ~BudgetCommit(r)
  PROVE  DriftHasEvidence'
<1>1. ASSUME AtMeta', ~campaign'.editable, live'[campaign'.tree] # campaign'.budget
      PROVE  \E e \in ledger' : Evidence(e, campaign'.tree, live'[campaign'.tree], approvals')
  <2>1. PICK e \in ledger : Evidence(e, campaign.tree, live[campaign.tree], approvals)
    BY <1>1 DEF SerialInvariant, DriftHasEvidence, AtMeta, Evidence
  <2> QED BY <2>1, EvidenceKept
<1> QED BY <1>1 DEF DriftHasEvidence, Evidence

LEMMA DriftNext ==
  ASSUME OneRequest, SerialInvariant, [Next]_vars
  PROVE  DriftHasEvidence'
<1>0. /\ campaign \in CampaignRows /\ live \in [Trees -> Nat \cup {None}]
      /\ approvals \in [Approvals -> ApprovalRows] /\ Typed
  BY DEF SerialInvariant, BudgetInvariant, Typed, TypeOK
<1>1. ASSUME NEW r \in Requests, UserRequest(r)
      PROVE  DriftHasEvidence'
  <2>0. \A q \in Requests : ~BudgetCommit(q)
    <3>1. req[r].pc # "commit"
      BY <1>1 DEF UserRequest, Generate, Apply, RecDecide, Decide, EditBudget, Publish, Reopen,
         Start, At
    <3> QED BY <3>1 DEF OneRequest, BudgetCommit, At
  <2>1. CASE (\E b \in Budgets : EditBudget(r, b)) \/ Reopen(r)
    <3>1. campaign'.editable
      BY <1>0, <2>1 DEF EditBudget, Reopen, CampaignRows
    <3> QED BY <3>1 DEF DriftHasEvidence
  <2>2. ASSUME NEW m \in Trees, Publish(r, m)
        PROVE  DriftHasEvidence'
    <3>1. campaign'.tree = m /\ campaign'.budget = campaign.budget /\ live'[m] = campaign.budget
      BY <1>0, <2>2 DEF Publish, CampaignRows
    <3> QED BY <3>1 DEF DriftHasEvidence
  <2>3. CASE UNCHANGED <<campaign, live>>
    BY <2>0, <2>3, DriftKept
  <2> QED BY <1>1, <2>1, <2>2, <2>3 DEF UserRequest, Generate, Apply, RecDecide, Decide
<1>2. ASSUME NEW r \in Requests, BudgetCall(r)
      PROVE  DriftHasEvidence'
  <2>0. \A q \in Requests : ~BudgetCommit(q)
    BY <1>2 DEF OneRequest, BudgetCommit, BudgetCall, Thrown, At
  <2>1. CASE UNCHANGED live
    BY <1>2, <2>0, <2>1, DriftKept DEF BudgetCall
  <2>2. CASE ~UNCHANGED live
    <3> DEFINE e == [approval |-> req[r].approval, tree |-> req[r].tree,
                     amount |-> approvals[req[r].approval].new, by |-> req[r].user]
    <3>1. /\ req[r].tree = campaign.tree /\ req[r].tree \in Trees
          /\ approvals[req[r].approval].status = "PENDING"
      BY <1>2, Serving DEF BudgetCall, Thrown, At, WellFormed, SlotHolds, Deciding, Checked, Sending
    <3>2. /\ live' = [live EXCEPT ![req[r].tree] = approvals[req[r].approval].new]
          /\ e \in ledger' /\ UNCHANGED <<campaign, approvals>>
      BY <1>2, <2>2 DEF BudgetCall
    <3>3. Evidence(e, campaign'.tree, live'[campaign'.tree], approvals')
      BY <1>0, <3>1, <3>2 DEF Evidence
    <3> HIDE DEF e
    <3> QED BY <3>2, <3>3 DEF DriftHasEvidence, Evidence
  <2> QED BY <2>1, <2>2
<1>3. ASSUME NEW r \in Requests, BudgetCommit(r)
      PROVE  DriftHasEvidence'
  <2>1. CASE UNCHANGED <<approvals, campaign>>
    <3>1. UNCHANGED <<approvals, campaign, live, ledger>>
      BY <1>3, <2>1 DEF BudgetCommit
    <3> QED BY <3>1 DEF SerialInvariant, DriftHasEvidence, AtMeta
  <2>2. CASE campaign' = [campaign EXCEPT !.budget = RecordedBudget(req[r].approval)]
    <3>1. /\ req[r].tree = campaign.tree /\ live' = live
          /\ live[req[r].tree] = approvals[req[r].approval].new
      BY <1>3, Serving DEF BudgetCommit, At, SlotHolds, Sending
    <3>2. campaign'.tree = campaign.tree /\ campaign'.budget = approvals[req[r].approval].new
      BY <1>0, <2>2 DEF CampaignRows, RecordedBudget
    <3> QED BY <3>1, <3>2 DEF DriftHasEvidence
  <2> QED BY <1>3, <2>1, <2>2 DEF BudgetCommit
<1>4. ASSUME UNCHANGED <<campaign, live>>, \A r \in Requests : ~BudgetCommit(r)
      PROVE  DriftHasEvidence'
  BY <1>4, DriftKept
<1>5. ASSUME NEW r \in Requests, Serve(r), ~BudgetCall(r), ~BudgetCommit(r)
      PROVE  DriftHasEvidence'
  <2>1. UNCHANGED <<campaign, live>>
    BY <1>5 DEF Serve, GenerateAnalyse, GenerateSupersede, GenerateInsert, ApplyPreview, ApplyOpen,
       RecMark, DecideCount, DecideReject, BudgetDrift
  <2>2. \A q \in Requests : ~BudgetCommit(q)
    BY <1>5 DEF OneRequest
  <2> QED BY <1>4, <2>1, <2>2
<1>6. ASSUME (\E r \in Requests : Crash(r)) \/ UNCHANGED vars
      PROVE  DriftHasEvidence'
  <2>1. UNCHANGED <<campaign, live, approvals, ledger>>
    BY <1>6 DEF Crash, vars
  <2> QED BY <2>1 DEF SerialInvariant, DriftHasEvidence, AtMeta
<1> QED BY <1>1, <1>2, <1>3, <1>5, <1>6 DEF Next

-----------------------------------------------------------------------------
(* The invariant of one request at a time, and its theorems.               *)

LEMMA SerialNext == OneRequest /\ SerialInvariant /\ [Next]_vars => SerialInvariant'
<1> SUFFICES ASSUME OneRequest, SerialInvariant, [Next]_vars PROVE SerialInvariant'
  OBVIOUS
<1>1. BudgetInvariant'
  BY BudgetNext DEF SerialInvariant
<1>2. ASSUME NEW r \in Requests
      PROVE  SlotHolds(req'[r], campaign', recs', approvals', live')
  <2>1. CASE UserRequest(r)
    BY <2>1, UserRequestHolds
  <2>2. CASE Serve(r) \/ Crash(r)
    BY <2>2, ServeHolds
  <2>3. CASE UNCHANGED vars
    BY <2>3, Serving DEF vars
  <2> QED BY <2>1, <2>2, <2>3 DEF Next, OneRequest
<1> QED BY <1>1, <1>2, HandledNext, DriftNext DEF SerialInvariant

LEMMA SerialInit == Init => SerialInvariant
<1> SUFFICES ASSUME Init PROVE SerialInvariant
  OBVIOUS
<1>1. \A r \in Requests : SlotHolds(req[r], campaign, recs, approvals, live)
  BY IdleHolds DEF Init
<1>2. Handled /\ OneApprovalPerRecommendation
  BY DEF Init, NoApproval, Handled, OneApprovalPerRecommendation
<1>3. campaign.tree = None
  BY DEF Init
<1>4. DriftHasEvidence
  BY <1>3 DEF DriftHasEvidence, AtMeta
<1> QED BY <1>1, <1>2, <1>4, BudgetInit DEF SerialInvariant

LEMMA SerialAlways == OneRequest /\ Spec => []SerialInvariant
<1>1. CASE OneRequest
  <2>1. SerialInvariant /\ [Next]_vars => SerialInvariant'
    BY <1>1, SerialNext
  <2>2. Spec => []SerialInvariant
    BY <2>1, SerialInit, PTL DEF Spec
  <2> QED BY <2>2
<1>2. CASE ~OneRequest
  BY <1>2
<1> QED BY <1>1, <1>2

\* Served one at a time, a budget that differs from Meta's always has an
\* approval of Meta's amount that is not CONSUMED, whichever of the call, its
\* answer and the transaction after it failed (decideBudgetChange).
THEOREM DriftHasEvidenceAlways == OneRequest /\ Spec => []DriftHasEvidence
<1>1. SerialInvariant => DriftHasEvidence
  BY DEF SerialInvariant
<1> QED BY <1>1, SerialAlways, PTL

\* Served one at a time, applying a recommendation again opens no second
\* approval: apply refuses what is not NEW, and nothing makes it NEW again.
THEOREM OneApprovalAlways == OneRequest /\ Spec => []OneApprovalPerRecommendation
<1>1. SerialInvariant => OneApprovalPerRecommendation
  BY DEF SerialInvariant
<1> QED BY <1>1, SerialAlways, PTL
=============================================================================
