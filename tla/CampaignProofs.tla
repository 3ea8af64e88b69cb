---------------------------- MODULE CampaignProofs ----------------------------
(***************************************************************************)
(* Theorems about CampaignApproval, for any number of requests, approvals, *)
(* runs, users and contents and any size of a plan: type correctness, the  *)
(* invariant behind the approval gate and what follows from it, and that   *)
(* the services implement PublishGate; then, for requests served one after *)
(* the other, the status of the campaign and the single-use gate.          *)
(***************************************************************************)
EXTENDS CampaignInvariants, TLAPS

-----------------------------------------------------------------------------
(* Type correctness.  TypeOK is not inductive: what a handler writes comes  *)
(* from its slot, so the slot must hold the values its program counter      *)
(* promises.                                                                *)

LEMMA TypeInit == Init => TypeOK
<1>1. NoApproval \in ApprovalRows
  BY DEF NoApproval, ApprovalRows, ApprovalStatus
<1>2. NoTree \in EntityTrees
  BY SizeAssumption DEF NoTree, EntityTrees
<1>3. Idle \in Slots
  BY SizeAssumption DEF Idle, Slots, PC
<1>4. [exists |-> TRUE, status |-> "DRAFT", content |-> NoAds, metaCampaign |-> None]
        \in CampaignRows
  BY ContentAssumption DEF CampaignRows, CampaignStatus
<1> QED BY <1>1, <1>2, <1>3, <1>4 DEF Init, TypeOK

\* A field at a time: what may be written into a row, a tree or a slot.
LEMMA PlanType ==
  ASSUME NEW c \in Contents, NEW x \in Accounts
  PROVE  PlanOf(c, x) \in Plans
BY DEF PlanOf, Plans, Connections

LEMMA CampaignFields ==
  ASSUME NEW c \in CampaignRows
  PROVE  /\ \A v \in CampaignStatus : [c EXCEPT !.status = v] \in CampaignRows
         /\ \A v \in Contents : [c EXCEPT !.content = v] \in CampaignRows
         /\ \A v \in Runs : [c EXCEPT !.metaCampaign = v] \in CampaignRows
BY DEF CampaignRows

LEMMA ApprovalFields ==
  ASSUME NEW a \in ApprovalRows
  PROVE  /\ \A v \in ApprovalStatus : [a EXCEPT !.status = v] \in ApprovalRows
         /\ \A v \in Plans \cup {None} : [a EXCEPT !.plan = v] \in ApprovalRows
         /\ \A v \in Writers \cup {None} : [a EXCEPT !.requester = v] \in ApprovalRows
         /\ \A v \in Approvers \cup {None} : [a EXCEPT !.decider = v] \in ApprovalRows
         /\ [a EXCEPT !.consumed = TRUE] \in ApprovalRows
BY DEF ApprovalRows

LEMMA TreeFields ==
  ASSUME NEW t \in EntityTrees
  PROVE  /\ \A v \in 0 .. Size : [t EXCEPT !.built = v] \in EntityTrees
         /\ \A v \in SUBSET Entities : [t EXCEPT !.active = v] \in EntityTrees
BY DEF EntityTrees

LEMMA SlotFields ==
  ASSUME NEW s \in Slots
  PROVE  /\ \A v \in PC : [s EXCEPT !.pc = v] \in Slots
         /\ \A v \in Writers \cup Approvers : [s EXCEPT !.user = v] \in Slots
         /\ \A v \in Approvals : [s EXCEPT !.approval = v] \in Slots
         /\ \A v \in Verdicts \cup {None} : [s EXCEPT !.verdict = v] \in Slots
         /\ \A v \in Plans : [s EXCEPT !.plan = v] \in Slots
         /\ \A v \in Runs : [s EXCEPT !.run = v] \in Slots
         /\ \A v \in 0 .. 2 * Size : [s EXCEPT !.step = v] \in Slots
         /\ \A v \in SUBSET Approvals : [s EXCEPT !.seen = v] \in Slots
BY DEF Slots

LEMMA IdleType == Idle \in Slots
BY SizeAssumption DEF Idle, Slots, PC

LEMMA PCValues ==
  /\ "idle" \in PC /\ "bundle" \in PC /\ "supersede" \in PC
  /\ "request" \in PC /\ "count" \in PC /\ "decide" \in PC
  /\ "follow" \in PC /\ "find" \in PC /\ "verify" \in PC
  /\ "account" \in PC /\ "consume" \in PC /\ "context" \in PC
  /\ "call" \in PC /\ "save" \in PC /\ "finish" \in PC
  /\ "fail" \in PC /\ "pauseAccount" \in PC /\ "pauseCall" \in PC
  /\ "pauseSave" \in PC /\ "write" \in PC /\ "delete" \in PC
BY DEF PC

LEMMA CampaignStatusValues ==
  /\ "DRAFT" \in CampaignStatus /\ "PENDING_APPROVAL" \in CampaignStatus /\ "APPROVED" \in CampaignStatus
  /\ "PUBLISHING" \in CampaignStatus /\ "PUBLISHED" \in CampaignStatus
  /\ "PAUSED" \in CampaignStatus /\ "ERROR" \in CampaignStatus
BY DEF CampaignStatus

LEMMA ApprovalStatusValues ==
  /\ "ABSENT" \in ApprovalStatus /\ "PENDING" \in ApprovalStatus /\ "APPROVED" \in ApprovalStatus
  /\ "REJECTED" \in ApprovalStatus /\ "EXPIRED" \in ApprovalStatus /\ "CONSUMED" \in ApprovalStatus
BY DEF ApprovalStatus

\* The slot a handler moves to: well formed, whatever it held before.
LEMMA Moves ==
  ASSUME req \in [Requests -> GoodSlots], NEW r \in Requests
  PROVE  /\ \A s \in GoodSlots : Become(r, s) => req' \in [Requests -> GoodSlots]
         /\ Return(r) => req' \in [Requests -> GoodSlots]
<1>1. ASSUME NEW s \in GoodSlots, Become(r, s)
      PROVE  req' \in [Requests -> GoodSlots]
  BY <1>1 DEF Become
<1>2. Idle \in GoodSlots
  BY IdleType DEF GoodSlots, WellFormed, Idle, Requesting, Deciding, Spending,
     Calling, Pausing
<1> QED BY <1>1, <1>2 DEF Return

\* Steps whose only effect on the slot is the program counter.
Follows(from, to) ==
  <<from, to>> \in {<<"count", "decide">>, <<"account", "consume">>,
                    <<"consume", "context">>, <<"call", "finish">>,
                    <<"save", "finish">>, <<"call", "fail">>, <<"save", "fail">>,
                    <<"finish", "fail">>, <<"pauseAccount", "pauseCall">>,
                    <<"pauseCall", "pauseSave">>}

LEMMA GotoType ==
  ASSUME req \in [Requests -> GoodSlots], NEW r \in Requests, NEW pc \in PC,
         Follows(req[r].pc, pc), Goto(r, pc)
  PROVE  req' \in [Requests -> GoodSlots]
<1>1. req[r] \in GoodSlots
  OBVIOUS
<1>2. [req[r] EXCEPT !.pc = pc] \in GoodSlots
  BY <1>1 DEF Follows, GoodSlots, Slots, WellFormed, Requesting, Deciding, Spending,
     Calling, Pausing
<1> QED BY <1>2, Moves DEF Goto

LEMMA AdvanceType ==
  ASSUME req \in [Requests -> GoodSlots], NEW r \in Requests, Advance(r),
         req[r].pc \in {"call", "save"}
  PROVE  req' \in [Requests -> GoodSlots]
<1>1. CASE req[r].step = PlanLength
  BY <1>1, GotoType, PCValues DEF Advance, Follows
<1>2. CASE req[r].step # PlanLength
  <2>1. req[r] \in GoodSlots
    OBVIOUS
  <2>2. req[r].step + 1 \in 1 .. 2 * Size
    BY <1>2, <2>1, SizeAssumption DEF PlanLength, GoodSlots, WellFormed
  <2>3. [req[r] EXCEPT !.pc = "call", !.step = @ + 1] \in GoodSlots
    <3>1. req[r].step + 1 \in 0 .. 2 * Size
      BY <2>2
    <3>2. [req[r] EXCEPT !.pc = "call", !.step = @ + 1] \in Slots
      BY <2>1, <3>1, SlotFields, PCValues DEF GoodSlots
    <3> QED BY <2>1, <2>2, <3>2
        DEF GoodSlots, Slots, WellFormed, Requesting, Deciding, Spending, Calling, Pausing
  <2> QED BY <1>2, <2>3, Moves DEF Advance
<1> QED BY <1>1, <1>2

LEMMA NewApprovalType ==
  ASSUME NEW p \in Plans, NEW u \in Writers
  PROVE  NewApproval(p, u) \in ApprovalRows
BY DEF NewApproval, NoApproval, ApprovalRows, ApprovalStatus

LEMMA ConsumedType ==
  ASSUME NEW a \in ApprovalRows
  PROVE  Consumed(a) \in ApprovalRows
BY DEF Consumed, ApprovalRows, ApprovalStatus

LEMMA EffectType ==
  ASSUME NEW t \in EntityTrees, NEW r \in Requests, req[r] \in Slots,
         req[r].step \in 1 .. PlanLength
  PROVE  Effect(t, r) \in EntityTrees
<1> DEFINE k == req[r].step
<1>1. k \in 1 .. 2 * Size /\ Size \in Nat
  BY SizeAssumption DEF PlanLength
<1>2. CASE k > Size
  <2>1. k - Size \in Entities
    BY <1>1, <1>2 DEF Entities
  <2> QED BY <1>1, <1>2, <2>1 DEF Effect, PlanStep, EntityTrees
<1>3. CASE k = 1 /\ k <= Size
  BY <1>3, SizeAssumption DEF Effect, PlanStep, EntityTrees, Slots
<1>4. CASE k # 1 /\ k <= Size
  BY <1>1, <1>4, TreeFields DEF Effect, PlanStep
<1> QED BY <1>1, <1>2, <1>3, <1>4

LEMMA TypedUserRequest ==
  ASSUME Typed, NEW r \in Requests, UserRequest(r)
  PROVE  Typed'
<1> USE IdleType, PCValues DEF Typed, TypeOK, dbVars, Start, GoodSlots
<1>1. ASSUME NEW u \in Writers, NEW a \in Approvals, RequestApproval(r, u, a)
      PROVE  Typed'
  <2>1. [Idle EXCEPT !.pc = "bundle", !.user = u, !.approval = a] \in GoodSlots
    BY SlotFields DEF Idle, WellFormed, Requesting, Deciding, Spending, Calling, Pausing
  <2> QED BY <1>1, <2>1, Moves DEF RequestApproval
<1>2. ASSUME NEW u \in Approvers, NEW a \in Approvals,
             NEW v \in Verdicts, Decide(r, u, a, v)
      PROVE  Typed'
  <2>1. \A pc \in Deciding :
          [Idle EXCEPT !.pc = pc, !.user = u, !.approval = a, !.verdict = v] \in GoodSlots
    <3> TAKE pc \in Deciding
    <3>1. [Idle EXCEPT !.pc = pc, !.user = u, !.approval = a, !.verdict = v] \in Slots
      BY SlotFields DEF Deciding
    <3> QED BY <3>1, NoneAssumption DEF Idle, WellFormed, Requesting, Deciding, Spending, Calling, Pausing
  <2> QED BY <1>2, <2>1, Moves DEF Decide, Deciding
<1>3. ASSUME NEW m \in Runs, Publish(r, m)
      PROVE  Typed'
  <2>1. [Idle EXCEPT !.pc = "find", !.run = m] \in GoodSlots
    BY SlotFields DEF Idle, WellFormed, Requesting, Deciding, Spending, Calling, Pausing
  <2> QED BY <1>3, <2>1, Moves DEF Publish
<1>4. CASE Pause(r)
  <2>1. campaign.metaCampaign \in Runs
    BY <1>4 DEF Pause, CampaignRows
  <2>2. [Idle EXCEPT !.pc = "pauseAccount", !.run = campaign.metaCampaign] \in GoodSlots
    BY <2>1, SlotFields DEF Idle, WellFormed, Requesting, Deciding, Spending, Calling, Pausing
  <2> QED BY <1>4, <2>2, Moves DEF Pause
<1>5. CASE Update(r) \/ Remove(r)
  <2>1. \A pc \in {"write", "delete"} : [Idle EXCEPT !.pc = pc] \in GoodSlots
    BY SlotFields DEF Idle, WellFormed, Requesting, Deciding, Spending, Calling, Pausing
  <2> QED BY <1>5, <2>1, Moves DEF Update, Remove
<1> QED BY <1>1, <1>2, <1>3, <1>4, <1>5 DEF UserRequest

LEMMA TypedServe ==
  ASSUME Typed, NEW r \in Requests, Serve(r)
  PROVE  Typed'
<1> USE PCValues, Moves DEF Typed, TypeOK, dbVars, At
<1>0. /\ req[r] \in GoodSlots /\ req[r] \in Slots /\ WellFormed(req[r])
      /\ req' \in [Requests -> GoodSlots] => req' \in [Requests -> Slots]
  BY DEF GoodSlots
<1>1. CASE RequestBundle(r)
  <2>1. ASSUME NEW x \in selected
        PROVE  [req[r] EXCEPT !.pc = "supersede", !.plan = PlanOf(campaign.content, x)]
                 \in GoodSlots
    BY <1>0, <1>1, <2>1, PlanType
    DEF RequestBundle, CampaignRows, GoodSlots, Slots, WellFormed, Requesting, Deciding, Spending, Calling, Pausing
  <2> QED BY <1>0, <1>1, <2>1 DEF RequestBundle
<1>2. CASE RequestSupersede(r)
  <2>1. [req[r] EXCEPT !.pc = "request", !.seen = Superseded] \in GoodSlots
    BY <1>0, <1>2
    DEF RequestSupersede, Superseded, GoodSlots, Slots, WellFormed, Requesting, Deciding, Spending, Calling, Pausing
  <2> QED BY <1>0, <1>2, <2>1 DEF RequestSupersede
<1>3. CASE RequestCommit(r)
  <2>1. NewApproval(req[r].plan, req[r].user) \in ApprovalRows
    BY <1>0, <1>3, NewApprovalType DEF RequestCommit, WellFormed, Requesting
  <2>2. approvals' \in [Approvals -> ApprovalRows]
    <3>1. \A a \in Approvals : [approvals[a] EXCEPT !.status = "EXPIRED"] \in ApprovalRows
      BY ApprovalFields, ApprovalStatusValues
    <3> QED BY <1>3, <2>1, <3>1 DEF RequestCommit
  <2>3. campaign' \in CampaignRows
    BY <1>3, CampaignFields, CampaignStatusValues DEF RequestCommit
  <2> QED BY <1>0, <1>3, <2>2, <2>3 DEF RequestCommit
<1>4. CASE DecideCount(r)
  BY <1>0, <1>4, GotoType DEF DecideCount, Follows
<1>5. CASE DecideWrite(r)
  <2> DEFINE a == req[r].approval
  <2>1. /\ a \in Approvals /\ req[r].user \in Approvers
        /\ req[r].verdict \in Verdicts
    BY <1>0, <1>5 DEF DecideWrite, WellFormed, Deciding, Slots
  <2>2. [Idle EXCEPT !.pc = "follow", !.verdict = req[r].verdict] \in GoodSlots
    BY <2>1, SlotFields, IdleType DEF Idle, GoodSlots, WellFormed, Requesting, Deciding, Spending, Calling, Pausing
  <2>3. approvals' \in [Approvals -> ApprovalRows]
    <3>1. [approvals[a] EXCEPT !.status = req[r].verdict, !.decider = req[r].user]
            \in ApprovalRows
      BY <2>1, ApprovalFields, ApprovalStatusValues DEF Verdicts
    <3>2. approvals' = [approvals EXCEPT ![a] =
             [approvals[a] EXCEPT !.status = req[r].verdict, !.decider = req[r].user]]
      BY <1>5, <2>1 DEF DecideWrite
    <3> QED BY <3>1, <3>2
  <2> QED BY <1>0, <1>5, <2>1, <2>2, <2>3 DEF DecideWrite, Decided
<1>6. CASE DecideFollow(r)
  BY <1>0, <1>6, CampaignFields, CampaignStatusValues DEF DecideFollow
<1>7. CASE PublishFind(r)
  <2>1. \A a \in Approvals : [req[r] EXCEPT !.pc = "verify", !.approval = a] \in GoodSlots
    BY <1>0, <1>7
    DEF PublishFind, GoodSlots, Slots, WellFormed, Requesting, Deciding, Spending, Calling, Pausing
  <2> QED BY <1>0, <1>7, <2>1 DEF PublishFind
<1>8. CASE PublishVerify(r)
  <2>1. ASSUME NEW x \in selected
        PROVE  [req[r] EXCEPT !.pc = "account", !.plan = PlanOf(campaign.content, x)]
                 \in GoodSlots
    BY <1>0, <1>8, <2>1, PlanType
    DEF PublishVerify, CampaignRows, GoodSlots, Slots, WellFormed, Requesting, Deciding, Spending, Calling, Pausing
  <2> QED BY <1>0, <1>8, <2>1 DEF PublishVerify
<1>9. CASE PublishAccount(r)
  BY <1>0, <1>9, GotoType DEF PublishAccount, Follows
<1>10. CASE PublishConsume(r)
  <2>1. req[r].approval \in Approvals
    BY <1>0, <1>10 DEF PublishConsume, WellFormed, Spending
  <2>2. approvals' \in [Approvals -> ApprovalRows]
    BY <1>10, <2>1, ConsumedType DEF PublishConsume
  <2>3. campaign' \in CampaignRows
    BY <1>10, CampaignFields, CampaignStatusValues DEF PublishConsume, StartedStatus
  <2>4. req' \in [Requests -> GoodSlots]
    BY <1>0, <1>10, GotoType DEF PublishConsume, Follows
  <2> QED BY <1>0, <1>10, <2>2, <2>3, <2>4 DEF PublishConsume
<1>11. CASE PublishContext(r)
  <2>1. [req[r] EXCEPT !.pc = "call", !.step = 1] \in GoodSlots
    <3>1. 1 \in 1 .. 2 * Size /\ 1 \in 0 .. 2 * Size
      BY SizeAssumption
    <3>2. [req[r] EXCEPT !.pc = "call", !.step = 1] \in Slots
      BY <1>0, <3>1, SlotFields
    <3> QED BY <1>0, <1>11, <3>1, <3>2
        DEF PublishContext, GoodSlots, Slots, WellFormed, Requesting, Deciding, Spending, Calling, Pausing
  <2> QED BY <1>0, <1>11, <2>1 DEF PublishContext
<1>12. CASE PublishCall(r)
  <2>1. /\ req[r].run \in Runs
        /\ req[r].step \in 1 .. PlanLength
    BY <1>0, <1>12 DEF PublishCall, WellFormed, Calling, PlanLength
  <2>2. meta' \in [Runs -> EntityTrees]
    BY <1>0, <1>12, <2>1, EffectType DEF PublishCall
  <2>3. ASSUME PlanStep(req[r].step).action = "create", Goto(r, "save")
        PROVE  req' \in [Requests -> GoodSlots]
    <3>1. req[r].step \in 1 .. Size
      BY <2>1, <2>3, SizeAssumption DEF PlanStep, PlanLength
    <3>2. [req[r] EXCEPT !.pc = "save"] \in GoodSlots
      BY <1>0, <1>12, <3>1
      DEF PublishCall, GoodSlots, Slots, WellFormed, Requesting, Deciding, Spending, Calling, Pausing
    <3> QED BY <2>3, <3>2 DEF Goto
  <2>4. req' \in [Requests -> GoodSlots]
    BY <1>0, <1>12, <2>3, AdvanceType, GotoType DEF PublishCall, Follows
  <2> QED BY <1>0, <1>12, <2>2, <2>4 DEF PublishCall
<1>13. CASE PublishSave(r)
  <2>1. campaign' \in CampaignRows
    BY <1>0, <1>13, CampaignFields DEF PublishSave, WellFormed, Calling
  <2>2. req' \in [Requests -> GoodSlots]
    BY <1>0, <1>13, AdvanceType, GotoType DEF PublishSave, Follows
  <2> QED BY <1>0, <1>13, <2>1, <2>2 DEF PublishSave
<1>14. CASE PublishFinish(r)
  <2>1. campaign' \in CampaignRows
    BY <1>14, CampaignFields, CampaignStatusValues DEF PublishFinish
  <2> QED BY <1>0, <1>14, <2>1, GotoType DEF PublishFinish, Follows
<1>15. CASE PublishFail(r)
  BY <1>0, <1>15, CampaignFields, CampaignStatusValues DEF PublishFail, FailedStatus
<1>16. CASE PauseAccount(r)
  BY <1>0, <1>16, GotoType DEF PauseAccount, Follows
<1>17. CASE PauseCall(r)
  <2>1. req[r].run \in Runs
    BY <1>0, <1>17 DEF PauseCall, WellFormed, Pausing
  <2>2. \A t \in EntityTrees : [t EXCEPT !.active = @ \ {1}] \in EntityTrees
    BY DEF EntityTrees
  <2>3. meta' \in [Runs -> EntityTrees]
    BY <1>17, <2>1, <2>2 DEF PauseCall
  <2> QED BY <1>0, <1>17, <2>3, GotoType DEF PauseCall, Follows
<1>18. CASE PauseSave(r)
  BY <1>0, <1>18, CampaignFields, CampaignStatusValues DEF PauseSave
<1>19. CASE UpdateWrite(r)
  <2>1. campaign' \in CampaignRows
    BY <1>19, ContentAssumption, CampaignFields DEF UpdateWrite, Rewritten
  <2> QED BY <1>0, <1>19, <2>1 DEF UpdateWrite
<1>20. CASE RemoveWrite(r)
  <2>1. campaign' \in CampaignRows
    BY <1>20, ContentAssumption, CampaignStatusValues DEF RemoveWrite, CampaignRows
  <2> QED BY <1>0, <1>20, <2>1 DEF RemoveWrite
<1> QED
  BY <1>1, <1>2, <1>3, <1>4, <1>5, <1>6, <1>7, <1>8, <1>9, <1>10, <1>11, <1>12,
     <1>13, <1>14, <1>15, <1>16, <1>17, <1>18, <1>19, <1>20 DEF Serve

LEMMA TypedNext == Typed /\ [Next]_vars => Typed'
<1> SUFFICES ASSUME Typed, [Next]_vars PROVE Typed'
  OBVIOUS
<1>1. ASSUME NEW r \in Requests, UserRequest(r) PROVE Typed'
  BY <1>1, TypedUserRequest
<1>2. ASSUME NEW r \in Requests, Serve(r) PROVE Typed'
  BY <1>2, TypedServe
<1>3. ASSUME NEW r \in Requests, Crash(r) PROVE Typed'
  BY <1>3, Moves DEF Crash, Typed, TypeOK, GoodSlots, dbVars
<1>4. CASE Surroundings
  BY <1>4, CampaignFields DEF Surroundings, ContentChange, SelectAdAccount, OfConnection, Typed, TypeOK
<1>5. CASE UNCHANGED vars
  BY <1>5 DEF vars, dbVars, Typed, TypeOK
<1> QED BY <1>1, <1>2, <1>3, <1>4, <1>5 DEF Next

LEMMA TypedInit == Init => Typed
<1>1. Idle \in GoodSlots
  BY IdleType DEF Idle, GoodSlots, WellFormed, Requesting, Deciding, Spending, Calling, Pausing
<1> QED BY <1>1, TypeInit DEF Init, Typed

LEMMA TypedAlways == Spec => []Typed
<1> QED BY TypedInit, TypedNext, PTL DEF Spec

\* Every row, tree and request slot keeps its type, whatever the interleaving:
\* no handler writes a value its slot does not hold yet (the schema's status
\* enums and the non-null columns of Approval are respected).
THEOREM TypeCorrect == Spec => []TypeOK
<1>1. Typed => TypeOK
  BY DEF Typed
<1> QED BY <1>1, TypedAlways, PTL

-----------------------------------------------------------------------------
(* Which steps touch which variables.                                      *)

LEMMA RowWriters ==
  ASSUME [Next]_vars
  PROVE  \/ \E r \in Requests : RequestCommit(r) \/ DecideWrite(r) \/ PublishConsume(r)
         \/ UNCHANGED <<approvals, granted>>
<1>1. ASSUME NEW r \in Requests, UserRequest(r)
      PROVE  UNCHANGED <<approvals, granted>>
  BY <1>1 DEF UserRequest, RequestApproval, Decide, Publish, Pause, Update, Remove, dbVars
<1>2. ASSUME NEW r \in Requests, Serve(r),
             ~RequestCommit(r), ~DecideWrite(r), ~PublishConsume(r)
      PROVE  UNCHANGED <<approvals, granted>>
  BY <1>2 DEF Serve, RequestBundle, RequestSupersede, DecideCount, DecideFollow,
     PublishFind, PublishVerify, PublishAccount, PublishContext, PublishCall,
     PublishSave, PublishFinish, PublishFail, PauseAccount, PauseCall, PauseSave,
     UpdateWrite, RemoveWrite, dbVars
<1>3. ASSUME NEW r \in Requests, Crash(r)
      PROVE  UNCHANGED <<approvals, granted>>
  BY <1>3 DEF Crash, dbVars
<1>4. CASE Surroundings
  BY <1>4 DEF Surroundings, ContentChange, SelectAdAccount
<1>5. CASE UNCHANGED vars
  BY <1>5 DEF vars, dbVars
<1> QED BY <1>1, <1>2, <1>3, <1>4, <1>5 DEF Next

LEMMA TreeWriters ==
  ASSUME [Next]_vars
  PROVE  \/ \E r \in Requests : PublishCall(r) \/ PauseCall(r)
         \/ UNCHANGED meta
<1>1. ASSUME NEW r \in Requests, UserRequest(r)
      PROVE  UNCHANGED meta
  BY <1>1 DEF UserRequest, RequestApproval, Decide, Publish, Pause, Update, Remove
<1>2. ASSUME NEW r \in Requests, Serve(r), ~PublishCall(r), ~PauseCall(r)
      PROVE  UNCHANGED meta
  BY <1>2 DEF Serve, RequestBundle, RequestSupersede, RequestCommit, DecideCount,
     DecideWrite, DecideFollow, PublishFind, PublishVerify, PublishAccount,
     PublishConsume, PublishContext, PublishSave, PublishFinish, PublishFail,
     PauseAccount, PauseSave, UpdateWrite, RemoveWrite
<1>3. ASSUME NEW r \in Requests, Crash(r)
      PROVE  UNCHANGED meta
  BY <1>3 DEF Crash
<1>4. CASE Surroundings
  BY <1>4 DEF Surroundings, ContentChange, SelectAdAccount
<1>5. CASE UNCHANGED vars
  BY <1>5 DEF vars
<1> QED BY <1>1, <1>2, <1>3, <1>4, <1>5 DEF Next

\* A slot is changed by its own request only.
LEMMA SlotOwner ==
  ASSUME req \in [Requests -> GoodSlots], [Next]_vars,
         NEW q \in Requests, req'[q] # req[q]
  PROVE  UserRequest(q) \/ Serve(q) \/ Crash(q)
<1>1. ASSUME NEW r \in Requests, r # q, NEW s, Become(r, s)
      PROVE  FALSE
  BY <1>1 DEF Become
<1>2. ASSUME NEW r \in Requests, r # q, UserRequest(r)
      PROVE  FALSE
  BY <1>1, <1>2 DEF UserRequest, RequestApproval, Decide, Publish, Pause, Update,
     Remove, Start
<1>3. ASSUME NEW r \in Requests, r # q, Serve(r)
      PROVE  FALSE
  BY <1>1, <1>3 DEF Serve, RequestBundle, RequestSupersede, RequestCommit, DecideCount,
     DecideWrite, DecideFollow, PublishFind, PublishVerify, PublishAccount,
     PublishConsume, PublishContext, PublishCall, PublishSave, PublishFinish,
     PublishFail, PauseAccount, PauseCall, PauseSave, UpdateWrite, RemoveWrite,
     Goto, Return, Advance
<1>4. ASSUME NEW r \in Requests, r # q, Crash(r)
      PROVE  FALSE
  BY <1>1, <1>4 DEF Crash, Return
<1>5. CASE Surroundings
  BY <1>5 DEF Surroundings, ContentChange, SelectAdAccount
<1>6. CASE UNCHANGED vars
  BY <1>6 DEF vars
<1> QED BY <1>2, <1>3, <1>4, <1>5, <1>6 DEF Next

-----------------------------------------------------------------------------
(* Approval rows.                                                          *)

\* What no step takes back from a row that exists.
Stable(row, new) ==
  row.status # "ABSENT" =>
    /\ new.status # "ABSENT"
    /\ new.plan = row.plan
    /\ new.requester = row.requester
    /\ row.consumed => new.consumed

LEMMA RowUpdates ==
  ASSUME NEW row \in ApprovalRows
  PROVE  /\ Stable(row, row)
         /\ Stable(row, [row EXCEPT !.status = "EXPIRED"])
         /\ \A v \in Verdicts, u \in Approvers : \A new :
              new = [row EXCEPT !.status = v, !.decider = u] => Stable(row, new)
         /\ Stable(row, Consumed(row))
<1>1. Stable(row, row) /\ Stable(row, [row EXCEPT !.status = "EXPIRED"])
  BY DEF Stable, ApprovalRows
<1>2. ASSUME NEW v \in Verdicts, NEW u \in Approvers
      PROVE  Stable(row, [row EXCEPT !.status = v, !.decider = u])
  <2>1. v # "ABSENT"
    BY DEF Verdicts
  <2> QED BY <2>1 DEF Stable, ApprovalRows
<1>3. Stable(row, Consumed(row))
  BY DEF Stable, ApprovalRows, Consumed
<1> QED BY <1>1, <1>2, <1>3

LEMMA RowsStable ==
  ASSUME GateInvariant, [Next]_vars
  PROVE  /\ \A a \in Approvals : Stable(approvals[a], approvals'[a])
         /\ granted \subseteq granted'
<1> USE DEF GateInvariant, Typed, TypeOK
<1>1. ASSUME NEW r \in Requests, RequestCommit(r), NEW a \in Approvals
      PROVE  Stable(approvals[a], approvals'[a])
  <2>1. CASE a = req[r].approval
    <3>1. approvals[a].status = "ABSENT"
      BY <1>1, <2>1 DEF RequestCommit, At, SlotMatches, Requesting
    <3> QED BY <3>1 DEF Stable
  <2>2. CASE a # req[r].approval
    BY <1>1, <2>2, RowUpdates DEF RequestCommit
  <2> QED BY <2>1, <2>2
<1>2. ASSUME NEW r \in Requests, DecideWrite(r), NEW a \in Approvals
      PROVE  Stable(approvals[a], approvals'[a])
  <2>1. req[r].verdict \in Verdicts /\ req[r].user \in Approvers
    BY <1>2 DEF DecideWrite, At, GoodSlots, Slots, WellFormed, Deciding
  <2>2. CASE a = req[r].approval
    <3>1. approvals'[a] =
            [approvals[a] EXCEPT !.status = req[r].verdict, !.decider = req[r].user]
      BY <1>2, <2>2 DEF DecideWrite
    <3> QED BY <2>1, <3>1, RowUpdates
  <2>3. CASE a # req[r].approval
    BY <1>2, <2>3, RowUpdates DEF DecideWrite
  <2> QED BY <2>2, <2>3
<1>3. ASSUME NEW r \in Requests, PublishConsume(r), NEW a \in Approvals
      PROVE  Stable(approvals[a], approvals'[a])
  <2>1. approvals'[a] = approvals[a] \/ approvals'[a] = Consumed(approvals[a])
    BY <1>3 DEF PublishConsume
  <2> QED BY <2>1, RowUpdates
<1>4. UNCHANGED approvals => \A a \in Approvals : Stable(approvals[a], approvals'[a])
  BY DEF Stable
<1>5. granted \subseteq granted'
  BY RowWriters DEF RequestCommit, DecideWrite, PublishConsume
<1> QED BY <1>1, <1>2, <1>3, <1>4, <1>5, RowWriters

\* The id reserved by a request stays free until that request inserts it.
LEMMA AbsentStays ==
  ASSUME GateInvariant, [Next]_vars, NEW q \in Requests,
         req[q].pc \in Requesting, req'[q] = req[q]
  PROVE  approvals'[req[q].approval].status = "ABSENT"
<1> USE DEF GateInvariant, Typed, TypeOK
<1>1. /\ req[q].approval \in Approvals
      /\ approvals[req[q].approval].status = "ABSENT"
  BY DEF GoodSlots, WellFormed, SlotMatches
<1>2. ASSUME NEW r \in Requests, RequestCommit(r)
      PROVE  approvals'[req[q].approval].status = "ABSENT"
  <2>1. r # q
    <3>1. CASE r = q
      <4>1. req'[q] = Idle
        BY <1>2, <3>1 DEF RequestCommit, Return, Become
      <4> QED BY <4>1 DEF Idle, Requesting
    <3> QED BY <3>1
  <2>2. req[q].approval # req[r].approval
    BY <2>1 DEF IdsReserved
  <2> QED BY <1>1, <1>2, <2>2 DEF RequestCommit
<1>3. ASSUME NEW r \in Requests, DecideWrite(r)
      PROVE  approvals'[req[q].approval].status = "ABSENT"
  <2>1. approvals[req[r].approval].status # "ABSENT"
    BY <1>3 DEF DecideWrite, At, SlotMatches, Deciding
  <2> QED BY <1>1, <1>3, <2>1 DEF DecideWrite
<1>4. ASSUME NEW r \in Requests, PublishConsume(r)
      PROVE  approvals'[req[q].approval].status = "ABSENT"
  <2>1. /\ req[r].approval \in Approvals
        /\ req[r].approval \in granted
    BY <1>4 DEF PublishConsume, At, SlotMatches, Spending, GoodSlots, WellFormed
  <2>2. approvals[req[r].approval].status # "ABSENT"
    BY <2>1 DEF RowMatches
  <2> QED BY <1>1, <1>4, <2>2 DEF PublishConsume
<1> QED BY <1>1, <1>2, <1>3, <1>4, RowWriters

-----------------------------------------------------------------------------
(* What a slot knows of the approvals.                                     *)

\* Nothing is known at the other program counters.
LEMMA NothingKnown ==
  ASSUME NEW s, NEW rows, NEW ok, s.pc \notin Requesting \cup Deciding \cup Spending \cup Calling
  PROVE  SlotMatches(s, rows, ok)
BY DEF SlotMatches, Deciding, Verified, Spending, Calling, Spent

\* A slot that does not move keeps what it knows.
LEMMA SlotFrame ==
  ASSUME NEW s \in GoodSlots, NEW rows, NEW new, NEW ok, NEW ok2,
         SlotMatches(s, rows, ok),
         \A a \in Approvals : Stable(rows[a], new[a]),
         \A a \in ok \cap Approvals : rows[a].status # "ABSENT",
         ok \subseteq ok2,
         s.pc \in Requesting => new[s.approval].status = "ABSENT"
  PROVE  SlotMatches(s, new, ok2)
<1>1. s.pc \in Deciding \cup Spending \cup Calling =>
        /\ s.approval \in Approvals
        /\ rows[s.approval].status # "ABSENT"
  BY DEF GoodSlots, WellFormed, SlotMatches
<1> QED BY <1>1 DEF SlotMatches, Stable, Verified, Spent, Deciding, Spending, Calling

LEMMA SlotsKeep ==
  ASSUME GateInvariant, [Next]_vars, NEW q \in Requests, req'[q] = req[q]
  PROVE  SlotMatches(req'[q], approvals', granted')
<1>1. req[q] \in GoodSlots /\ SlotMatches(req[q], approvals, granted)
  BY DEF GateInvariant, Typed
<1>2. \A a \in granted \cap Approvals : approvals[a].status # "ABSENT"
  BY DEF GateInvariant, RowMatches
<1>3. req[q].pc \in Requesting => approvals'[req[q].approval].status = "ABSENT"
  BY AbsentStays
<1> HIDE DEF GateInvariant
<1>4. SlotMatches(req[q], approvals', granted')
  BY <1>1, <1>2, <1>3, SlotFrame, RowsStable
<1> QED BY <1>4

LEMMA SlotsMove ==
  ASSUME GateInvariant, [Next]_vars, NEW q \in Requests,
         UserRequest(q) \/ Serve(q) \/ Crash(q)
  PROVE  SlotMatches(req'[q], approvals', granted')
<1> USE DEF dbVars, At
<1>0. /\ req \in [Requests -> GoodSlots]
      /\ req[q] \in GoodSlots /\ req[q] \in Slots /\ WellFormed(req[q])
      /\ SlotMatches(req[q], approvals, granted)
  BY DEF GateInvariant, Typed, GoodSlots
<1>1. ASSUME NEW s, Become(q, s)
      PROVE  req'[q] = s
  BY <1>0, <1>1 DEF Become
<1>2. ASSUME NEW s, Become(q, s),
             s.pc \notin Requesting \cup Deciding \cup Spending \cup Calling
      PROVE  SlotMatches(req'[q], approvals', granted')
  BY <1>1, <1>2, NothingKnown
<1>3. ASSUME Return(q)
      PROVE  SlotMatches(req'[q], approvals', granted')
  <2>1. Idle.pc \notin Requesting \cup Deciding \cup Spending \cup Calling
    BY DEF Idle, Requesting, Deciding, Spending, Calling
  <2> QED BY <1>2, <1>3, <2>1 DEF Return
<1>4. ASSUME NEW pc \in {"fail", "pauseCall", "pauseSave"}, Goto(q, pc)
      PROVE  SlotMatches(req'[q], approvals', granted')
  <2>1. [req[q] EXCEPT !.pc = pc].pc \notin Requesting \cup Deciding \cup Spending \cup Calling
    BY <1>0, <1>4 DEF Slots, Requesting, Deciding, Spending, Calling
  <2> QED BY <1>2, <1>4, <2>1 DEF Goto
<1>5. CASE \E u \in Writers, a \in Approvals : RequestApproval(q, u, a)
  <2>1. PICK u \in Writers, a \in Approvals : RequestApproval(q, u, a)
    BY <1>5
  <2>2. req'[q] = [Idle EXCEPT !.pc = "bundle", !.user = u, !.approval = a]
    BY <1>1, <2>1 DEF RequestApproval, Start
  <2>3. approvals'[a].status = "ABSENT"
    BY <2>1 DEF RequestApproval, FreshApproval
  <2> QED BY <2>2, <2>3
      DEF SlotMatches, Idle, Requesting, Deciding, Spending, Calling, Verified, Spent
<1>6. CASE \E u \in Approvers, a \in Approvals, v \in Verdicts : Decide(q, u, a, v)
  <2>1. PICK u \in Approvers, a \in Approvals, v \in Verdicts : Decide(q, u, a, v)
    BY <1>6
  <2> DEFINE self == v = "APPROVED" /\ approvals[a].requester = u
  <2>2. req'[q] = [Idle EXCEPT !.pc = IF self THEN "count" ELSE "decide",
                               !.user = u, !.approval = a, !.verdict = v]
    BY <1>1, <2>1 DEF Decide, Start
  <2>3. approvals'[a].status # "ABSENT" /\ approvals'[a].requester = approvals[a].requester
    BY <2>1 DEF Decide, Undecided
  <2> QED BY <2>2, <2>3
      DEF SlotMatches, Idle, Requesting, Deciding, Spending, Calling, Verified, Spent
<1>7. CASE \/ \E m \in Runs : Publish(q, m)
           \/ Pause(q) \/ Update(q) \/ Remove(q)
  <2>1. ASSUME NEW s, Become(q, s), s.pc \in {"find", "pauseAccount", "write", "delete"}
        PROVE  SlotMatches(req'[q], approvals', granted')
    BY <1>2, <2>1 DEF Requesting, Deciding, Spending, Calling
  <2>2. ASSUME NEW m \in Runs, Publish(q, m)
        PROVE  SlotMatches(req'[q], approvals', granted')
    <3>1. [Idle EXCEPT !.pc = "find", !.run = m].pc = "find"
      BY DEF Idle
    <3> QED BY <2>1, <2>2, <3>1 DEF Publish, Start
  <2>3. CASE Pause(q)
    <3>1. [Idle EXCEPT !.pc = "pauseAccount", !.run = campaign.metaCampaign].pc = "pauseAccount"
      BY DEF Idle
    <3> QED BY <2>1, <2>3, <3>1 DEF Pause, Start
  <2>4. CASE Update(q) \/ Remove(q)
    <3>1. /\ [Idle EXCEPT !.pc = "write"].pc = "write"
          /\ [Idle EXCEPT !.pc = "delete"].pc = "delete"
      BY DEF Idle
    <3> QED BY <2>1, <2>4, <3>1 DEF Update, Remove, Start
  <2> QED BY <1>7, <2>2, <2>3, <2>4
<1>8. CASE Crash(q)
  BY <1>3, <1>8 DEF Crash
<1>9. CASE RequestBundle(q)
  <2>1. CASE ~Return(q)
    <3>1. PICK plan : req'[q] = [req[q] EXCEPT !.pc = "supersede", !.plan = plan]
      BY <1>1, <1>9, <2>1 DEF RequestBundle
    <3>2. approvals'[req[q].approval].status = "ABSENT"
      BY <1>0, <1>9 DEF RequestBundle, SlotMatches, Requesting
    <3> QED BY <1>0, <3>1, <3>2
        DEF Slots, SlotMatches, Requesting, Deciding, Spending, Calling, Verified, Spent
  <2> QED BY <1>3, <2>1
<1>10. CASE RequestSupersede(q)
  <2>1. req'[q] = [req[q] EXCEPT !.pc = "request", !.seen = Superseded]
    BY <1>1, <1>10 DEF RequestSupersede
  <2>2. approvals'[req[q].approval].status = "ABSENT"
    BY <1>0, <1>10 DEF RequestSupersede, SlotMatches, Requesting
  <2> QED BY <1>0, <2>1, <2>2
      DEF Slots, SlotMatches, Requesting, Deciding, Spending, Calling, Verified, Spent
<1>11. CASE DecideCount(q)
  <2>1. CASE Goto(q, "decide") /\ SoleApprover(req[q].user)
    <3>1. req'[q] = [req[q] EXCEPT !.pc = "decide"]
      BY <1>1, <2>1 DEF Goto
    <3>2. approvals' = approvals /\ approvals[req[q].approval].status # "ABSENT"
      BY <1>0, <1>11 DEF DecideCount, SlotMatches, Deciding
    <3> QED BY <1>0, <3>1, <3>2
        DEF Slots, SlotMatches, Requesting, Deciding, Spending, Calling, Verified, Spent
  <2> QED BY <1>3, <1>11, <2>1 DEF DecideCount
<1>12. CASE DecideWrite(q)
  <2>1. [Idle EXCEPT !.pc = "follow", !.verdict = req[q].verdict].pc = "follow"
    BY DEF Idle
  <2> QED BY <1>2, <1>12, <2>1 DEF DecideWrite, Requesting, Deciding, Spending, Calling
<1>13. CASE PublishFind(q)
  <2>1. CASE ~Return(q)
    <3>1. PICK a \in Approvals : /\ approvals[a].status = "APPROVED"
                                 /\ req'[q] = [req[q] EXCEPT !.pc = "verify", !.approval = a]
      BY <1>1, <1>13, <2>1 DEF PublishFind, LatestApproved, Publishable
    <3>2. a \in granted'
      BY <1>13, <3>1 DEF PublishFind, GateInvariant, RowMatches
    <3> QED BY <1>0, <3>1, <3>2
        DEF Slots, SlotMatches, Requesting, Deciding, Spending, Calling, Verified, Spent
  <2> QED BY <1>3, <2>1
<1>14. CASE PublishVerify(q)
  <2>1. CASE ~Return(q)
    <3>1. PICK plan : /\ approvals[req[q].approval].plan = plan
                      /\ req'[q] = [req[q] EXCEPT !.pc = "account", !.plan = plan]
      BY <1>1, <1>14, <2>1 DEF PublishVerify, SameHash
    <3>2. approvals' = approvals /\ granted' = granted /\ req[q].approval \in granted
      BY <1>0, <1>14 DEF PublishVerify, SlotMatches, Spending
    <3> QED BY <1>0, <3>1, <3>2
        DEF Slots, SlotMatches, Requesting, Deciding, Spending, Calling, Verified, Spent
  <2> QED BY <1>3, <2>1
<1>15. CASE PublishAccount(q)
  <2>1. CASE Goto(q, "consume")
    <3>1. req'[q] = [req[q] EXCEPT !.pc = "consume"]
      BY <1>1, <2>1 DEF Goto
    <3>2. approvals' = approvals /\ granted' = granted /\ req[q].pc = "account"
      BY <1>15 DEF PublishAccount
    <3> QED BY <1>0, <3>1, <3>2
        DEF Slots, SlotMatches, Requesting, Deciding, Spending, Calling, Verified, Spent
  <2> QED BY <1>3, <1>15, <2>1 DEF PublishAccount
<1>16. CASE PublishConsume(q)
  <2>1. CASE ~Return(q)
    <3> DEFINE a == req[q].approval
    <3>1. req'[q] = [req[q] EXCEPT !.pc = "context"]
      BY <1>1, <1>16, <2>1 DEF PublishConsume, Goto
    <3>2. a \in Approvals /\ a \in granted /\ req[q].plan = approvals[a].plan
      BY <1>0, <1>16 DEF PublishConsume, WellFormed, SlotMatches, Spending, Verified
    <3>3. approvals[a] \in ApprovalRows /\ approvals'[a] = Consumed(approvals[a])
      BY <1>16, <2>1, <3>2 DEF PublishConsume, GateInvariant, Typed, TypeOK
    <3>4. approvals'[a].consumed /\ approvals'[a].plan = approvals[a].plan
      BY <3>3 DEF Consumed, ApprovalRows
    <3>5. granted' = granted
      BY <1>16 DEF PublishConsume
    <3> QED BY <1>0, <3>1, <3>2, <3>4, <3>5
        DEF Slots, SlotMatches, Requesting, Deciding, Spending, Calling, Verified, Spent
  <2> QED BY <1>3, <2>1
<1>17. ASSUME approvals' = approvals, granted' = granted, req[q].pc \in Spent,
              NEW s \in Slots, s.pc \in Calling, Become(q, s),
              s.approval = req[q].approval, s.plan = req[q].plan
       PROVE  SlotMatches(req'[q], approvals', granted')
  BY <1>0, <1>1, <1>17
  DEF SlotMatches, Requesting, Deciding, Spending, Calling, Verified, Spent
<1>18. CASE PublishContext(q)
  <2>1. CASE ~Return(q)
    <3> DEFINE s == [req[q] EXCEPT !.pc = "call", !.step = 1]
    <3>1. Become(q, s)
      BY <1>18, <2>1 DEF PublishContext
    <3>2. 1 \in 0 .. 2 * Size
      BY SizeAssumption
    <3>3. s \in Slots
      BY <1>0, <3>2, SlotFields, PCValues
    <3>4. s.pc = "call" /\ s.approval = req[q].approval /\ s.plan = req[q].plan
      BY <1>0 DEF Slots
    <3> HIDE DEF s
    <3> QED BY <1>17, <1>18, <3>1, <3>3, <3>4 DEF PublishContext, Calling, Spent
  <2> QED BY <1>3, <2>1
<1>19. ASSUME approvals' = approvals, granted' = granted, req[q].pc \in {"call", "save"},
              Advance(q) \/ Goto(q, "save")
       PROVE  SlotMatches(req'[q], approvals', granted')
  <2>1. ASSUME NEW pc \in {"save", "finish"}, Goto(q, pc)
        PROVE  SlotMatches(req'[q], approvals', granted')
    <3>1. /\ [req[q] EXCEPT !.pc = pc] \in Slots
          /\ [req[q] EXCEPT !.pc = pc].pc = pc
          /\ [req[q] EXCEPT !.pc = pc].approval = req[q].approval
          /\ [req[q] EXCEPT !.pc = pc].plan = req[q].plan
      BY <1>0, PCValues DEF Slots
    <3> QED BY <1>17, <1>19, <2>1, <3>1 DEF Goto, Calling, Spent
  <2>2. CASE Become(q, [req[q] EXCEPT !.pc = "call", !.step = @ + 1])
             /\ req[q].step # PlanLength
    <3> DEFINE s == [req[q] EXCEPT !.pc = "call", !.step = @ + 1]
    <3>1. req[q].step + 1 \in 0 .. 2 * Size
      BY <1>0, <1>19, <2>2, SizeAssumption DEF WellFormed, PlanLength
    <3>2. s \in Slots
      BY <1>0, <3>1, SlotFields, PCValues
    <3>3. s.pc = "call" /\ s.approval = req[q].approval /\ s.plan = req[q].plan
      BY <1>0 DEF Slots
    <3>4. Become(q, s)
      BY <2>2
    <3> HIDE DEF s
    <3> QED BY <1>17, <1>19, <3>2, <3>3, <3>4 DEF Calling, Spent
  <2> QED BY <1>19, <2>1, <2>2 DEF Advance
<1>20. CASE PublishCall(q)
  BY <1>4, <1>19, <1>20 DEF PublishCall
<1>21. CASE PublishSave(q)
  BY <1>4, <1>19, <1>21 DEF PublishSave
<1>22. CASE \/ RequestCommit(q) \/ DecideFollow(q) \/ PublishFail(q) \/ PauseSave(q)
            \/ UpdateWrite(q) \/ RemoveWrite(q)
  BY <1>3, <1>22 DEF RequestCommit, DecideFollow, PublishFail, PauseSave, UpdateWrite,
     RemoveWrite
<1>23. CASE PublishFinish(q) \/ PauseAccount(q) \/ PauseCall(q)
  BY <1>3, <1>4, <1>23 DEF PublishFinish, PauseAccount, PauseCall
<1> QED
  BY <1>5, <1>6, <1>7, <1>8, <1>9, <1>10, <1>11, <1>12, <1>13, <1>14, <1>15, <1>16,
     <1>18, <1>20, <1>21, <1>22, <1>23 DEF UserRequest, Serve

-----------------------------------------------------------------------------
(* What a row says of its history.                                         *)

LEMMA RowsSound ==
  ASSUME GateInvariant, [Next]_vars, NEW a \in Approvals
  PROVE  RowMatches(approvals'[a], a \in granted')
<1>0. /\ approvals \in [Approvals -> ApprovalRows]
      /\ approvals[a] \in ApprovalRows
      /\ RowMatches(approvals[a], a \in granted)
  BY DEF GateInvariant, Typed, TypeOK
<1>1. ASSUME NEW r \in Requests
      PROVE  req[r] \in Slots /\ WellFormed(req[r]) /\ SlotMatches(req[r], approvals, granted)
  BY DEF GateInvariant, Typed, GoodSlots
<1>2. ASSUME NEW r \in Requests, RequestCommit(r)
      PROVE  RowMatches(approvals'[a], a \in granted')
  <2>1. granted' = granted
    BY <1>2 DEF RequestCommit
  <2>2. CASE approvals'[a] = approvals[a]
    BY <1>0, <2>1, <2>2
  <2>3. CASE a = req[r].approval /\ approvals'[a] = NewApproval(req[r].plan, req[r].user)
    <3>1. /\ approvals'[a].status = "PENDING"
          /\ ~approvals'[a].consumed
      BY <2>3 DEF NewApproval, NoApproval
    <3> QED BY <3>1 DEF RowMatches
  <2>4. CASE approvals'[a] = [approvals[a] EXCEPT !.status = "EXPIRED"]
    <3>1. /\ approvals'[a].status = "EXPIRED"
          /\ approvals'[a].consumed = approvals[a].consumed
      BY <1>0, <2>4 DEF ApprovalRows
    <3> QED BY <1>0, <2>1, <3>1 DEF RowMatches
  <2> QED BY <1>2, <2>2, <2>3, <2>4 DEF RequestCommit
<1>3. ASSUME NEW r \in Requests, DecideWrite(r)
      PROVE  RowMatches(approvals'[a], a \in granted')
  <2>1. CASE a # req[r].approval
    <3>1. approvals'[a] = approvals[a]
      BY <1>0, <1>3, <2>1 DEF DecideWrite
    <3>2. a \in granted' <=> a \in granted
      BY <1>3, <2>1 DEF DecideWrite
    <3> QED BY <1>0, <3>1, <3>2 DEF RowMatches
  <2>2. CASE a = req[r].approval
    <3>1. /\ approvals'[a].status = req[r].verdict
          /\ approvals'[a].decider = req[r].user
          /\ approvals'[a].requester = approvals[a].requester
          /\ approvals'[a].consumed = approvals[a].consumed
      BY <1>0, <1>3, <2>2 DEF DecideWrite, ApprovalRows
    <3>2. req[r].verdict \in Verdicts
      BY <1>1, <1>3 DEF DecideWrite, At, WellFormed, Deciding, Slots
    <3>3. /\ granted \subseteq granted'
          /\ req[r].verdict = "APPROVED" => a \in granted'
      BY <1>3, <2>2 DEF DecideWrite
    <3> QED BY <1>0, <3>1, <3>2, <3>3 DEF RowMatches, Verdicts
  <2> QED BY <2>1, <2>2
<1>4. ASSUME NEW r \in Requests, PublishConsume(r)
      PROVE  RowMatches(approvals'[a], a \in granted')
  <2>1. granted' = granted
    BY <1>4 DEF PublishConsume
  <2>2. CASE approvals'[a] = approvals[a]
    BY <1>0, <2>1, <2>2
  <2>3. CASE a = req[r].approval /\ approvals'[a] = Consumed(approvals[a])
    <3>1. approvals'[a].status = "CONSUMED" /\ a \in granted
      BY <1>0, <1>1, <1>4, <2>3
      DEF PublishConsume, At, SlotMatches, Spending, Consumed, ApprovalRows
    <3> QED BY <2>1, <3>1 DEF RowMatches
  <2> QED BY <1>0, <1>4, <2>2, <2>3 DEF PublishConsume
<1>5. CASE UNCHANGED <<approvals, granted>>
  BY <1>0, <1>5
<1> QED BY <1>2, <1>3, <1>4, <1>5, RowWriters

-----------------------------------------------------------------------------
(* Maker-checker.                                                          *)

LEMMA ApproversFixed == [Next]_vars => approvers' = approvers
<1> SUFFICES ASSUME [Next]_vars PROVE approvers' = approvers
  OBVIOUS
<1>1. ASSUME NEW r \in Requests, UserRequest(r)
      PROVE  approvers' = approvers
  BY <1>1 DEF UserRequest, RequestApproval, Decide, Publish, Pause, Update, Remove, dbVars
<1>2. ASSUME NEW r \in Requests, Serve(r)
      PROVE  approvers' = approvers
  BY <1>2 DEF Serve, RequestBundle, RequestSupersede, RequestCommit, DecideCount,
     DecideWrite, DecideFollow, PublishFind, PublishVerify, PublishAccount,
     PublishConsume, PublishContext, PublishCall, PublishSave, PublishFinish,
     PublishFail, PauseAccount, PauseCall, PauseSave, UpdateWrite, RemoveWrite, dbVars
<1>3. ASSUME NEW r \in Requests, Crash(r)
      PROVE  approvers' = approvers
  BY <1>3 DEF Crash, dbVars
<1>4. CASE Surroundings
  BY <1>4 DEF Surroundings, ContentChange, SelectAdAccount
<1>5. CASE UNCHANGED vars
  BY <1>5 DEF vars, dbVars
<1> QED BY <1>1, <1>2, <1>3, <1>4, <1>5 DEF Next

\* Only a decision that starts, and the count of a self-approval, leave a slot
\* deciding.
LEMMA DecidingSteps ==
  ASSUME req \in [Requests -> GoodSlots], NEW q \in Requests,
         UserRequest(q) \/ Serve(q) \/ Crash(q),
         req'[q].pc \in Deciding
  PROVE  \/ \E u \in Approvers, a \in Approvals, v \in Verdicts : Decide(q, u, a, v)
         \/ DecideCount(q)
<1>0. req[q] \in Slots
  BY DEF GoodSlots
<1>1. ASSUME NEW s, Become(q, s), s.pc \notin Deciding
      PROVE  FALSE
  BY <1>1 DEF Become
<1>2. ASSUME Return(q)
      PROVE  FALSE
  BY <1>1, <1>2 DEF Return, Idle, Deciding
<1>3. ASSUME NEW pc, pc \notin Deciding, Goto(q, pc)
      PROVE  FALSE
  <2>1. [req[q] EXCEPT !.pc = pc].pc = pc
    BY <1>0 DEF Slots
  <2> QED BY <1>1, <1>3, <2>1 DEF Goto
<1>4. ASSUME Advance(q)
      PROVE  FALSE
  <2>1. [req[q] EXCEPT !.pc = "call", !.step = @ + 1].pc = "call"
    BY <1>0 DEF Slots
  <2> QED BY <1>1, <1>3, <1>4, <2>1 DEF Advance, Deciding
<1>5. ASSUME NEW u \in Writers, NEW a \in Approvals, RequestApproval(q, u, a)
      PROVE  FALSE
  <2>1. [Idle EXCEPT !.pc = "bundle", !.user = u, !.approval = a].pc = "bundle"
    BY DEF Idle
  <2> QED BY <1>1, <1>5, <2>1 DEF RequestApproval, Start, Deciding
<1>6. ASSUME NEW m \in Runs, Publish(q, m)
      PROVE  FALSE
  <2>1. [Idle EXCEPT !.pc = "find", !.run = m].pc = "find"
    BY DEF Idle
  <2> QED BY <1>1, <1>6, <2>1 DEF Publish, Start, Deciding
<1>7. CASE Pause(q)
  <2>1. [Idle EXCEPT !.pc = "pauseAccount", !.run = campaign.metaCampaign].pc = "pauseAccount"
    BY DEF Idle
  <2> QED BY <1>1, <1>7, <2>1 DEF Pause, Start, Deciding
<1>8. CASE Update(q) \/ Remove(q)
  <2>1. /\ [Idle EXCEPT !.pc = "write"].pc = "write"
        /\ [Idle EXCEPT !.pc = "delete"].pc = "delete"
    BY DEF Idle
  <2> QED BY <1>1, <1>8, <2>1 DEF Update, Remove, Start, Deciding
<1>9. ~(RequestBundle(q) \/ RequestSupersede(q) \/ PublishFind(q) \/ PublishVerify(q)
        \/ PublishContext(q))
  <2>1. /\ \A p : [req[q] EXCEPT !.pc = "supersede", !.plan = p].pc = "supersede"
        /\ \A p : [req[q] EXCEPT !.pc = "request", !.seen = p].pc = "request"
        /\ \A a : [req[q] EXCEPT !.pc = "verify", !.approval = a].pc = "verify"
        /\ \A p : [req[q] EXCEPT !.pc = "account", !.plan = p].pc = "account"
        /\ [req[q] EXCEPT !.pc = "call", !.step = 1].pc = "call"
    BY <1>0 DEF Slots
  <2> QED BY <1>1, <1>2, <2>1 DEF RequestBundle, RequestSupersede, PublishFind,
          PublishVerify, PublishContext, Deciding
<1>10. ~DecideWrite(q)
  <2>1. [Idle EXCEPT !.pc = "follow", !.verdict = req[q].verdict].pc = "follow"
    BY DEF Idle
  <2> QED BY <1>1, <2>1 DEF DecideWrite, Deciding
<1>11. ~(\/ RequestCommit(q) \/ DecideFollow(q) \/ PublishFail(q) \/ PauseSave(q)
         \/ UpdateWrite(q) \/ RemoveWrite(q) \/ Crash(q))
  BY <1>2 DEF RequestCommit, DecideFollow, PublishFail, PauseSave, UpdateWrite,
     RemoveWrite, Crash
<1>12. ~(\/ PublishAccount(q) \/ PublishConsume(q) \/ PublishFinish(q)
         \/ PauseAccount(q) \/ PauseCall(q) \/ PublishCall(q) \/ PublishSave(q))
  BY <1>2, <1>3, <1>4 DEF PublishAccount, PublishConsume, PublishFinish, PauseAccount,
     PauseCall, PublishCall, PublishSave, Deciding
<1> QED BY <1>5, <1>6, <1>7, <1>8, <1>9, <1>10, <1>11, <1>12 DEF UserRequest, Serve

LEMMA SlotsChecked ==
  ASSUME GateInvariant, [Next]_vars, NEW q \in Requests
  PROVE  SlotChecked(req'[q], approvals', approvers')
<1>0. /\ req \in [Requests -> GoodSlots]
      /\ req[q] \in Slots /\ WellFormed(req[q])
      /\ SlotMatches(req[q], approvals, granted)
      /\ SlotChecked(req[q], approvals, approvers)
      /\ approvers' = approvers
  BY ApproversFixed DEF GateInvariant, Typed, GoodSlots
<1>1. ASSUME req'[q].pc \notin Deciding
      PROVE  SlotChecked(req'[q], approvals', approvers')
  BY <1>1 DEF SlotChecked, Deciding
<1>2. CASE req'[q] = req[q]
  <2>1. ASSUME req[q].pc \in Deciding
        PROVE  approvals'[req[q].approval].requester = approvals[req[q].approval].requester
    BY <1>0, <2>1, RowsStable DEF WellFormed, SlotMatches, Stable
  <2> QED BY <1>0, <1>2, <2>1 DEF SlotChecked, Deciding
<1>3. ASSUME NEW u \in Approvers, NEW a \in Approvals, NEW v \in Verdicts, Decide(q, u, a, v)
      PROVE  SlotChecked(req'[q], approvals', approvers')
  <2>1. PICK pc \in Deciding :
          /\ req'[q] = [Idle EXCEPT !.pc = pc, !.user = u, !.approval = a, !.verdict = v]
          /\ pc = "decide" => ~(v = "APPROVED" /\ approvals[a].requester = u)
    BY <1>0, <1>3 DEF Decide, Start, Become, Deciding
  <2>2. approvals' = approvals /\ u \in approvers
    BY <1>3 DEF Decide, dbVars
  <2> QED BY <1>0, <2>1, <2>2 DEF SlotChecked, Idle, Deciding
<1>4. CASE DecideCount(q) /\ req'[q].pc \in Deciding
  <2>1. ~Return(q)
    BY <1>0, <1>4 DEF Return, Become, Idle, Deciding
  <2>2. req'[q] = [req[q] EXCEPT !.pc = "decide"] /\ approvers \ {req[q].user} = {}
    BY <1>0, <1>4, <2>1 DEF DecideCount, Goto, Become, SoleApprover
  <2>3. approvals' = approvals /\ req[q].user \in approvers
    BY <1>0, <1>4 DEF DecideCount, At, SlotChecked, Deciding, dbVars
  <2> QED BY <1>0, <2>2, <2>3 DEF SlotChecked, Slots, Deciding
<1> QED BY <1>0, <1>1, <1>2, <1>3, <1>4, SlotOwner, DecidingSteps

LEMMA RowsChecked ==
  ASSUME GateInvariant, [Next]_vars, NEW a \in Approvals
  PROVE  RowChecked(approvals'[a], approvers')
<1>0. /\ approvals \in [Approvals -> ApprovalRows]
      /\ approvals[a] \in ApprovalRows
      /\ RowChecked(approvals[a], approvers)
      /\ approvers' = approvers
  BY ApproversFixed DEF GateInvariant, Typed, TypeOK
<1>1. ASSUME NEW r \in Requests, RequestCommit(r)
      PROVE  RowChecked(approvals'[a], approvers')
  <2>1. approvals'[a] = approvals[a] \/ approvals'[a].status \in {"PENDING", "EXPIRED"}
    <3>1. /\ NewApproval(req[r].plan, req[r].user).status = "PENDING"
          /\ [approvals[a] EXCEPT !.status = "EXPIRED"].status = "EXPIRED"
      BY <1>0 DEF NewApproval, NoApproval, ApprovalRows
    <3>2. \/ approvals'[a] = approvals[a]
          \/ approvals'[a] = NewApproval(req[r].plan, req[r].user)
          \/ approvals'[a] = [approvals[a] EXCEPT !.status = "EXPIRED"]
      <4>1. CASE Found
        BY <1>1, <4>1, Zenon DEF RequestCommit
      <4>2. CASE ~Found
        BY <1>1, <4>2 DEF RequestCommit
      <4> QED BY <4>1, <4>2
    <3> QED BY <3>1, <3>2
  <2> QED BY <1>0, <2>1 DEF RowChecked
<1>2. ASSUME NEW r \in Requests, DecideWrite(r)
      PROVE  RowChecked(approvals'[a], approvers')
  <2>1. CASE a # req[r].approval
    <3>1. approvals'[a] = approvals[a]
      BY <1>0, <1>2, <2>1 DEF DecideWrite
    <3> QED BY <1>0, <3>1
  <2>2. CASE a = req[r].approval
    <3>1. /\ approvals'[a].status = req[r].verdict
          /\ approvals'[a].decider = req[r].user
          /\ approvals'[a].requester = approvals[a].requester
      BY <1>0, <1>2, <2>2 DEF DecideWrite, ApprovalRows
    <3>2. SlotChecked(req[r], approvals, approvers) /\ req[r].pc = "decide"
      BY <1>2 DEF DecideWrite, At, GateInvariant
    <3> QED BY <1>0, <2>2, <3>1, <3>2 DEF SlotChecked, RowChecked
  <2> QED BY <2>1, <2>2
<1>3. ASSUME NEW r \in Requests, PublishConsume(r)
      PROVE  RowChecked(approvals'[a], approvers')
  <2>1. approvals'[a] = approvals[a] \/ approvals'[a].status = "CONSUMED"
    <3>1. Consumed(approvals[a]).status = "CONSUMED"
      BY <1>0 DEF Consumed, ApprovalRows
    <3>2. approvals'[a] = approvals[a] \/ approvals'[a] = Consumed(approvals[a])
      BY <1>0, <1>3 DEF PublishConsume
    <3> QED BY <3>1, <3>2
  <2> QED BY <1>0, <2>1 DEF RowChecked
<1>4. CASE UNCHANGED <<approvals, granted>>
  BY <1>0, <1>4
<1> QED BY <1>1, <1>2, <1>3, <1>4, RowWriters

-----------------------------------------------------------------------------
(* Ids that belong to one request.                                         *)

\* Where the approval and the run a slot holds come from.
IdOrigin(old, new) ==
  /\ \/ new.approval \in {None, old.approval}
     \/ approvals[new.approval].status # "ABSENT"
     \/ FreshApproval(new.approval)
  /\ new.pc \in Requesting =>
       \/ FreshApproval(new.approval)
       \/ old.pc \in Requesting /\ new.approval = old.approval
  /\ new.pc \in Publishing =>
       \/ FreshRun(new.run)
       \/ old.pc \in Publishing /\ new.run = old.run

LEMMA SlotIds ==
  ASSUME GateInvariant, NEW q \in Requests, UserRequest(q) \/ Serve(q) \/ Crash(q)
  PROVE  IdOrigin(req[q], req'[q])
<1> USE DEF At, Publishing
<1>0. /\ req \in [Requests -> GoodSlots]
      /\ req[q] \in Slots
      /\ SlotMatches(req[q], approvals, granted)
  BY DEF GateInvariant, Typed, GoodSlots
<1>1. ASSUME NEW s, Become(q, s)
      PROVE  req'[q] = s
  BY <1>0, <1>1 DEF Become
<1>2. ASSUME Return(q)
      PROVE  IdOrigin(req[q], req'[q])
  BY <1>1, <1>2 DEF Return, Idle, IdOrigin, Requesting, Spending, Calling
<1>3. ASSUME NEW pc, Goto(q, pc),
             pc \in Requesting => req[q].pc \in Requesting,
             pc \in Publishing => req[q].pc \in Publishing
      PROVE  IdOrigin(req[q], req'[q])
  <2>1. req'[q] = [req[q] EXCEPT !.pc = pc]
    BY <1>1, <1>3 DEF Goto
  <2> QED BY <1>0, <1>3, <2>1 DEF IdOrigin, Slots
<1>4. ASSUME NEW u \in Writers, NEW a \in Approvals, RequestApproval(q, u, a)
      PROVE  IdOrigin(req[q], req'[q])
  <2>1. req'[q] = [Idle EXCEPT !.pc = "bundle", !.user = u, !.approval = a]
    BY <1>1, <1>4 DEF RequestApproval, Start
  <2> QED BY <1>4, <2>1 DEF RequestApproval, Idle, IdOrigin, Requesting, Spending, Calling
<1>5. ASSUME NEW u \in Approvers, NEW a \in Approvals, NEW v \in Verdicts, Decide(q, u, a, v)
      PROVE  IdOrigin(req[q], req'[q])
  <2>1. PICK pc \in Deciding :
          req'[q] = [Idle EXCEPT !.pc = pc, !.user = u, !.approval = a, !.verdict = v]
    BY <1>1, <1>5 DEF Decide, Start, Deciding
  <2>2. approvals[a].status # "ABSENT"
    BY <1>5 DEF Decide, Undecided
  <2> QED BY <2>1, <2>2 DEF Idle, IdOrigin, Deciding, Requesting, Spending, Calling
<1>6. ASSUME NEW m \in Runs, Publish(q, m)
      PROVE  IdOrigin(req[q], req'[q])
  <2>1. req'[q] = [Idle EXCEPT !.pc = "find", !.run = m]
    BY <1>1, <1>6 DEF Publish, Start
  <2> QED BY <1>6, <2>1 DEF Publish, Idle, IdOrigin, Requesting
<1>7. CASE Pause(q)
  <2>1. req'[q] = [Idle EXCEPT !.pc = "pauseAccount", !.run = campaign.metaCampaign]
    BY <1>1, <1>7 DEF Pause, Start
  <2> QED BY <2>1 DEF Idle, IdOrigin, Requesting, Spending, Calling
<1>8. CASE Update(q) \/ Remove(q)
  <2>1. PICK pc \in {"write", "delete"} : req'[q] = [Idle EXCEPT !.pc = pc]
    BY <1>1, <1>8 DEF Update, Remove, Start
  <2> QED BY <2>1 DEF Idle, IdOrigin, Requesting, Spending, Calling
<1>9. CASE Crash(q)
  BY <1>2, <1>9 DEF Crash
<1>10. CASE RequestBundle(q)
  <2>1. CASE ~Return(q)
    <3>1. PICK plan : req'[q] = [req[q] EXCEPT !.pc = "supersede", !.plan = plan]
      BY <1>1, <1>10, <2>1 DEF RequestBundle
    <3> QED BY <1>0, <1>10, <3>1 DEF RequestBundle, Slots, IdOrigin, Requesting, Spending, Calling
  <2> QED BY <1>2, <2>1
<1>11. CASE RequestSupersede(q)
  <2>1. req'[q] = [req[q] EXCEPT !.pc = "request", !.seen = Superseded]
    BY <1>1, <1>11 DEF RequestSupersede
  <2> QED BY <1>0, <1>11, <2>1 DEF RequestSupersede, Slots, IdOrigin, Requesting, Spending, Calling
<1>12. CASE DecideWrite(q)
  <2>1. req'[q] = [Idle EXCEPT !.pc = "follow", !.verdict = req[q].verdict]
    BY <1>1, <1>12 DEF DecideWrite
  <2> QED BY <2>1 DEF Idle, IdOrigin, Requesting, Spending, Calling
<1>13. CASE PublishFind(q)
  <2>1. CASE ~Return(q)
    <3>1. PICK a \in Approvals : /\ approvals[a].status = "APPROVED"
                                 /\ req'[q] = [req[q] EXCEPT !.pc = "verify", !.approval = a]
      BY <1>1, <1>13, <2>1 DEF PublishFind, LatestApproved, Publishable
    <3> QED BY <1>0, <1>13, <3>1 DEF PublishFind, Slots, IdOrigin, Requesting, Spending, Calling
  <2> QED BY <1>2, <2>1
<1>14. CASE PublishVerify(q)
  <2>1. CASE ~Return(q)
    <3>1. PICK plan : req'[q] = [req[q] EXCEPT !.pc = "account", !.plan = plan]
      BY <1>1, <1>14, <2>1 DEF PublishVerify
    <3> QED BY <1>0, <1>14, <3>1 DEF PublishVerify, Slots, IdOrigin, Requesting, Spending, Calling
  <2> QED BY <1>2, <2>1
<1>15. CASE PublishContext(q)
  <2>1. CASE ~Return(q)
    <3>1. req'[q] = [req[q] EXCEPT !.pc = "call", !.step = 1]
      BY <1>1, <1>15, <2>1 DEF PublishContext
    <3> QED BY <1>0, <1>15, <3>1 DEF PublishContext, Slots, IdOrigin, Requesting, Spending, Calling
  <2> QED BY <1>2, <2>1
<1>16. ASSUME Advance(q), req[q].pc \in {"call", "save"}
       PROVE  IdOrigin(req[q], req'[q])
  <2>1. CASE Goto(q, "finish")
    BY <1>3, <1>16, <2>1 DEF Requesting, Spending, Calling
  <2>2. CASE Become(q, [req[q] EXCEPT !.pc = "call", !.step = @ + 1])
    <3>1. req'[q] = [req[q] EXCEPT !.pc = "call", !.step = @ + 1]
      BY <1>1, <2>2
    <3> QED BY <1>0, <1>16, <3>1 DEF Slots, IdOrigin, Requesting, Spending, Calling
  <2> QED BY <1>16, <2>1, <2>2 DEF Advance
<1>17. CASE PublishCall(q) \/ PublishSave(q) \/ PublishFinish(q)
  BY <1>2, <1>3, <1>16, <1>17 DEF PublishCall, PublishSave, PublishFinish, Requesting, Spending, Calling
<1>18. CASE DecideCount(q) \/ PublishAccount(q) \/ PublishConsume(q) \/ PauseAccount(q)
            \/ PauseCall(q)
  BY <1>2, <1>3, <1>18 DEF DecideCount, PublishAccount, PublishConsume, PauseAccount,
     PauseCall, Requesting, Spending, Calling
<1>19. CASE \/ RequestCommit(q) \/ DecideFollow(q) \/ PublishFail(q) \/ PauseSave(q)
            \/ UpdateWrite(q) \/ RemoveWrite(q)
  BY <1>2, <1>19 DEF RequestCommit, DecideFollow, PublishFail, PauseSave, UpdateWrite,
     RemoveWrite
<1> QED
  BY <1>4, <1>5, <1>6, <1>7, <1>8, <1>9, <1>10, <1>11, <1>12, <1>13, <1>14, <1>15,
     <1>17, <1>18, <1>19 DEF UserRequest, Serve

LEMMA IdsStayReserved ==
  ASSUME GateInvariant, [Next]_vars
  PROVE  IdsReserved' /\ RunsReserved'
<1>0. ASSUME NEW q \in Requests
      PROVE  req'[q] = req[q] \/ IdOrigin(req[q], req'[q])
  BY SlotOwner, SlotIds DEF GateInvariant, Typed
<1>1. ASSUME NEW r \in Requests, NEW q \in Requests, r # q
      PROVE  req'[r] = req[r] \/ req'[q] = req[q]
  <2>1. ASSUME NEW x \in Requests, UserRequest(x) \/ Serve(x) \/ Crash(x)
        PROVE  \E s : Become(x, s)
    BY <2>1 DEF UserRequest, Serve, Crash, RequestApproval, Decide, Publish, Pause,
       Update, Remove, Start, RequestBundle, RequestSupersede, RequestCommit,
       DecideCount, DecideWrite, DecideFollow, PublishFind, PublishVerify,
       PublishAccount, PublishConsume, PublishContext, PublishCall, PublishSave,
       PublishFinish, PublishFail, PauseAccount, PauseCall, PauseSave, UpdateWrite,
       RemoveWrite, Goto, Return, Advance
  <2>2. CASE req'[r] # req[r]
    <3>1. PICK s : Become(r, s)
      BY <2>1, <2>2, SlotOwner DEF GateInvariant, Typed
    <3> QED BY <1>1, <3>1 DEF Become
  <2> QED BY <2>2
<1>2. ASSUME NEW r \in Requests, NEW q \in Requests, req'[r].pc \in Requesting, q # r
      PROVE  req'[q].approval # req'[r].approval
  <2>1. ASSUME req[r].pc \in Requesting
        PROVE  /\ req[r].approval \in Approvals
               /\ approvals[req[r].approval].status = "ABSENT"
               /\ req[q].approval # req[r].approval
    BY <1>2, <2>1 DEF GateInvariant, Typed, GoodSlots, WellFormed, SlotMatches, IdsReserved
  <2>2. CASE req'[r] = req[r] /\ req'[q] = req[q]
    BY <1>2, <2>1, <2>2
  <2>3. CASE req'[r] = req[r] /\ IdOrigin(req[q], req'[q])
    BY <1>2, <2>1, <2>3, NoneAssumption DEF IdOrigin, FreshApproval
  <2>4. CASE req'[q] = req[q] /\ IdOrigin(req[r], req'[r])
    BY <1>2, <2>1, <2>4 DEF IdOrigin, FreshApproval
  <2> QED BY <1>0, <1>1, <1>2, <2>2, <2>3, <2>4
<1>3. ASSUME NEW r \in Requests, NEW q \in Requests, q # r,
             req'[r].pc \in Publishing, req'[q].pc \in Publishing
      PROVE  req'[q].run # req'[r].run
  <2>1. ASSUME req[r].pc \in Publishing, req[q].pc \in Publishing
        PROVE  req[q].run # req[r].run
    BY <1>3, <2>1 DEF GateInvariant, RunsReserved
  <2>2. CASE req'[r] = req[r] /\ req'[q] = req[q]
    BY <1>3, <2>1, <2>2
  <2>3. CASE req'[r] = req[r] /\ IdOrigin(req[q], req'[q])
    BY <1>3, <2>1, <2>3 DEF IdOrigin, FreshRun
  <2>4. CASE req'[q] = req[q] /\ IdOrigin(req[r], req'[r])
    BY <1>3, <2>1, <2>4 DEF IdOrigin, FreshRun
  <2> QED BY <1>0, <1>1, <1>3, <2>2, <2>3, <2>4
<1> QED BY <1>2, <1>3 DEF IdsReserved, RunsReserved

-----------------------------------------------------------------------------
(* The tree a publish builds.                                              *)

\* What the next call of a publish does, by the kind of its step.
LEMMA EffectOfCall ==
  ASSUME GateInvariant, NEW r \in Requests, req[r].pc = "call"
  PROVE  LET k == req[r].step
             t == meta[req[r].run]
         IN /\ req[r].run \in Runs /\ t \in EntityTrees
            /\ k \in 1 .. 2 * Size /\ Size \in Nat \ {0}
            /\ k = 1 => /\ t = NoTree
                        /\ Effect(t, r) = [approval |-> req[r].approval,
                                           plan |-> req[r].plan,
                                           built |-> 1, active |-> {}]
            /\ k \in 2 .. Size => /\ t.approval # None
                                  /\ t.built = k - 1 /\ t.active = {}
                                  /\ Effect(t, r) = [t EXCEPT !.built = k]
            /\ k > Size => /\ t.approval # None
                           /\ t.built = Size
                           /\ Effect(t, r) = [t EXCEPT !.active = @ \cup {k - Size}]
<1> DEFINE k == req[r].step
           t == meta[req[r].run]
<1>1. /\ req[r].run \in Runs /\ t \in EntityTrees
      /\ k \in 1 .. 2 * Size /\ Size \in Nat \ {0}
  BY SizeAssumption DEF GateInvariant, Typed, TypeOK, GoodSlots, WellFormed, Calling
<1>2. TreeMatches(req[r], meta) /\ TreeSound(t, approvals, granted)
  BY <1>1 DEF GateInvariant
<1>3. CASE k = 1
  BY <1>1, <1>2, <1>3 DEF TreeMatches, Effect, PlanStep
<1>4. CASE k \in 2 .. Size
  <2>1. t.built = k - 1 /\ t.active = {}
    BY <1>2, <1>4 DEF TreeMatches
  <2>2. t.approval # None
    BY <1>1, <1>2, <1>4, <2>1 DEF TreeSound, NoTree
  <2> QED BY <1>1, <1>4, <2>1, <2>2 DEF Effect, PlanStep
<1>5. CASE k > Size
  <2>1. t.built = Size
    BY <1>2, <1>5 DEF TreeMatches
  <2>2. t.approval # None
    BY <1>1, <1>2, <2>1 DEF TreeSound, NoTree
  <2>3. PlanStep(k) = [action |-> "activate", entity |-> k - Size]
    BY <1>1, <1>5 DEF PlanStep
  <2> QED BY <1>1, <1>5, <2>1, <2>2, <2>3 DEF Effect
<1> HIDE DEF k, t
<1>6. k = 1 \/ k \in 2 .. Size \/ k > Size
  BY <1>1
<1>7. /\ ~(k = 1 /\ k \in 2 .. Size) /\ ~(k \in 2 .. Size /\ k > Size)
      /\ ~(k = 1 /\ k > Size)
  BY <1>1
<1> QED BY <1>1, <1>3, <1>4, <1>5, <1>6, <1>7 DEF k, t

LEMMA TreesSound ==
  ASSUME GateInvariant, [Next]_vars, NEW m \in Runs
  PROVE  TreeSound(meta'[m], approvals', granted')
<1>0. /\ meta \in [Runs -> EntityTrees] /\ meta[m] \in EntityTrees
      /\ TreeSound(meta[m], approvals, granted)
  BY DEF GateInvariant, Typed, TypeOK
<1>1. ASSUME NEW a \in granted
      PROVE  /\ a \in Approvals /\ a \in granted'
             /\ approvals'[a].plan = approvals[a].plan
             /\ approvals[a].consumed => approvals'[a].consumed
  <2>1. a \in Approvals /\ approvals[a].status # "ABSENT"
    BY DEF GateInvariant, Typed, TypeOK, RowMatches
  <2> QED BY <2>1, RowsStable DEF Stable
<1>2. TreeSound(meta[m], approvals', granted')
  BY <1>0, <1>1 DEF TreeSound
<1>3. ASSUME NEW r \in Requests, PublishCall(r)
      PROVE  TreeSound(meta'[m], approvals', granted')
  <2> DEFINE k == req[r].step
  <2>0. CASE meta'[m] = meta[m]
    BY <1>2, <2>0
  <2>1. CASE m = req[r].run /\ meta'[m] = Effect(meta[m], r)
    <3>0. req[r].pc = "call"
      BY <1>3 DEF PublishCall, At
    <3>1. CASE k = 1
      <4>1. meta'[m] = [approval |-> req[r].approval, plan |-> req[r].plan,
                        built |-> 1, active |-> {}]
        BY <2>1, <3>0, <3>1, EffectOfCall
      <4>2. SlotMatches(req[r], approvals, granted)
        BY DEF GateInvariant
      <4>3. /\ req[r].approval \in granted
            /\ req[r].plan = approvals[req[r].approval].plan
            /\ approvals[req[r].approval].consumed
        BY <3>0, <4>2 DEF SlotMatches, Calling, Verified, Spent
      <4>4. req[r].approval # None
        BY <1>1, <4>3, NoneAssumption
      <4> QED BY <1>1, <4>1, <4>3, <4>4 DEF TreeSound
    <3>2. CASE k \in 2 .. Size
      <4>1. /\ meta'[m] = [meta[m] EXCEPT !.built = k]
            /\ meta[m].approval # None /\ meta[m].active = {}
        BY <2>1, <3>0, <3>2, EffectOfCall
      <4>2. /\ meta'[m].approval = meta[m].approval
            /\ meta'[m].plan = meta[m].plan
            /\ meta'[m].active = {}
        BY <1>0, <4>1 DEF EntityTrees
      <4> QED BY <1>2, <4>1, <4>2 DEF TreeSound
    <3>3. CASE k > Size
      <4>1. /\ meta'[m] = [meta[m] EXCEPT !.active = @ \cup {k - Size}]
            /\ meta[m].approval # None /\ meta[m].built = Size
        BY <2>1, <3>0, <3>3, EffectOfCall
      <4>2. /\ meta'[m].approval = meta[m].approval
            /\ meta'[m].plan = meta[m].plan
            /\ meta'[m].built = Size
        BY <1>0, <4>1 DEF EntityTrees
      <4> QED BY <1>2, <4>1, <4>2 DEF TreeSound
    <3>4. k = 1 \/ k \in 2 .. Size \/ k > Size
      <4>1. k \in 1 .. 2 * Size /\ Size \in Nat \ {0}
        BY <3>0, EffectOfCall
      <4> QED BY <4>1
    <3> QED BY <3>1, <3>2, <3>3, <3>4
  <2> QED BY <1>0, <1>3, <2>0, <2>1 DEF PublishCall
<1>4. ASSUME NEW r \in Requests, PauseCall(r)
      PROVE  TreeSound(meta'[m], approvals', granted')
  <2>1. CASE meta'[m] = meta[m]
    BY <1>2, <2>1
  <2>2. CASE meta'[m] = [meta[m] EXCEPT !.active = @ \ {1}]
    <3>1. /\ meta'[m].approval = meta[m].approval
          /\ meta'[m].plan = meta[m].plan
          /\ meta'[m].built = meta[m].built
          /\ meta'[m].active = meta[m].active \ {1}
      BY <1>0, <2>2 DEF EntityTrees
    <3>2. meta[m] = NoTree => meta'[m] = NoTree
      <4>1. {} \ {1} = {}
        OBVIOUS
      <4> QED BY <2>2, <4>1 DEF NoTree
    <3> QED BY <1>2, <3>1, <3>2 DEF TreeSound
  <2> QED BY <1>0, <1>4, <2>1, <2>2 DEF PauseCall
<1>5. CASE UNCHANGED meta
  BY <1>2, <1>5
<1> QED BY <1>3, <1>4, <1>5, TreeWriters

LEMMA TreeFrame ==
  ASSUME NEW s \in GoodSlots, NEW trees, NEW new, TreeMatches(s, trees),
         s.run \in Runs => \/ new[s.run] = trees[s.run]
                           \/ /\ trees[s.run] \in EntityTrees
                              /\ new[s.run] = [trees[s.run] EXCEPT !.active = @ \ {1}]
                           \/ s.pc \notin Publishing
  PROVE  TreeMatches(s, new)
<1>1. s.pc \in Publishing => s.run \in Runs
  BY DEF GoodSlots, WellFormed, Publishing
<1>2. CASE s.pc \notin Publishing
  BY <1>2 DEF TreeMatches, Publishing, Calling
<1>3. CASE s.run \in Runs /\ new[s.run] = trees[s.run]
  BY <1>3 DEF TreeMatches
<1>4. CASE /\ s.run \in Runs /\ trees[s.run] \in EntityTrees
           /\ new[s.run] = [trees[s.run] EXCEPT !.active = @ \ {1}]
  <2>1. trees[s.run] = NoTree => new[s.run] = NoTree
    <3>1. {} \ {1} = {}
      OBVIOUS
    <3> QED BY <1>4, <3>1 DEF NoTree
  <2>2. /\ new[s.run].built = trees[s.run].built
        /\ trees[s.run].active = {} => new[s.run].active = {}
    BY <1>4 DEF EntityTrees
  <2> QED BY <2>1, <2>2 DEF TreeMatches
<1> QED BY <1>1, <1>2, <1>3, <1>4

LEMMA TreesKeep ==
  ASSUME GateInvariant, [Next]_vars, NEW q \in Requests, req'[q] = req[q],
         ~(UserRequest(q) \/ Serve(q) \/ Crash(q))
  PROVE  TreeMatches(req'[q], meta')
<1>0. /\ req[q] \in GoodSlots /\ TreeMatches(req[q], meta)
      /\ meta \in [Runs -> EntityTrees]
  BY DEF GateInvariant, Typed, TypeOK
<1>1. CASE UNCHANGED meta
  BY <1>0, <1>1
<1>2. ASSUME NEW r \in Requests, PublishCall(r)
      PROVE  TreeMatches(req'[q], meta')
  <2>1. r # q
    BY <1>2 DEF Serve
  <2>2. req[q].pc \in Publishing => req[q].run # req[r].run
    BY <1>2, <2>1 DEF PublishCall, At, GateInvariant, RunsReserved, Publishing, Calling
  <2>3. req[q].run \in Runs /\ req[q].pc \in Publishing => meta'[req[q].run] = meta[req[q].run]
    BY <1>0, <1>2, <2>2 DEF PublishCall
  <2>4. TreeMatches(req[q], meta')
    BY <1>0, <2>3, TreeFrame
  <2> QED BY <2>4
<1>3. ASSUME NEW r \in Requests, PauseCall(r)
      PROVE  TreeMatches(req'[q], meta')
  <2>1. req[q].run \in Runs =>
          \/ meta'[req[q].run] = meta[req[q].run]
          \/ meta'[req[q].run] = [meta[req[q].run] EXCEPT !.active = @ \ {1}]
    BY <1>0, <1>3 DEF PauseCall
  <2>2. TreeMatches(req[q], meta')
    BY <1>0, <2>1, TreeFrame
  <2> QED BY <2>2
<1> QED BY <1>1, <1>2, <1>3, TreeWriters

LEMMA TreesMove ==
  ASSUME GateInvariant, [Next]_vars, NEW q \in Requests,
         UserRequest(q) \/ Serve(q) \/ Crash(q)
  PROVE  TreeMatches(req'[q], meta')
<1> USE DEF At
<1>0. /\ req \in [Requests -> GoodSlots] /\ meta \in [Runs -> EntityTrees]
      /\ req[q] \in Slots /\ WellFormed(req[q])
      /\ TreeMatches(req[q], meta)
  BY DEF GateInvariant, Typed, TypeOK, GoodSlots
<1>1. ASSUME NEW s, Become(q, s)
      PROVE  req'[q] = s
  BY <1>0, <1>1 DEF Become
<1>2. ASSUME req'[q].pc \notin {"find", "call", "save"} \cup Spending
      PROVE  TreeMatches(req'[q], meta')
  BY <1>2 DEF TreeMatches
<1>3. ASSUME Return(q)
      PROVE  TreeMatches(req'[q], meta')
  BY <1>1, <1>2, <1>3 DEF Return, Idle, Spending
<1>4. ASSUME NEW pc, pc \notin {"find", "call", "save"} \cup Spending, Goto(q, pc)
      PROVE  TreeMatches(req'[q], meta')
  <2>1. req'[q] = [req[q] EXCEPT !.pc = pc]
    BY <1>1, <1>4 DEF Goto
  <2> QED BY <1>0, <1>2, <1>4, <2>1 DEF Slots
\* From find to the first call the run has no tree yet.
<1>5. ASSUME req[q].pc \in {"find"} \cup Spending, meta' = meta,
             req'[q].run = req[q].run,
             req'[q].pc \in Spending \/ (req'[q].pc = "call" /\ req'[q].step = 1)
      PROVE  TreeMatches(req'[q], meta')
  <2>1. meta[req[q].run] = NoTree
    BY <1>0, <1>5 DEF TreeMatches
  <2>2. ~(1 > Size) /\ 1 \notin 2 .. Size
    BY SizeAssumption
  <2> QED BY <1>5, <2>1, <2>2 DEF TreeMatches, Spending
<1>6. CASE \/ \E u \in Writers, a \in Approvals : RequestApproval(q, u, a)
           \/ \E u \in Approvers, a \in Approvals, v \in Verdicts : Decide(q, u, a, v)
  <2>1. ASSUME NEW u \in Writers, NEW a \in Approvals, RequestApproval(q, u, a)
        PROVE  TreeMatches(req'[q], meta')
    <3>1. req'[q] = [Idle EXCEPT !.pc = "bundle", !.user = u, !.approval = a]
      BY <1>1, <2>1 DEF RequestApproval, Start
    <3> QED BY <1>2, <3>1 DEF Idle, Spending
  <2>2. ASSUME NEW u \in Approvers, NEW a \in Approvals, NEW v \in Verdicts,
               Decide(q, u, a, v)
        PROVE  TreeMatches(req'[q], meta')
    <3>1. PICK pc \in Deciding :
            req'[q] = [Idle EXCEPT !.pc = pc, !.user = u, !.approval = a, !.verdict = v]
      BY <1>1, <2>2 DEF Decide, Start, Deciding
    <3> QED BY <1>2, <3>1 DEF Idle, Spending, Deciding
  <2> QED BY <1>6, <2>1, <2>2
<1>7. ASSUME NEW m \in Runs, Publish(q, m)
      PROVE  TreeMatches(req'[q], meta')
  <2>1. req'[q] = [Idle EXCEPT !.pc = "find", !.run = m]
    BY <1>1, <1>7 DEF Publish, Start
  <2>2. req'[q].pc = "find" /\ req'[q].run = m
    BY <2>1 DEF Idle
  <2>3. meta'[m] = NoTree
    BY <1>7 DEF Publish, FreshRun
  <2> QED BY <2>2, <2>3 DEF TreeMatches
<1>8. CASE Pause(q) \/ Update(q) \/ Remove(q)
  <2>1. CASE Pause(q)
    <3>1. req'[q] = [Idle EXCEPT !.pc = "pauseAccount", !.run = campaign.metaCampaign]
      BY <1>1, <2>1 DEF Pause, Start
    <3> QED BY <1>2, <3>1 DEF Idle, Spending
  <2>2. CASE Update(q) \/ Remove(q)
    <3>1. PICK pc \in {"write", "delete"} : req'[q] = [Idle EXCEPT !.pc = pc]
      BY <1>1, <2>2 DEF Update, Remove, Start
    <3> QED BY <1>2, <3>1 DEF Idle, Spending
  <2> QED BY <1>8, <2>1, <2>2
<1>9. CASE Crash(q)
  BY <1>3, <1>9 DEF Crash
<1>10. CASE RequestBundle(q) \/ RequestSupersede(q) \/ DecideWrite(q)
  <2>1. CASE RequestBundle(q) /\ ~Return(q)
    <3>1. PICK plan : req'[q] = [req[q] EXCEPT !.pc = "supersede", !.plan = plan]
      BY <1>1, <2>1 DEF RequestBundle
    <3> QED BY <1>0, <1>2, <3>1 DEF Slots, Spending
  <2>2. CASE RequestSupersede(q)
    <3>1. req'[q] = [req[q] EXCEPT !.pc = "request", !.seen = Superseded]
      BY <1>1, <2>2 DEF RequestSupersede
    <3> QED BY <1>0, <1>2, <3>1 DEF Slots, Spending
  <2>3. CASE DecideWrite(q)
    <3>1. req'[q] = [Idle EXCEPT !.pc = "follow", !.verdict = req[q].verdict]
      BY <1>1, <2>3 DEF DecideWrite
    <3> QED BY <1>2, <3>1 DEF Idle, Spending
  <2> QED BY <1>3, <1>10, <2>1, <2>2, <2>3
<1>11. CASE PublishFind(q)
  <2>1. CASE ~Return(q)
    <3>1. PICK a \in Approvals : req'[q] = [req[q] EXCEPT !.pc = "verify", !.approval = a]
      BY <1>1, <1>11, <2>1 DEF PublishFind
    <3>2. req'[q].pc = "verify" /\ req'[q].run = req[q].run
      BY <1>0, <3>1 DEF Slots
    <3> QED BY <1>5, <1>11, <3>2 DEF PublishFind, Spending
  <2> QED BY <1>3, <2>1
<1>12. CASE PublishVerify(q)
  <2>1. CASE ~Return(q)
    <3>1. PICK plan : req'[q] = [req[q] EXCEPT !.pc = "account", !.plan = plan]
      BY <1>1, <1>12, <2>1 DEF PublishVerify
    <3>2. req'[q].pc = "account" /\ req'[q].run = req[q].run
      BY <1>0, <3>1 DEF Slots
    <3> QED BY <1>5, <1>12, <3>2 DEF PublishVerify, Spending
  <2> QED BY <1>3, <2>1
<1>13. CASE PublishAccount(q) \/ PublishConsume(q)
  <2>1. CASE ~Return(q)
    <3>1. PICK pc \in {"consume", "context"} : req'[q] = [req[q] EXCEPT !.pc = pc]
      BY <1>1, <1>13, <2>1 DEF PublishAccount, PublishConsume, Goto
    <3>2. req'[q].pc = pc /\ req'[q].run = req[q].run
      BY <1>0, <3>1 DEF Slots
    <3> QED BY <1>5, <1>13, <3>2 DEF PublishAccount, PublishConsume, Spending
  <2> QED BY <1>3, <2>1
<1>14. CASE PublishContext(q)
  <2>1. CASE ~Return(q)
    <3>1. req'[q] = [req[q] EXCEPT !.pc = "call", !.step = 1]
      BY <1>1, <1>14, <2>1 DEF PublishContext
    <3>2. req'[q].pc = "call" /\ req'[q].step = 1 /\ req'[q].run = req[q].run
      BY <1>0, <3>1 DEF Slots
    <3> QED BY <1>5, <1>14, <3>2 DEF PublishContext, Spending
  <2> QED BY <1>3, <2>1
<1>15. ASSUME req[q].pc \in {"call", "save"}, Advance(q), req[q].step \in 1 .. 2 * Size,
              req[q].run \in Runs,
              meta'[req[q].run].built = IF req[q].step <= Size THEN req[q].step ELSE Size,
              req[q].step <= Size => meta'[req[q].run].active = {}
       PROVE  TreeMatches(req'[q], meta')
  <2>1. CASE Goto(q, "finish")
    BY <1>4, <2>1 DEF Spending
  <2>2. CASE Become(q, [req[q] EXCEPT !.pc = "call", !.step = @ + 1])
    <3>1. req'[q] = [req[q] EXCEPT !.pc = "call", !.step = @ + 1]
      BY <1>1, <2>2
    <3>2. /\ req'[q].pc = "call" /\ req'[q].step = req[q].step + 1
          /\ req'[q].run = req[q].run
      BY <1>0, <3>1 DEF Slots
    <3>3. /\ req[q].step + 1 # 1
          /\ req[q].step + 1 \in 2 .. Size => req[q].step <= Size
          /\ req[q].step + 1 > Size => ~(req[q].step <= Size) \/ req[q].step = Size
      BY <1>15, SizeAssumption
    <3> QED BY <1>15, <3>2, <3>3, SizeAssumption DEF TreeMatches, Spending
  <2> QED BY <1>15, <2>1, <2>2 DEF Advance
<1>16. CASE PublishCall(q)
  <2> DEFINE k == req[q].step
             t == meta[req[q].run]
  <2>0. /\ req[q].pc = "call"
        /\ req[q].run \in Runs /\ t \in EntityTrees
        /\ k \in 1 .. 2 * Size /\ Size \in Nat \ {0}
    BY <1>16, EffectOfCall DEF PublishCall
  <2>1. CASE Goto(q, "fail")
    BY <1>4, <2>1 DEF Spending
  <2>2. CASE meta'[req[q].run] = Effect(t, q)
    <3>1. CASE k = 1 \/ k \in 2 .. Size
      <4>1. Effect(t, q).built = k /\ Effect(t, q).active = {}
        <5>1. CASE k = 1
          <6>1. Effect(t, q) = [approval |-> req[q].approval, plan |-> req[q].plan,
                                built |-> 1, active |-> {}]
            BY <2>0, <5>1, EffectOfCall
          <6> QED BY <5>1, <6>1
        <5>2. CASE k \in 2 .. Size
          <6>1. t.active = {} /\ Effect(t, q) = [t EXCEPT !.built = k]
            BY <2>0, <5>2, EffectOfCall
          <6> QED BY <2>0, <6>1 DEF EntityTrees
        <5> QED BY <3>1, <5>1, <5>2
      <4>2. k <= Size
        BY <2>0, <3>1
      <4>3. ASSUME Goto(q, "save")
            PROVE  TreeMatches(req'[q], meta')
        <5>1. req'[q] = [req[q] EXCEPT !.pc = "save"]
          BY <1>1, <4>3 DEF Goto
        <5>2. req'[q].pc = "save" /\ req'[q].step = k /\ req'[q].run = req[q].run
          BY <1>0, <5>1 DEF Slots
        <5> QED BY <2>2, <4>1, <5>2 DEF TreeMatches, Spending
      <4>4. ASSUME Advance(q)
            PROVE  TreeMatches(req'[q], meta')
        BY <1>15, <2>0, <2>2, <4>1, <4>2, <4>4
      <4> QED BY <1>16, <2>1, <4>3, <4>4 DEF PublishCall
    <3>2. CASE k > Size
      <4>1. /\ t.built = Size
            /\ Effect(t, q) = [t EXCEPT !.active = @ \cup {k - Size}]
        BY <2>0, <3>2, EffectOfCall
      <4>2. Effect(t, q).built = Size
        BY <2>0, <4>1 DEF EntityTrees
      <4>3. ~(k <= Size)
        BY <2>0, <3>2
      <4>4. PlanStep(k).action = "activate"
        BY <4>3 DEF PlanStep
      <4>5. CASE Advance(q)
        BY <1>15, <2>0, <2>2, <4>2, <4>3, <4>5
      <4> QED BY <1>16, <2>1, <4>4, <4>5 DEF PublishCall
    <3>3. k = 1 \/ k \in 2 .. Size \/ k > Size
      BY <2>0
    <3> QED BY <3>1, <3>2, <3>3
  <2> QED BY <1>0, <1>16, <2>0, <2>1, <2>2 DEF PublishCall
<1>17. CASE PublishSave(q)
  <2>1. /\ req[q].pc = "save" /\ req[q].run \in Runs /\ req[q].step \in 1 .. Size
        /\ meta' = meta
    BY <1>0, <1>17 DEF PublishSave, WellFormed, Calling
  <2>2. meta[req[q].run].built = req[q].step /\ meta[req[q].run].active = {}
    BY <1>0, <2>1 DEF TreeMatches
  <2>3. req[q].step <= Size /\ req[q].step \in 1 .. 2 * Size
    BY <2>1, SizeAssumption
  <2>4. CASE Advance(q)
    BY <1>15, <2>1, <2>2, <2>3, <2>4
  <2>5. CASE Goto(q, "fail")
    BY <1>4, <2>5 DEF Spending
  <2> QED BY <1>17, <2>4, <2>5 DEF PublishSave
<1>18. CASE \/ RequestCommit(q) \/ DecideCount(q) \/ DecideFollow(q) \/ PublishFinish(q)
            \/ PublishFail(q) \/ PauseAccount(q) \/ PauseCall(q) \/ PauseSave(q)
            \/ UpdateWrite(q) \/ RemoveWrite(q)
  BY <1>3, <1>4, <1>18 DEF RequestCommit, DecideCount, DecideFollow, PublishFinish,
     PublishFail, PauseAccount, PauseCall, PauseSave, UpdateWrite, RemoveWrite, Spending
<1> QED
  BY <1>6, <1>7, <1>8, <1>9, <1>10, <1>11, <1>12, <1>13, <1>14, <1>16, <1>17, <1>18
  DEF UserRequest, Serve

-----------------------------------------------------------------------------
(* The inductive invariant and what it gives.                              *)

LEMMA GateInit == Init => GateInvariant
<1> SUFFICES ASSUME Init PROVE GateInvariant
  OBVIOUS
<1>1. /\ \A r \in Requests : req[r] = Idle
      /\ \A a \in Approvals : approvals[a] = NoApproval
      /\ \A m \in Runs : meta[m] = NoTree
      /\ granted = {}
  BY DEF Init
<1>2. /\ SlotMatches(Idle, approvals, granted)
      /\ TreeMatches(Idle, meta)
      /\ Idle.pc \notin Requesting \cup Publishing
  BY DEF Idle, SlotMatches, TreeMatches, Requesting, Deciding, Spending, Calling,
     Verified, Spent, Publishing
<1>3. \A a \in Approvals : RowMatches(approvals[a], a \in granted)
  BY <1>1 DEF NoApproval, RowMatches
<1>4. \A m \in Runs : TreeSound(meta[m], approvals, granted)
  BY <1>1 DEF NoTree, TreeSound
<1>5. /\ SlotChecked(Idle, approvals, approvers)
      /\ \A a \in Approvals : RowChecked(approvals[a], approvers)
  BY <1>1 DEF Idle, NoApproval, SlotChecked, RowChecked, Deciding
<1> QED BY <1>1, <1>2, <1>3, <1>4, <1>5, TypedInit DEF GateInvariant, IdsReserved, RunsReserved

LEMMA GateNext == GateInvariant /\ [Next]_vars => GateInvariant'
<1> SUFFICES ASSUME GateInvariant, [Next]_vars PROVE GateInvariant'
  OBVIOUS
<1>1. Typed'
  BY TypedNext DEF GateInvariant
<1>2. ASSUME NEW q \in Requests
      PROVE  /\ SlotMatches(req'[q], approvals', granted')
             /\ TreeMatches(req'[q], meta')
  BY SlotOwner, SlotsKeep, SlotsMove, TreesKeep, TreesMove DEF GateInvariant, Typed
<1> QED BY <1>1, <1>2, RowsSound, SlotsChecked, RowsChecked, IdsStayReserved, TreesSound
        DEF GateInvariant

LEMMA GateAlways == Spec => []GateInvariant
BY GateInit, GateNext, PTL DEF Spec

\* Whatever exists at Meta was sent under an approval a human granted, and is
\* the plan that approval showed: no interleaving of edits, decisions, crashes
\* and publishes (publish.service.ts) gets another plan past the hash check.
THEOREM ApprovedPlanOnlyAlways == Spec => []ApprovedPlanOnly
<1>1. GateInvariant => ApprovedPlanOnly
  BY DEF GateInvariant, TreeSound, ApprovedPlanOnly, Opened
<1> QED BY <1>1, GateAlways, PTL

\* No entity exists at Meta under an approval that still looks unused: the
\* consuming transaction of publish.service.ts comes before every Meta call.
THEOREM ConsumedBeforeMetaAlways == Spec => []ConsumedBeforeMeta
<1>1. GateInvariant => ConsumedBeforeMeta
  BY DEF GateInvariant, TreeSound, ConsumedBeforeMeta, Opened
<1> QED BY <1>1, GateAlways, PTL

\* Nothing serves before its whole tree exists, for plans of any size and a
\* failure at any call of the loop (publish.service.ts, payload-builder.ts).
THEOREM BuiltBeforeActiveAlways == Spec => []BuiltBeforeActive
<1>1. GateInvariant => BuiltBeforeActive
  BY DEF GateInvariant, TreeSound, BuiltBeforeActive
<1> QED BY <1>1, GateAlways, PTL

\* Only the sole approver of an organisation approves their own request, for
\* any roster and any number of users deciding at the same time
\* (approvals.service.ts decide, as its comment says it).
THEOREM MakerCheckerAlways == Spec => []MakerChecker
<1>1. GateInvariant => MakerChecker
  BY DEF GateInvariant, RowChecked, MakerChecker
<1> QED BY <1>1, GateAlways, PTL

-----------------------------------------------------------------------------
(* Every step of the services is a step of PublishGate, or leaves granted  *)
(* plans, spent approvals and Meta trees alone.                            *)

LEMMA GateInitStep == Init => Gate!Init
<1> SUFFICES ASSUME Init PROVE Gate!Init
  OBVIOUS
<1>1. GrantedPlans = [g \in Approvals |-> None]
  BY DEF Init, GrantedPlans
<1>2. ConsumedApprovals = {}
  BY DEF Init, ConsumedApprovals, NoApproval
<1>3. meta = [t \in Runs |-> Gate!Unopened]
  BY DEF Init, NoTree, Gate!Unopened
<1> QED BY <1>1, <1>2, <1>3 DEF Gate!Init

\* Inserting a request grants and spends nothing.
LEMMA CommitStutters ==
  ASSUME GateInvariant, [Next]_vars, NEW r \in Requests, RequestCommit(r)
  PROVE  UNCHANGED <<GrantedPlans, ConsumedApprovals, meta>>
<1>1. granted' = granted /\ meta' = meta
  BY DEF RequestCommit
<1>2. \A a \in granted : a \in Approvals /\ approvals[a].status # "ABSENT"
  BY DEF GateInvariant, Typed, TypeOK, RowMatches
<1>3. GrantedPlans' = GrantedPlans
  BY <1>1, <1>2, RowsStable DEF GrantedPlans, Stable
<1>4. ASSUME NEW a \in Approvals
      PROVE  approvals'[a].consumed = approvals[a].consumed
  <2>1. approvals[a] \in ApprovalRows
    BY DEF GateInvariant, Typed, TypeOK
  <2>2. CASE approvals'[a] = approvals[a]
    BY <2>2
  <2>3. CASE approvals'[a] = [approvals[a] EXCEPT !.status = "EXPIRED"]
    BY <2>1, <2>3 DEF ApprovalRows
  <2>4. CASE a = req[r].approval /\ approvals'[a] = NewApproval(req[r].plan, req[r].user)
    <3>1. approvals[a].status = "ABSENT"
      BY <2>4 DEF RequestCommit, At, GateInvariant, SlotMatches, Requesting
    <3>2. ~approvals[a].consumed
      BY <3>1 DEF GateInvariant, RowMatches
    <3>3. ~approvals'[a].consumed
      BY <2>4 DEF NewApproval, NoApproval
    <3>4. approvals[a].consumed = FALSE
      BY <2>1, <3>2 DEF ApprovalRows
    <3>5. approvals'[a].consumed = FALSE
      BY <2>4 DEF NewApproval, NoApproval
    <3> QED BY <3>4, <3>5
  <2>5. approvals \in [Approvals -> ApprovalRows]
    BY DEF GateInvariant, Typed, TypeOK
  <2> QED BY <2>2, <2>3, <2>4, <2>5 DEF RequestCommit
<1>5. ConsumedApprovals' = ConsumedApprovals
  BY <1>4 DEF ConsumedApprovals
<1> QED BY <1>1, <1>3, <1>5

\* Writing an approve decision is the grant.
LEMMA DecideGrants ==
  ASSUME GateInvariant, [Next]_vars, NEW r \in Requests, DecideWrite(r)
  PROVE  [Gate!Next]_<<GrantedPlans, ConsumedApprovals, meta>>
<1> DEFINE a == req[r].approval
<1>1. /\ a \in Approvals /\ approvals[a].status # "ABSENT"
      /\ approvals \in [Approvals -> ApprovalRows]
      /\ granted \subseteq Approvals
  BY DEF DecideWrite, At, GateInvariant, Typed, TypeOK, SlotMatches, GoodSlots,
     WellFormed, Deciding
<1>2. /\ meta' = meta
      /\ \A b \in Approvals : /\ approvals'[b].plan = approvals[b].plan
                              /\ approvals'[b].consumed = approvals[b].consumed
  <2>1. ASSUME NEW b \in Approvals, b # a
        PROVE  approvals'[b] = approvals[b]
    BY <1>1, <2>1 DEF DecideWrite
  <2>2. /\ approvals'[a].plan = approvals[a].plan
        /\ approvals'[a].consumed = approvals[a].consumed
    BY <1>1 DEF DecideWrite, ApprovalRows
  <2> QED BY <2>1, <2>2 DEF DecideWrite
<1>3. ConsumedApprovals' = ConsumedApprovals
  BY <1>2 DEF ConsumedApprovals
<1>4. CASE granted' = granted
  BY <1>2, <1>3, <1>4 DEF GrantedPlans
<1>5. CASE granted' = granted \cup {a} /\ a \notin granted
  <2>1. GrantedPlans[a] = None
    BY <1>1, <1>5 DEF GrantedPlans
  <2>2. GrantedPlans' = [GrantedPlans EXCEPT ![a] = approvals[a].plan]
    BY <1>1, <1>2, <1>5 DEF GrantedPlans
  <2>3. CASE approvals[a].plan \in Plans
    BY <1>1, <1>2, <1>3, <2>1, <2>2, <2>3 DEF Gate!Next, Gate!Grant
  <2>4. CASE approvals[a].plan = None
    <3>1. GrantedPlans' = GrantedPlans
      BY <1>1, <2>1, <2>2, <2>4 DEF GrantedPlans
    <3> QED BY <1>2, <1>3, <3>1
  <2> QED BY <1>1, <2>3, <2>4 DEF ApprovalRows
<1>6. CASE granted' = granted \cup {a} /\ a \in granted
  <2>1. granted' = granted
    BY <1>6
  <2> QED BY <1>4, <2>1
<1> QED BY <1>4, <1>5, <1>6 DEF DecideWrite

\* Marking the approval CONSUMED spends the grant.
LEMMA ConsumeSpends ==
  ASSUME GateInvariant, [Next]_vars, NEW r \in Requests, PublishConsume(r)
  PROVE  [Gate!Next]_<<GrantedPlans, ConsumedApprovals, meta>>
<1> DEFINE a == req[r].approval
<1>1. /\ a \in Approvals /\ a \in granted
      /\ approvals \in [Approvals -> ApprovalRows]
      /\ granted' = granted /\ meta' = meta
  BY DEF PublishConsume, At, GateInvariant, Typed, TypeOK, SlotMatches, GoodSlots,
     WellFormed, Spending
<1>2. \A b \in granted : b \in Approvals /\ approvals[b].status # "ABSENT"
  BY DEF GateInvariant, Typed, TypeOK, RowMatches
<1>3. GrantedPlans' = GrantedPlans
  BY <1>1, <1>2, RowsStable DEF GrantedPlans, Stable
<1>4. CASE approvals' = approvals
  BY <1>1, <1>3, <1>4 DEF ConsumedApprovals
<1>5. CASE approvals' = [approvals EXCEPT ![a] = Consumed(@)]
  <2>1. approvals'[a].consumed
    BY <1>1, <1>5 DEF Consumed, ApprovalRows
  <2>2. ConsumedApprovals' = ConsumedApprovals \cup {a}
    BY <1>1, <1>5, <2>1 DEF ConsumedApprovals
  <2>3. CASE GrantedPlans[a] # None
    BY <1>1, <1>3, <2>2, <2>3 DEF Gate!Next, Gate!Spend
  <2>4. CASE GrantedPlans[a] = None
    <3>1. approvals[a].plan = None
      BY <1>1, <2>4 DEF GrantedPlans
    <3>2. /\ req[r].plan \in Plans
          /\ req[r].plan = approvals[a].plan
      BY DEF PublishConsume, At, GateInvariant, Typed, GoodSlots, WellFormed,
         SlotMatches, Verified
    <3> QED BY <3>1, <3>2, NoPlanAssumption
  <2> QED BY <2>3, <2>4
<1> QED BY <1>4, <1>5 DEF PublishConsume

\* A call of the plan opens, builds or activates.
LEMMA CallBuilds ==
  ASSUME GateInvariant, [Next]_vars, NEW r \in Requests, PublishCall(r)
  PROVE  [Gate!Next]_<<GrantedPlans, ConsumedApprovals, meta>>
<1> DEFINE k == req[r].step
           m == req[r].run
           a == req[r].approval
<1>1. /\ req[r].pc = "call"
      /\ approvals' = approvals /\ granted' = granted
      /\ meta \in [Runs -> EntityTrees]
  BY DEF PublishCall, At, dbVars, GateInvariant, Typed, TypeOK
<1>2. GrantedPlans' = GrantedPlans /\ ConsumedApprovals' = ConsumedApprovals
  BY <1>1 DEF GrantedPlans, ConsumedApprovals
<1>3. m \in Runs /\ k \in 1 .. 2 * Size /\ Size \in Nat \ {0}
  BY <1>1, EffectOfCall
<1>4. CASE meta' = meta
  BY <1>2, <1>4
<1>5. CASE meta' = [meta EXCEPT ![m] = Effect(@, r)]
  <2>1. CASE k = 1
    <3>1. /\ meta[m] = NoTree
          /\ Effect(meta[m], r) = [approval |-> a, plan |-> req[r].plan,
                                   built |-> 1, active |-> {}]
      BY <1>1, <2>1, EffectOfCall
    <3>2. /\ a \in Approvals /\ a \in granted
          /\ req[r].plan = approvals[a].plan /\ approvals[a].consumed
      BY <1>1 DEF GateInvariant, Typed, GoodSlots, WellFormed, SlotMatches, Calling,
         Verified, Spent
    <3>3. a \in ConsumedApprovals /\ GrantedPlans[a] = req[r].plan
      BY <3>2 DEF ConsumedApprovals, GrantedPlans
    <3>4. Gate!Open(m, a)
      BY <1>2, <1>5, <3>1, <3>3 DEF Gate!Open, Gate!Unopened, NoTree
    <3> QED BY <1>3, <3>2, <3>4 DEF Gate!Next
  <2>2. CASE k \in 2 .. Size
    <3>1. /\ meta[m].built = k - 1
          /\ Effect(meta[m], r) = [meta[m] EXCEPT !.built = k]
      BY <1>1, <2>2, EffectOfCall
    <3>2. /\ meta[m].built \in 1 .. (Size - 1)
          /\ meta[m].built + 1 = k
      BY <1>3, <2>2, <3>1
    <3>3. meta' = [meta EXCEPT ![m] = [meta[m] EXCEPT !.built = meta[m].built + 1]]
      BY <1>5, <3>1, <3>2
    <3>4. Gate!Build(m)
      BY <1>1, <1>2, <1>3, <3>2, <3>3 DEF Gate!Build
    <3> QED BY <1>3, <3>4 DEF Gate!Next
  <2>3. CASE k > Size
    <3>1. /\ meta[m].built = Size
          /\ Effect(meta[m], r) = [meta[m] EXCEPT !.active = @ \cup {k - Size}]
      BY <1>1, <2>3, EffectOfCall
    <3>2. k - Size \in 1 .. Size
      BY <1>3, <2>3
    <3>3. meta' = [meta EXCEPT ![m] =
                     [meta[m] EXCEPT !.active = meta[m].active \cup {k - Size}]]
      BY <1>5, <3>1
    <3>4. Gate!Activate(m, k - Size)
      BY <1>1, <1>2, <1>3, <3>1, <3>3 DEF Gate!Activate
    <3> QED BY <1>3, <3>2, <3>4 DEF Gate!Next
  <2> QED BY <1>3, <2>1, <2>2, <2>3
<1> QED BY <1>4, <1>5 DEF PublishCall

\* Pausing halts the tree at its root.
LEMMA PauseHalts ==
  ASSUME GateInvariant, [Next]_vars, NEW r \in Requests, PauseCall(r)
  PROVE  [Gate!Next]_<<GrantedPlans, ConsumedApprovals, meta>>
<1>1. /\ req[r].run \in Runs
      /\ meta \in [Runs -> EntityTrees]
      /\ approvals' = approvals /\ granted' = granted
  BY DEF PauseCall, At, dbVars, GateInvariant, Typed, TypeOK, GoodSlots, WellFormed, Pausing
<1>2. GrantedPlans' = GrantedPlans /\ ConsumedApprovals' = ConsumedApprovals
  BY <1>1 DEF GrantedPlans, ConsumedApprovals
<1>3. CASE meta' = meta
  BY <1>2, <1>3
<1>4. CASE meta' = [meta EXCEPT ![req[r].run].active = @ \ {1}]
  <2>1. Gate!Halt(req[r].run)
    BY <1>2, <1>4 DEF Gate!Halt
  <2> QED BY <1>1, <2>1 DEF Gate!Next
<1> QED BY <1>3, <1>4 DEF PauseCall

LEMMA GateStep ==
  GateInvariant /\ [Next]_vars => [Gate!Next]_<<GrantedPlans, ConsumedApprovals, meta>>
<1> SUFFICES ASSUME GateInvariant, [Next]_vars
             PROVE  [Gate!Next]_<<GrantedPlans, ConsumedApprovals, meta>>
  OBVIOUS
<1>1. CASE UNCHANGED <<approvals, granted>> /\ UNCHANGED meta
  BY <1>1 DEF GrantedPlans, ConsumedApprovals
<1>2. ASSUME NEW r \in Requests, RequestCommit(r)
      PROVE  [Gate!Next]_<<GrantedPlans, ConsumedApprovals, meta>>
  BY <1>2, CommitStutters
<1> QED BY <1>1, <1>2, RowWriters, TreeWriters, DecideGrants, ConsumeSpends,
           CallBuilds, PauseHalts

\* The approval and publish services implement the gate: whatever interleaves,
\* fails or crashes, a Meta tree is only ever opened under a spent grant, with
\* the granted plan, built whole before it is activated, and halted at its root.
THEOREM GateImplemented == Spec => ImplementsGate
<1>1. Init => Gate!Init
  BY GateInitStep
<1>2. GateInvariant /\ [Next]_vars => [Gate!Next]_Gate!vars
  BY GateStep DEF Gate!vars
<1> QED BY <1>1, <1>2, GateAlways, PTL DEF Spec, ImplementsGate, Gate!Spec

-----------------------------------------------------------------------------
(* Requests served one after the other.  Between two awaits of a handler    *)
(* only the surroundings move, and they leave the status, the approvals and *)
(* Meta alone.                                                              *)

\* The program counters at which a handler that runs alone relies on rows.
Relying == {"request", "count", "decide", "follow", "find"} \cup Spending \cup Calling

LEMMA RelyingOnNothing ==
  ASSUME NEW s, NEW c, NEW as, NEW ms, s.pc \notin Relying
  PROVE  SlotHolds(s, c, as, ms)
BY DEF SlotHolds, Relying, Deciding, Spending, Calling, Publishing

SameStatus(c, d) ==
  d.exists = c.exists /\ d.status = c.status /\ d.metaCampaign = c.metaCampaign

LEMMA SurroundingsKeep ==
  ASSUME GateInvariant, Surroundings \/ UNCHANGED vars
  PROVE  /\ req' = req /\ approvals' = approvals /\ meta' = meta /\ granted' = granted
         /\ SameStatus(campaign, campaign')
<1>1. CASE Surroundings
  BY <1>1 DEF Surroundings, ContentChange, SelectAdAccount, SameStatus, GateInvariant,
     Typed, TypeOK, CampaignRows
<1>2. CASE UNCHANGED vars
  BY <1>2 DEF vars, dbVars, SameStatus
<1> QED BY <1>1, <1>2

LEMMA SerialUserRequest ==
  ASSUME SerialInvariant, NEW r \in Requests, UserRequest(r)
  PROVE  SlotHolds(req'[r], campaign', approvals', meta')
<1> USE DEF Start, dbVars
<1>0. req \in [Requests -> GoodSlots]
  BY DEF SerialInvariant, GateInvariant, Typed
<1>1. ASSUME NEW s, Become(r, s)
      PROVE  req'[r] = s
  BY <1>0, <1>1 DEF Become
<1>2. ASSUME NEW u \in Writers, NEW a \in Approvals, RequestApproval(r, u, a)
      PROVE  SlotHolds(req'[r], campaign', approvals', meta')
  <2>1. req'[r] = [Idle EXCEPT !.pc = "bundle", !.user = u, !.approval = a]
    BY <1>1, <1>2 DEF RequestApproval
  <2> QED BY <2>1, RelyingOnNothing DEF Idle, Relying, Spending, Calling
<1>3. ASSUME NEW u \in Approvers, NEW a \in Approvals, NEW v \in Verdicts, Decide(r, u, a, v)
      PROVE  SlotHolds(req'[r], campaign', approvals', meta')
  <2>1. PICK pc \in Deciding :
          req'[r] = [Idle EXCEPT !.pc = pc, !.user = u, !.approval = a, !.verdict = v]
    BY <1>1, <1>3 DEF Decide, Deciding
  <2>2. approvals'[a].status = "PENDING"
    BY <1>3 DEF Decide, Undecided
  <2> QED BY <2>1, <2>2 DEF SlotHolds, Idle, Deciding, Spending, Calling, Publishing
<1>4. ASSUME NEW m \in Runs, Publish(r, m)
      PROVE  SlotHolds(req'[r], campaign', approvals', meta')
  <2>1. req'[r] = [Idle EXCEPT !.pc = "find", !.run = m]
    BY <1>1, <1>4 DEF Publish
  <2>2. campaign'.status # "PUBLISHED"
    BY <1>4 DEF Publish
  <2> QED BY <2>1, <2>2 DEF SlotHolds, Idle, Deciding, Spending, Calling, Publishing
<1>5. CASE Pause(r) \/ Update(r) \/ Remove(r)
  <2>1. req'[r].pc \in {"pauseAccount", "write", "delete"}
    BY <1>1, <1>5 DEF Pause, Update, Remove, Idle
  <2> QED BY <2>1, RelyingOnNothing DEF Relying, Spending, Calling
<1> QED BY <1>2, <1>3, <1>4, <1>5 DEF UserRequest

\* A handler that ends, or moves to a place where it relies on nothing.
LEMMA SerialLeaves ==
  ASSUME req \in [Requests -> GoodSlots], NEW r \in Requests,
         \/ Return(r)
         \/ \E pc \in {"fail", "pauseCall", "pauseSave"} : Goto(r, pc)
  PROVE  SlotHolds(req'[r], campaign', approvals', meta')
<1>1. CASE Return(r)
  <2>1. req'[r] = Idle
    BY <1>1 DEF Return, Become
  <2> QED BY <2>1, RelyingOnNothing DEF Idle, Relying, Spending, Calling
<1>2. ASSUME NEW pc \in {"fail", "pauseCall", "pauseSave"}, Goto(r, pc)
      PROVE  SlotHolds(req'[r], campaign', approvals', meta')
  <2>1. req'[r] = [req[r] EXCEPT !.pc = pc] /\ req[r] \in Slots
    BY <1>2 DEF Goto, Become, GoodSlots
  <2>2. req'[r].pc = pc
    BY <2>1 DEF Slots
  <2> QED BY <2>2, RelyingOnNothing DEF Relying, Spending, Calling
<1> QED BY <1>1, <1>2

\* Requesting, deciding, pausing, editing and deleting.
LEMMA SerialEdits ==
  ASSUME SerialInvariant, NEW r \in Requests,
         \/ RequestBundle(r) \/ RequestSupersede(r) \/ RequestCommit(r)
         \/ DecideCount(r) \/ DecideWrite(r) \/ DecideFollow(r)
         \/ PublishFail(r) \/ PauseAccount(r) \/ PauseCall(r) \/ PauseSave(r)
         \/ UpdateWrite(r) \/ RemoveWrite(r)
  PROVE  SlotHolds(req'[r], campaign', approvals', meta')
<1> USE DEF At, dbVars
<1>0. /\ req \in [Requests -> GoodSlots] /\ req[r] \in Slots /\ WellFormed(req[r])
      /\ SlotHolds(req[r], campaign, approvals, meta)
      /\ approvals \in [Approvals -> ApprovalRows]
  BY DEF SerialInvariant, GateInvariant, Typed, TypeOK, GoodSlots
<1>1. ASSUME NEW s, Become(r, s)
      PROVE  req'[r] = s
  BY <1>0, <1>1 DEF Become
<1>2. ASSUME Return(r)
      PROVE  SlotHolds(req'[r], campaign', approvals', meta')
  BY <1>0, <1>2, SerialLeaves
<1>3. CASE RequestBundle(r)
  <2>1. CASE ~Return(r)
    <3>1. PICK plan : req'[r] = [req[r] EXCEPT !.pc = "supersede", !.plan = plan]
      BY <1>1, <1>3, <2>1 DEF RequestBundle
    <3>2. req'[r].pc = "supersede"
      BY <1>0, <3>1 DEF Slots
    <3> QED BY <3>2, RelyingOnNothing DEF Relying, Spending, Calling
  <2> QED BY <1>2, <2>1
<1>4. CASE RequestSupersede(r)
  <2>1. req'[r] = [req[r] EXCEPT !.pc = "request", !.seen = Superseded]
    BY <1>1, <1>4 DEF RequestSupersede
  <2>2. req'[r].pc = "request" /\ req'[r].seen = Superseded /\ approvals' = approvals
    BY <1>0, <1>4, <2>1 DEF Slots, RequestSupersede
  <2>3. \A a \in Approvals : approvals'[a].status = "PENDING" => a \in req'[r].seen
    BY <2>2 DEF Superseded
  <2> QED BY <2>2, <2>3 DEF SlotHolds, Deciding, Spending, Calling, Publishing
<1>5. CASE DecideCount(r)
  <2>1. CASE Goto(r, "decide")
    <3>1. req'[r] = [req[r] EXCEPT !.pc = "decide"]
      BY <1>1, <2>1 DEF Goto
    <3>2. approvals' = approvals /\ approvals[req[r].approval].status = "PENDING"
      BY <1>0, <1>5 DEF DecideCount, SlotHolds, Deciding
    <3>3. req'[r].pc = "decide" /\ req'[r].approval = req[r].approval
      BY <1>0, <3>1 DEF Slots
    <3> QED BY <3>2, <3>3 DEF SlotHolds, Deciding, Spending, Calling, Publishing
  <2> QED BY <1>2, <1>5, <2>1 DEF DecideCount
<1>6. CASE DecideWrite(r)
  <2>1. req'[r] = [Idle EXCEPT !.pc = "follow", !.verdict = req[r].verdict]
    BY <1>1, <1>6 DEF DecideWrite
  <2>2. req'[r].pc = "follow" /\ req'[r].verdict = req[r].verdict
    BY <2>1 DEF Idle
  <2>3. req[r].approval \in Approvals
    BY <1>0, <1>6 DEF DecideWrite, WellFormed, Deciding
  <2>4. approvals'[req[r].approval].status = req[r].verdict
    BY <1>0, <1>6, <2>3 DEF DecideWrite, ApprovalRows
  <2> QED BY <2>2, <2>3, <2>4 DEF SlotHolds, Deciding, Spending, Calling, Publishing
<1>7. CASE PauseAccount(r)
  BY <1>0, <1>2, <1>7, SerialLeaves DEF PauseAccount
<1>8. CASE PauseCall(r)
  BY <1>0, <1>2, <1>8, SerialLeaves DEF PauseCall
<1>9. CASE \/ RequestCommit(r) \/ DecideFollow(r) \/ PublishFail(r) \/ PauseSave(r)
           \/ UpdateWrite(r) \/ RemoveWrite(r)
  BY <1>2, <1>9 DEF RequestCommit, DecideFollow, PublishFail, PauseSave, UpdateWrite,
     RemoveWrite
<1> QED BY <1>3, <1>4, <1>5, <1>6, <1>7, <1>8, <1>9

\* From the approval that is found to the first call: no tree carries it.
LEMMA SerialSpends ==
  ASSUME SerialInvariant, NEW r \in Requests,
         \/ PublishFind(r) \/ PublishVerify(r) \/ PublishAccount(r)
         \/ PublishConsume(r) \/ PublishContext(r)
  PROVE  SlotHolds(req'[r], campaign', approvals', meta')
<1> USE DEF At, dbVars
<1>0. /\ req \in [Requests -> GoodSlots] /\ req[r] \in Slots /\ WellFormed(req[r])
      /\ SlotHolds(req[r], campaign, approvals, meta)
      /\ approvals \in [Approvals -> ApprovalRows]
      /\ campaign \in CampaignRows
  BY DEF SerialInvariant, GateInvariant, Typed, TypeOK, GoodSlots
<1>1. ASSUME NEW s, Become(r, s)
      PROVE  req'[r] = s
  BY <1>0, <1>1 DEF Become
<1>2. ASSUME Return(r)
      PROVE  SlotHolds(req'[r], campaign', approvals', meta')
  BY <1>0, <1>2, SerialLeaves
<1>3. campaign.status # "PUBLISHED"
  BY <1>0 DEF PublishFind, PublishVerify, PublishAccount, PublishConsume, PublishContext,
     SlotHolds, Publishing, Spending
<1>4. ASSUME req'[r].pc \in {"verify", "account", "consume"},
             approvals'[req'[r].approval].status = "APPROVED",
             campaign' = campaign
      PROVE  SlotHolds(req'[r], campaign', approvals', meta')
  BY <1>3, <1>4 DEF SlotHolds, Deciding, Spending, Calling, Publishing
<1>5. CASE PublishFind(r)
  <2>1. CASE ~Return(r)
    <3>1. PICK a \in Approvals : /\ approvals[a].status = "APPROVED"
                                 /\ req'[r] = [req[r] EXCEPT !.pc = "verify", !.approval = a]
      BY <1>1, <1>5, <2>1 DEF PublishFind, LatestApproved, Publishable
    <3>2. req'[r].pc = "verify" /\ req'[r].approval = a
      BY <1>0, <3>1 DEF Slots
    <3> QED BY <1>4, <1>5, <3>1, <3>2 DEF PublishFind
  <2> QED BY <1>2, <2>1
<1>6. CASE PublishVerify(r)
  <2>1. CASE ~Return(r)
    <3>1. PICK plan : req'[r] = [req[r] EXCEPT !.pc = "account", !.plan = plan]
      BY <1>1, <1>6, <2>1 DEF PublishVerify
    <3>2. req'[r].pc = "account" /\ req'[r].approval = req[r].approval
      BY <1>0, <3>1 DEF Slots
    <3>3. approvals[req[r].approval].status = "APPROVED"
      BY <1>0, <1>6 DEF PublishVerify, SlotHolds, Spending
    <3> QED BY <1>4, <1>6, <3>2, <3>3 DEF PublishVerify
  <2> QED BY <1>2, <2>1
<1>7. CASE PublishAccount(r)
  <2>1. CASE ~Return(r)
    <3>1. req'[r] = [req[r] EXCEPT !.pc = "consume"]
      BY <1>1, <1>7, <2>1 DEF PublishAccount, Goto
    <3>2. req'[r].pc = "consume" /\ req'[r].approval = req[r].approval
      BY <1>0, <3>1 DEF Slots
    <3>3. approvals[req[r].approval].status = "APPROVED"
      BY <1>0, <1>7 DEF PublishAccount, SlotHolds, Spending
    <3> QED BY <1>4, <1>7, <3>2, <3>3 DEF PublishAccount
  <2> QED BY <1>2, <2>1
<1>8. CASE PublishConsume(r)
  <2>1. CASE ~Return(r)
    <3> DEFINE a == req[r].approval
    <3>1. req'[r] = [req[r] EXCEPT !.pc = "context"] /\ meta' = meta
      BY <1>1, <1>8, <2>1 DEF PublishConsume, Goto
    <3>2. req'[r].pc = "context" /\ req'[r].approval = a
      BY <1>0, <3>1 DEF Slots
    <3>3. a \in Approvals /\ approvals[a].status = "APPROVED"
      BY <1>0, <1>8 DEF PublishConsume, SlotHolds, Spending, WellFormed
    <3>4. ~approvals[a].consumed
      BY <3>3 DEF SerialInvariant, StaysConsumed
    <3>5. \A m \in Runs : meta[m].approval # a
      BY <3>3, <3>4, NoneAssumption DEF SerialInvariant, GateInvariant, TreeSound
    <3>6. campaign'.status # "PUBLISHED"
      BY <1>0, <1>8, <2>1 DEF PublishConsume, StartedStatus, CampaignRows
    <3> QED BY <3>1, <3>2, <3>5, <3>6 DEF SlotHolds, Deciding, Spending, Calling, Publishing
  <2> QED BY <1>2, <2>1
<1>9. CASE PublishContext(r)
  <2>1. CASE ~Return(r)
    <3>1. /\ req'[r] = [req[r] EXCEPT !.pc = "call", !.step = 1]
          /\ meta' = meta /\ campaign' = campaign
      BY <1>1, <1>9, <2>1 DEF PublishContext
    <3>2. req'[r].pc = "call" /\ req'[r].step = 1 /\ req'[r].approval = req[r].approval
      BY <1>0, <3>1 DEF Slots
    <3>3. \A m \in Runs : meta[m].approval # req[r].approval
      BY <1>0, <1>9 DEF PublishContext, SlotHolds
    <3>4. ~(1 > 1) /\ ~(1 > Size)
      BY SizeAssumption
    <3> QED BY <1>3, <3>1, <3>2, <3>3, <3>4
        DEF SlotHolds, Deciding, Spending, Calling, Publishing
  <2> QED BY <1>2, <2>1
<1> QED BY <1>5, <1>6, <1>7, <1>8, <1>9

\* What holds once the loop has gone past a step of the plan.
LEMMA SerialAdvances ==
  ASSUME req \in [Requests -> GoodSlots], NEW r \in Requests, Advance(r),
         req[r].pc \in {"call", "save"},
         campaign'.status # "PUBLISHED",
         campaign'.metaCampaign = req[r].run,
         req[r].step > Size =>
           1 .. (req[r].step - Size) \subseteq meta'[req[r].run].active,
         req[r].step = PlanLength => meta'[req[r].run].built = Size
  PROVE  SlotHolds(req'[r], campaign', approvals', meta')
<1> DEFINE k == req[r].step
           m == req[r].run
<1>0. /\ req[r] \in Slots /\ k \in 1 .. 2 * Size /\ Size \in Nat \ {0}
  BY SizeAssumption DEF GoodSlots, WellFormed
<1>1. CASE k = PlanLength
  <2>1. req'[r] = [req[r] EXCEPT !.pc = "finish"]
    BY <1>1 DEF Advance, Goto, Become
  <2>2. req'[r].pc = "finish" /\ req'[r].run = m
    BY <1>0, <2>1 DEF Slots
  <2>3. Entities \subseteq meta'[m].active
    BY <1>0, <1>1 DEF PlanLength, Entities
  <2> QED BY <1>1, <2>2, <2>3 DEF SlotHolds, Deciding, Spending, Calling, Publishing
<1>2. CASE k # PlanLength
  <2>1. req'[r] = [req[r] EXCEPT !.pc = "call", !.step = k + 1]
    BY <1>2 DEF Advance, Become
  <2>2. req'[r].pc = "call" /\ req'[r].run = m /\ req'[r].step = k + 1
    BY <1>0, <2>1 DEF Slots
  <2>3. k + 1 # 1
    BY <1>0
  <2>4. k + 1 > Size => 1 .. (k + 1 - Size - 1) \subseteq meta'[m].active
    <3>1. CASE k > Size
      <4>1. k + 1 - Size - 1 = k - Size
        BY <1>0
      <4> QED BY <3>1, <4>1
    <3>2. CASE k + 1 > Size /\ ~(k > Size)
      <4>1. k + 1 - Size - 1 = 0
        BY <1>0, <3>2
      <4> QED BY <4>1
    <3> QED BY <3>1, <3>2
  <2>5. campaign'.metaCampaign = m
    OBVIOUS
  <2>6. req'[r].step > Size =>
          1 .. (req'[r].step - Size - 1) \subseteq meta'[req'[r].run].active
    <3>1. /\ req'[r].step \in Nat /\ Size \in Nat
          /\ req'[r].step - Size - 1 = k + 1 - Size - 1
      BY <1>0, <2>2
    <3> QED BY <2>2, <2>4, <3>1
  <2>7. /\ campaign'.metaCampaign = req'[r].run
        /\ req'[r].pc = "call" /\ req'[r].step # 1
    BY <2>2, <2>3, <2>5
  <2> HIDE DEF k, m
  <2> QED BY <2>6, <2>7 DEF SlotHolds, Deciding, Spending, Calling, Publishing
<1> QED BY <1>1, <1>2

LEMMA SerialCalls ==
  ASSUME SerialInvariant, NEW r \in Requests,
         PublishCall(r) \/ PublishSave(r) \/ PublishFinish(r)
  PROVE  SlotHolds(req'[r], campaign', approvals', meta')
<1> USE DEF At, dbVars
<1> DEFINE k == req[r].step
           m == req[r].run
<1>0. /\ req \in [Requests -> GoodSlots] /\ req[r] \in Slots /\ WellFormed(req[r])
      /\ SlotHolds(req[r], campaign, approvals, meta)
      /\ meta \in [Runs -> EntityTrees]
      /\ campaign \in CampaignRows
      /\ GateInvariant
  BY DEF SerialInvariant, GateInvariant, Typed, TypeOK, GoodSlots
<1>1. ASSUME NEW pc, Goto(r, pc)
      PROVE  /\ req'[r].pc = pc /\ req'[r].run = m /\ req'[r].step = k
  <2>1. req'[r] = [req[r] EXCEPT !.pc = pc]
    BY <1>0, <1>1 DEF Goto, Become
  <2> QED BY <1>0, <2>1 DEF Slots
<1>2. campaign.status # "PUBLISHED" /\ Size \in Nat \ {0}
  BY <1>0, SizeAssumption DEF PublishCall, PublishSave, PublishFinish, SlotHolds,
     Publishing, Calling
<1>3. CASE PublishCall(r)
  <2>0. /\ m \in Runs /\ k \in 1 .. 2 * Size
        /\ campaign' = campaign
        /\ k > Size => /\ meta[m].built = Size
                       /\ Effect(meta[m], r) = [meta[m] EXCEPT !.active = @ \cup {k - Size}]
    BY <1>0, <1>3, EffectOfCall DEF PublishCall
  <2>1. CASE Goto(r, "fail")
    BY <1>0, <2>1, SerialLeaves
  <2>2. CASE Goto(r, "save")
    <3>1. k > 1 => campaign.metaCampaign = m
      BY <1>0, <1>3 DEF PublishCall, SlotHolds
    <3> QED BY <1>1, <1>2, <2>0, <2>2, <3>1
        DEF SlotHolds, Deciding, Spending, Calling, Publishing
  <2>3. CASE ~Goto(r, "fail") /\ ~Goto(r, "save")
    <3>1. /\ meta' = [meta EXCEPT ![m] = Effect(@, r)]
          /\ PlanStep(k).action # "create" /\ Advance(r)
      BY <1>3, <2>3 DEF PublishCall
    <3>2. k > Size
      BY <1>2, <2>0, <3>1 DEF PlanStep
    <3>3. meta'[m] = [meta[m] EXCEPT !.active = @ \cup {k - Size}]
      BY <1>0, <2>0, <3>1, <3>2
    <3>4. /\ meta[m] \in EntityTrees
          /\ meta'[m].built = Size /\ meta'[m].active = meta[m].active \cup {k - Size}
      BY <1>0, <2>0, <3>2, <3>3 DEF EntityTrees
    <3>5. 1 .. (k - Size - 1) \subseteq meta[m].active /\ campaign.metaCampaign = m
      BY <1>0, <1>2, <1>3, <2>0, <3>2 DEF PublishCall, SlotHolds
    <3>6. 1 .. (k - Size) \subseteq meta'[m].active
      <4> SUFFICES ASSUME NEW j \in 1 .. (k - Size) PROVE j \in meta'[m].active
        OBVIOUS
      <4>1. j = k - Size \/ j \in 1 .. (k - Size - 1)
        BY <1>2, <2>0
      <4> QED BY <3>4, <3>5, <4>1
    <3> QED BY <1>0, <1>2, <1>3, <2>0, <3>1, <3>4, <3>5, <3>6, SerialAdvances
        DEF PublishCall
  <2> QED BY <2>1, <2>2, <2>3
<1>4. CASE PublishSave(r)
  <2>1. CASE Goto(r, "fail")
    BY <1>0, <2>1, SerialLeaves
  <2>2. CASE ~Goto(r, "fail")
    <3>1. /\ k \in 1 .. Size /\ Advance(r) /\ meta' = meta
          /\ campaign' = IF k = 1 THEN [campaign EXCEPT !.metaCampaign = m] ELSE campaign
      BY <1>0, <1>4, <2>2 DEF PublishSave, WellFormed
    <3>2. campaign'.metaCampaign = m /\ campaign'.status # "PUBLISHED"
      <4>1. CASE k = 1
        BY <1>0, <1>2, <3>1, <4>1 DEF CampaignRows
      <4>2. CASE k # 1
        <5>1. k > 1
          BY <3>1, <4>2
        <5>2. campaign.metaCampaign = m
          BY <1>0, <1>4, <5>1 DEF PublishSave, SlotHolds
        <5> QED BY <1>2, <3>1, <4>2, <5>2
      <4> QED BY <4>1, <4>2
    <3>3. ~(k > Size) /\ k # PlanLength
      BY <1>2, <3>1 DEF PlanLength
    <3> QED BY <1>0, <1>4, <3>1, <3>2, <3>3, SerialAdvances DEF PublishSave
  <2> QED BY <2>1, <2>2
<1>5. CASE PublishFinish(r)
  BY <1>0, <1>5, SerialLeaves DEF PublishFinish
<1> QED BY <1>3, <1>4, <1>5
LEMMA SerialSlots ==
  ASSUME OneRequest, SerialInvariant, [Next]_vars, NEW q \in Requests
  PROVE  SlotHolds(req'[q], campaign', approvals', meta')
<1>1. CASE Surroundings \/ UNCHANGED vars
  <2>1. SlotHolds(req[q], campaign, approvals, meta) /\ GateInvariant
    BY DEF SerialInvariant
  <2>2. /\ req' = req /\ approvals' = approvals /\ meta' = meta
        /\ campaign'.status = campaign.status
        /\ campaign'.metaCampaign = campaign.metaCampaign
    BY <1>1, <2>1, SurroundingsKeep DEF SameStatus
  <2>3. SlotHolds(req[q], campaign', approvals, meta)
    BY <2>1, <2>2 DEF SlotHolds
  <2> QED BY <2>2, <2>3
<1>2. CASE \E r \in Requests : UserRequest(r) \/ Serve(r) \/ Crash(r)
  <2>1. UserRequest(q) \/ Serve(q) \/ Crash(q)
    BY <1>2 DEF OneRequest
  <2>2. CASE Crash(q)
    BY <2>2, SerialLeaves DEF Crash, SerialInvariant, GateInvariant, Typed
  <2>3. CASE Serve(q)
    BY <2>3, SerialEdits, SerialSpends, SerialCalls DEF Serve
  <2> QED BY <2>1, <2>2, <2>3, SerialUserRequest
<1> QED BY <1>1, <1>2 DEF Next

\* A superseding request leaves one PENDING row; only a PENDING row is decided,
\* so that a consumed one keeps its status.
LEMMA SerialRows ==
  ASSUME SerialInvariant, [Next]_vars
  PROVE  /\ \A a \in Approvals : StaysConsumed(approvals'[a])
         /\ AtMostOnePending'
<1>0. /\ approvals \in [Approvals -> ApprovalRows]
      /\ \A a \in Approvals : StaysConsumed(approvals[a])
      /\ AtMostOnePending
      /\ req \in [Requests -> GoodSlots]
      /\ \A r \in Requests : SlotHolds(req[r], campaign, approvals, meta)
  BY DEF SerialInvariant, GateInvariant, Typed, TypeOK
<1>1. CASE UNCHANGED <<approvals, granted>>
  BY <1>0, <1>1 DEF AtMostOnePending
<1>2. ASSUME NEW r \in Requests, RequestCommit(r), approvals' # approvals
      PROVE  /\ \A a \in Approvals : StaysConsumed(approvals'[a])
             /\ AtMostOnePending'
  <2> DEFINE new == req[r].approval
  <2>1. \A a \in Approvals : approvals[a].status = "PENDING" => a \in req[r].seen
    BY <1>0, <1>2 DEF RequestCommit, At, SlotHolds
  <2>2. ASSUME NEW a \in Approvals
        PROVE  /\ StaysConsumed(approvals'[a])
               /\ a # new => approvals'[a].status # "PENDING"
    <3>1. CASE a = new
      BY <1>2, <3>1 DEF RequestCommit, NewApproval, NoApproval, StaysConsumed
    <3>2. CASE a # new /\ approvals[a].status = "PENDING"
      <4>1. approvals'[a] = [approvals[a] EXCEPT !.status = "EXPIRED"]
        BY <1>2, <2>1, <3>2 DEF RequestCommit
      <4>2. ~approvals[a].consumed
        BY <1>0, <3>2 DEF StaysConsumed
      <4> QED BY <1>0, <3>2, <4>1, <4>2 DEF ApprovalRows, StaysConsumed
    <3>3. CASE a # new /\ approvals[a].status # "PENDING"
      BY <1>0, <1>2, <3>3 DEF RequestCommit
    <3> QED BY <3>1, <3>2, <3>3
  <2> QED BY <2>2 DEF AtMostOnePending
<1>3. ASSUME NEW r \in Requests, DecideWrite(r)
      PROVE  /\ \A a \in Approvals : StaysConsumed(approvals'[a])
             /\ AtMostOnePending'
  <2> DEFINE d == req[r].approval
  <2>1. /\ d \in Approvals /\ approvals[d].status = "PENDING"
        /\ req[r].verdict # "PENDING"
    BY <1>0, <1>3
    DEF DecideWrite, At, SlotHolds, Deciding, GoodSlots, Slots, WellFormed, Verdicts
  <2>2. ASSUME NEW a \in Approvals, a # d
        PROVE  approvals'[a] = approvals[a]
    BY <1>0, <1>3, <2>2 DEF DecideWrite
  <2>3. /\ approvals'[d].status = req[r].verdict
        /\ approvals'[d].consumed = approvals[d].consumed
    BY <1>0, <1>3, <2>1 DEF DecideWrite, ApprovalRows
  <2>4. ~approvals'[d].consumed
    BY <1>0, <2>1, <2>3 DEF StaysConsumed
  <2>5. \A a \in Approvals : StaysConsumed(approvals'[a])
    BY <1>0, <2>2, <2>4 DEF StaysConsumed
  <2>6. \A a \in Approvals :
          approvals'[a].status = "PENDING" => approvals[a].status = "PENDING"
    BY <2>1, <2>2, <2>3
  <2> QED BY <1>0, <2>5, <2>6 DEF AtMostOnePending
<1>4. ASSUME NEW r \in Requests, PublishConsume(r), approvals' # approvals
      PROVE  /\ \A a \in Approvals : StaysConsumed(approvals'[a])
             /\ AtMostOnePending'
  <2> DEFINE d == req[r].approval
  <2>1. approvals' = [approvals EXCEPT ![d] = Consumed(@)]
    BY <1>4 DEF PublishConsume
  <2>2. \A a \in Approvals : \/ approvals'[a] = approvals[a]
                             \/ approvals'[a] = Consumed(approvals[a])
    BY <1>0, <2>1
  <2>3. \A row \in ApprovalRows : /\ StaysConsumed(Consumed(row))
                                  /\ Consumed(row).status # "PENDING"
    BY DEF Consumed, StaysConsumed, ApprovalRows
  <2>4. \A a \in Approvals :
          /\ StaysConsumed(approvals'[a])
          /\ approvals'[a].status = "PENDING" => approvals[a].status = "PENDING"
    BY <1>0, <2>2, <2>3
  <2> QED BY <1>0, <2>4 DEF AtMostOnePending
<1>5. CASE approvals' = approvals
  BY <1>0, <1>5 DEF AtMostOnePending
<1> QED BY <1>1, <1>2, <1>3, <1>4, <1>5, RowWriters

-----------------------------------------------------------------------------
(* The status of the campaign.                                             *)

LEMMA StatusWriters ==
  ASSUME GateInvariant, [Next]_vars
  PROVE  \/ \E r \in Requests :
              \/ RequestCommit(r) \/ DecideFollow(r) \/ PublishConsume(r)
              \/ PublishSave(r) \/ PublishFinish(r) \/ PublishFail(r)
              \/ PauseSave(r) \/ RemoveWrite(r)
         \/ SameStatus(campaign, campaign')
<1>0. campaign \in CampaignRows
  BY DEF GateInvariant, Typed, TypeOK
<1>1. ASSUME NEW r \in Requests, UserRequest(r)
      PROVE  campaign' = campaign
  BY <1>1 DEF UserRequest, RequestApproval, Decide, Publish, Pause, Update, Remove, dbVars
<1>2. ASSUME NEW r \in Requests, Serve(r),
             ~RequestCommit(r), ~DecideFollow(r), ~PublishConsume(r), ~PublishSave(r),
             ~PublishFinish(r), ~PublishFail(r), ~PauseSave(r), ~UpdateWrite(r),
             ~RemoveWrite(r)
      PROVE  campaign' = campaign
  BY <1>2 DEF Serve, RequestBundle, RequestSupersede, DecideCount, DecideWrite,
     PublishFind, PublishVerify, PublishAccount, PublishContext, PublishCall,
     PauseAccount, PauseCall, dbVars
<1>3. ASSUME NEW r \in Requests, UpdateWrite(r)
      PROVE  SameStatus(campaign, campaign')
  BY <1>0, <1>3 DEF UpdateWrite, Rewritten, SameStatus, CampaignRows
<1>4. ASSUME NEW r \in Requests, Crash(r)
      PROVE  campaign' = campaign
  BY <1>4 DEF Crash, dbVars
<1>5. CASE Surroundings \/ UNCHANGED vars
  BY <1>5, SurroundingsKeep
<1> QED BY <1>1, <1>2, <1>3, <1>4, <1>5 DEF Next, SameStatus

\* APPROVED is written after the decision, and taken away before the approval is.
LEMMA SerialApproved ==
  ASSUME SerialInvariant, [Next]_vars
  PROVE  ApprovedHasApproval'
<1>0. /\ campaign \in CampaignRows
      /\ approvals \in [Approvals -> ApprovalRows]
      /\ req \in [Requests -> GoodSlots]
      /\ ApprovedHasApproval /\ GateInvariant
      /\ \A r \in Requests : SlotHolds(req[r], campaign, approvals, meta)
  BY DEF SerialInvariant, GateInvariant, Typed, TypeOK, StatusIsEarned
\* What is left of the approvals when the status was APPROVED already.
<1>1. ASSUME campaign.exists, campaign.status = "APPROVED",
             campaign'.exists, campaign'.status = "APPROVED"
      PROVE  \E a \in Approvals : approvals'[a].status = "APPROVED"
  <2>1. PICK a \in Approvals : approvals[a].status = "APPROVED"
    BY <1>0, <1>1 DEF ApprovedHasApproval
  <2>2. ASSUME NEW r \in Requests, RequestCommit(r)
        PROVE  approvals'[a] = approvals[a]
    <3>1. approvals' = approvals
      BY <1>0, <1>1, <2>2 DEF RequestCommit, Found, CampaignRows
    <3> QED BY <3>1
  <2>3. ASSUME NEW r \in Requests, DecideWrite(r)
        PROVE  approvals'[a] = approvals[a]
    <3>1. a # req[r].approval
      BY <1>0, <2>1, <2>3 DEF DecideWrite, At, SlotHolds, Deciding
    <3> QED BY <1>0, <2>3, <3>1 DEF DecideWrite
  <2>4. ASSUME NEW r \in Requests, PublishConsume(r)
        PROVE  approvals'[a] = approvals[a]
    <3>1. approvals' = approvals
      BY <1>0, <1>1, <2>4 DEF PublishConsume, StartedStatus, Found, CampaignRows
    <3> QED BY <3>1
  <2>5. approvals'[a] = approvals[a]
    BY <2>2, <2>3, <2>4, RowWriters
  <2> QED BY <2>1, <2>5
<1>2. ASSUME NEW r \in Requests, DecideFollow(r),
             campaign'.exists, campaign'.status = "APPROVED"
      PROVE  \E a \in Approvals : approvals'[a].status = "APPROVED"
  <2>1. CASE req[r].verdict = "APPROVED"
    BY <1>0, <1>2, <2>1 DEF DecideFollow, At, SlotHolds
  <2>2. CASE req[r].verdict # "APPROVED"
    <3>1. campaign.exists /\ campaign.status = "APPROVED"
      BY <1>0, <1>2, <2>2 DEF DecideFollow, Found, CampaignRows
    <3> QED BY <1>1, <1>2, <3>1
  <2> QED BY <2>1, <2>2
<1>3. ASSUME NEW r \in Requests,
             \/ RequestCommit(r) \/ PublishConsume(r)
             \/ PublishSave(r) \/ PublishFinish(r) \/ PublishFail(r)
             \/ PauseSave(r) \/ RemoveWrite(r),
             campaign'.exists, campaign'.status = "APPROVED"
      PROVE  campaign.exists /\ campaign.status = "APPROVED"
  BY <1>0, <1>3 DEF RequestCommit, PublishConsume, PublishSave, PublishFinish, PublishFail,
     PauseSave, RemoveWrite, StartedStatus, FailedStatus, Found, CampaignRows
<1>4. CASE SameStatus(campaign, campaign')
  BY <1>1, <1>4 DEF SameStatus, ApprovedHasApproval
<1> QED BY <1>0, <1>1, <1>2, <1>3, <1>4, StatusWriters DEF ApprovedHasApproval

\* PUBLISHED is written when the plan is done, and no publish starts under it.
LEMMA SerialPublished ==
  ASSUME SerialInvariant, [Next]_vars
  PROVE  PublishedIsComplete'
<1>0. /\ campaign \in CampaignRows
      /\ meta \in [Runs -> EntityTrees]
      /\ req \in [Requests -> GoodSlots]
      /\ PublishedIsComplete /\ GateInvariant
      /\ \A r \in Requests : SlotHolds(req[r], campaign, approvals, meta)
  BY DEF SerialInvariant, GateInvariant, Typed, TypeOK, StatusIsEarned
<1>1. ASSUME SameStatus(campaign, campaign'), campaign.exists,
             campaign.status = "PUBLISHED"
      PROVE  PublishedIsComplete'
  <2> DEFINE m == campaign.metaCampaign
  <2>1. /\ m \in Runs /\ m # None
        /\ meta[m].built = Size /\ Entities \ {1} \subseteq meta[m].active
    BY <1>0, <1>1 DEF PublishedIsComplete, CampaignRows
  <2>2. ASSUME NEW r \in Requests, PublishCall(r)
        PROVE  FALSE
    BY <1>0, <1>1, <2>2 DEF PublishCall, At, SlotHolds, Publishing, Calling
  <2>3. ASSUME NEW r \in Requests, PauseCall(r)
        PROVE  \/ meta'[m] = meta[m]
               \/ meta'[m] = [meta[m] EXCEPT !.active = @ \ {1}]
    BY <1>0, <2>1, <2>3 DEF PauseCall
  <2>4. \/ meta'[m] = meta[m]
        \/ meta'[m] = [meta[m] EXCEPT !.active = @ \ {1}]
    BY <2>2, <2>3, TreeWriters
  <2>5. meta[m] \in EntityTrees
    BY <1>0, <2>1
  <2>6. meta'[m].built = Size /\ Entities \ {1} \subseteq meta'[m].active
    BY <2>1, <2>4, <2>5 DEF EntityTrees
  <2>7. campaign'.metaCampaign = m
    BY <1>1 DEF SameStatus
  <2> QED BY <2>1, <2>6, <2>7 DEF PublishedIsComplete
<1>2. CASE SameStatus(campaign, campaign')
        /\ ~(campaign.exists /\ campaign.status = "PUBLISHED")
  BY <1>2 DEF SameStatus, PublishedIsComplete
<1>3. ASSUME NEW r \in Requests, PublishFinish(r)
      PROVE  PublishedIsComplete'
  <2> DEFINE m == req[r].run
  <2>1. CASE Found
    <3>1. /\ m \in Runs /\ campaign.metaCampaign = m
          /\ meta[m].built = Size /\ Entities \subseteq meta[m].active
      BY <1>0, <1>3 DEF PublishFinish, At, SlotHolds, GoodSlots, WellFormed, Calling
    <3>2. meta' = meta /\ campaign'.metaCampaign = m
      BY <1>0, <1>3, <2>1, <3>1 DEF PublishFinish, CampaignRows
    <3> QED BY <3>1, <3>2, NoneAssumption DEF PublishedIsComplete
  <2>2. CASE ~Found
    BY <1>3, <2>2 DEF PublishFinish, PublishedIsComplete, Found
  <2> QED BY <2>1, <2>2
<1>4. ASSUME NEW r \in Requests, PublishSave(r)
      PROVE  PublishedIsComplete'
  <2>1. campaign.status # "PUBLISHED"
    BY <1>0, <1>4 DEF PublishSave, At, SlotHolds, Publishing, Calling
  <2>2. campaign'.status = campaign.status
    BY <1>0, <1>4 DEF PublishSave, CampaignRows
  <2> QED BY <2>1, <2>2 DEF PublishedIsComplete
<1>5. ASSUME NEW r \in Requests,
             \/ RequestCommit(r) \/ DecideFollow(r) \/ PublishConsume(r)
             \/ PublishFail(r) \/ PauseSave(r) \/ RemoveWrite(r)
      PROVE  \/ campaign' = campaign
             \/ ~campaign'.exists
             \/ campaign'.status # "PUBLISHED"
  BY <1>0, <1>5 DEF RequestCommit, DecideFollow, PublishConsume, PublishFail,
     PauseSave, RemoveWrite, StartedStatus, FailedStatus, Found, CampaignRows
<1>6. ASSUME NEW r \in Requests,
             \/ RequestCommit(r) \/ DecideFollow(r) \/ PublishConsume(r)
             \/ PublishFail(r) \/ PauseSave(r) \/ RemoveWrite(r)
      PROVE  PublishedIsComplete'
  BY <1>1, <1>2, <1>5, <1>6 DEF SameStatus, PublishedIsComplete
<1> QED BY <1>0, <1>1, <1>2, <1>3, <1>4, <1>6, StatusWriters

-----------------------------------------------------------------------------
(* The serial invariant and what it gives.                                 *)

LEMMA SerialInit == Init => SerialInvariant
<1> SUFFICES ASSUME Init PROVE SerialInvariant
  OBVIOUS
<1>1. \A r \in Requests : SlotHolds(req[r], campaign, approvals, meta)
  BY RelyingOnNothing DEF Init, Idle, Relying, Spending, Calling
<1>2. \A a \in Approvals : approvals[a] = NoApproval
  BY DEF Init
<1>3. \A a \in Approvals : StaysConsumed(approvals[a]) /\ approvals[a].status = "ABSENT"
  BY <1>2 DEF NoApproval, StaysConsumed
<1>4. StatusIsEarned
  BY DEF Init, StatusIsEarned, PublishedIsComplete, ApprovedHasApproval
<1> QED BY <1>1, <1>3, <1>4, GateInit DEF SerialInvariant, AtMostOnePending

LEMMA SerialNext == OneRequest /\ SerialInvariant /\ [Next]_vars => SerialInvariant'
<1> SUFFICES ASSUME OneRequest, SerialInvariant, [Next]_vars PROVE SerialInvariant'
  OBVIOUS
<1>1. GateInvariant'
  BY GateNext DEF SerialInvariant
<1>2. \A r \in Requests : SlotHolds(req'[r], campaign', approvals', meta')
  BY SerialSlots
<1>3. /\ \A a \in Approvals : StaysConsumed(approvals'[a])
      /\ AtMostOnePending'
  BY SerialRows
<1>4. StatusIsEarned'
  BY SerialApproved, SerialPublished DEF StatusIsEarned
<1> QED BY <1>1, <1>2, <1>3, <1>4 DEF SerialInvariant

LEMMA SerialAlways == OneRequest /\ Spec => []SerialInvariant
<1>1. CASE OneRequest
  <2>1. SerialInvariant /\ [Next]_vars => SerialInvariant'
    BY <1>1, SerialNext
  <2> QED BY <2>1, SerialInit, PTL DEF Spec
<1>2. CASE ~OneRequest
  BY <1>2
<1> QED BY <1>1, <1>2

\* Requests served one after the other leave at most one approval open: the
\* superseding statement of requestApproval expires every earlier one, whatever
\* crashes in between (approvals.service.ts).
THEOREM AtMostOnePendingAlways == OneRequest /\ Spec => []AtMostOnePending
<1>1. SerialInvariant => AtMostOnePending
  BY DEF SerialInvariant
<1> QED BY <1>1, SerialAlways, PTL

\* Without overlapping requests the status shown for a campaign is earned: a
\* PUBLISHED one has its whole tree at Meta, active below the root, and an
\* APPROVED one an approval to publish with, for plans of any size, a failure
\* at any call and edits of its content at any time (publish.service.ts,
\* approvals.service.ts decide).
THEOREM StatusIsEarnedAlways == OneRequest /\ Spec => []StatusIsEarned
<1>1. SerialInvariant => StatusIsEarned
  BY DEF SerialInvariant
<1> QED BY <1>1, SerialAlways, PTL
-----------------------------------------------------------------------------
(* The single-use gate: a tree is opened by a first call only, and then no  *)
(* other tree carries its approval.                                         *)

LEMMA OpensOnce ==
  ASSUME SerialInvariant, [Next]_vars, NEW t \in Runs, NEW g \in Approvals,
         Gate!Open(t, g)
  PROVE  \A u \in Runs : meta[u].approval # g
<1>0. /\ meta \in [Runs -> EntityTrees] /\ GateInvariant
      /\ \A r \in Requests : SlotHolds(req[r], campaign, approvals, meta)
  BY DEF SerialInvariant, GateInvariant, Typed, TypeOK
<1>1. /\ meta[t] = NoTree
      /\ meta'[t].approval = g /\ meta'[t].built = 1
  BY <1>0 DEF Gate!Open, Gate!Unopened, NoTree
<1>2. meta[t].built = 0 /\ meta[t].approval = None
  BY <1>1 DEF NoTree
<1>3. ASSUME NEW r \in Requests, PauseCall(r)
      PROVE  FALSE
  <2>1. meta'[t].built = meta[t].built
    BY <1>0, <1>3 DEF PauseCall, EntityTrees
  <2> QED BY <1>1, <1>2, <2>1
<1>4. ASSUME NEW r \in Requests, PublishCall(r)
      PROVE  \A u \in Runs : meta[u].approval # g
  <2> DEFINE k == req[r].step
             m == req[r].run
  <2>1. req[r].pc = "call"
    BY <1>4 DEF PublishCall, At
  <2>2. t = m /\ meta'[t] = Effect(meta[t], r)
    BY <1>0, <1>1, <1>2, <1>4 DEF PublishCall
  <2>3. k \in 1 .. 2 * Size /\ Size \in Nat \ {0}
    BY <1>0, <2>1, EffectOfCall
  <2>4. k = 1
    <3>1. ~(k \in 2 .. Size) /\ ~(k > Size)
      BY <1>0, <1>2, <2>1, <2>2, EffectOfCall
    <3> QED BY <2>3, <3>1
  <2>5. meta'[t].approval = req[r].approval
    <3>1. Effect(meta[m], r) = [approval |-> req[r].approval, plan |-> req[r].plan,
                                built |-> 1, active |-> {}]
      BY <1>0, <2>1, <2>4, EffectOfCall
    <3> QED BY <2>2, <3>1
  <2>6. \A u \in Runs : meta[u].approval # req[r].approval
    BY <1>0, <2>1, <2>4 DEF SlotHolds
  <2> QED BY <1>1, <2>5, <2>6
<1>5. CASE UNCHANGED meta
  BY <1>1, <1>2, <1>5
<1> QED BY <1>3, <1>4, <1>5, TreeWriters

LEMMA OnceGateStep ==
  SerialInvariant /\ [Next]_vars
    => [OnceGate!Next]_<<GrantedPlans, ConsumedApprovals, meta>>
<1> SUFFICES ASSUME SerialInvariant, [Next]_vars
             PROVE  [OnceGate!Next]_<<GrantedPlans, ConsumedApprovals, meta>>
  OBVIOUS
<1>1. [Gate!Next]_<<GrantedPlans, ConsumedApprovals, meta>>
  BY GateStep DEF SerialInvariant
<1>2. ASSUME NEW t \in Runs, NEW g \in Approvals, Gate!Open(t, g)
      PROVE  OnceGate!Open(t, g)
  <2>1. \A u \in Runs : meta[u].approval # g
    BY <1>2, OpensOnce
  <2> QED BY <1>2, <2>1 DEF Gate!Open, OnceGate!Open, Gate!Unopened, OnceGate!Unopened
<1>3. ASSUME NEW g \in Approvals, NEW p \in Plans, Gate!Grant(g, p)
      PROVE  OnceGate!Grant(g, p)
  BY <1>3 DEF Gate!Grant, OnceGate!Grant
<1>4. ASSUME NEW g \in Approvals, Gate!Spend(g)
      PROVE  OnceGate!Spend(g)
  BY <1>4 DEF Gate!Spend, OnceGate!Spend
<1>5. ASSUME NEW t \in Runs, Gate!Build(t) \/ Gate!Halt(t)
      PROVE  OnceGate!Build(t) \/ OnceGate!Halt(t)
  BY <1>5 DEF Gate!Build, OnceGate!Build, Gate!Halt, OnceGate!Halt
<1>6. ASSUME NEW t \in Runs, NEW e \in 1 .. Size, Gate!Activate(t, e)
      PROVE  OnceGate!Activate(t, e)
  BY <1>6 DEF Gate!Activate, OnceGate!Activate
<1> QED BY <1>1, <1>2, <1>3, <1>4, <1>5, <1>6 DEF Gate!Next, OnceGate!Next

\* Served one after the other, the services implement the single-use gate: an
\* approval opens at most one Meta tree for ever, whatever call fails, whatever
\* answer is lost and wherever the process dies (publish.service.ts, "Requires
\* an APPROVED, unconsumed ... Approval").
THEOREM SingleUseGateImplemented == OneRequest /\ Spec => ImplementsSingleUseGate
<1>1. Init => OnceGate!Init
  BY GateInitStep DEF Gate!Init, OnceGate!Init, Gate!Unopened, OnceGate!Unopened
<1>2. SerialInvariant /\ [Next]_vars => [OnceGate!Next]_OnceGate!vars
  BY OnceGateStep DEF OnceGate!vars
<1> QED BY <1>1, <1>2, SerialAlways, PTL
    DEF Spec, ImplementsSingleUseGate, OnceGate!Spec
-----------------------------------------------------------------------------
(* What publish.service.ts says of itself, and two publishes of the same    *)
(* approval at the same time refute.                                        *)

LEMMA OnePublishStep ==
  SerialInvariant /\ OnePublishPerApproval /\ [Next]_vars => OnePublishPerApproval'
<1> SUFFICES ASSUME SerialInvariant, OnePublishPerApproval, [Next]_vars,
                    NEW m \in Runs, NEW n \in Runs,
                    Opened(m)', Opened(n)', m # n
             PROVE  meta'[m].approval # meta'[n].approval
  BY DEF OnePublishPerApproval, Opened
<1>0. /\ meta \in [Runs -> EntityTrees] /\ GateInvariant
      /\ \A r \in Requests : SlotHolds(req[r], campaign, approvals, meta)
  BY DEF SerialInvariant, GateInvariant, Typed, TypeOK
<1>1. ASSUME \A u \in Runs : meta'[u].approval = meta[u].approval
      PROVE  meta'[m].approval # meta'[n].approval
  BY <1>1 DEF OnePublishPerApproval, Opened
<1>2. ASSUME NEW r \in Requests, PauseCall(r)
      PROVE  \A u \in Runs : meta'[u].approval = meta[u].approval
  BY <1>0, <1>2 DEF PauseCall, EntityTrees
<1>3. ASSUME NEW r \in Requests, PublishCall(r)
      PROVE  meta'[m].approval # meta'[n].approval
  <2> DEFINE k == req[r].step
             x == req[r].run
  <2>1. req[r].pc = "call" /\ \A u \in Runs : u # x => meta'[u] = meta[u]
    BY <1>0, <1>3 DEF PublishCall, At
  <2>2. x \in Runs /\ k \in 1 .. 2 * Size /\ Size \in Nat \ {0}
    BY <1>0, <2>1, EffectOfCall
  <2>3. meta'[x] = meta[x] \/ meta'[x] = Effect(meta[x], r)
    BY <1>0, <1>3, <2>2 DEF PublishCall
  <2>4. CASE k # 1
    <3>1. k \in 2 .. Size \/ k > Size
      BY <2>2, <2>4
    <3>2. Effect(meta[x], r).approval = meta[x].approval
      BY <1>0, <2>1, <2>2, <3>1, EffectOfCall DEF EntityTrees
    <3>3. \A u \in Runs : meta'[u].approval = meta[u].approval
      BY <2>1, <2>3, <3>2
    <3> QED BY <1>1, <3>3
  <2>5. CASE k = 1
    <3>1. Effect(meta[x], r).approval = req[r].approval
      <4>1. Effect(meta[x], r) = [approval |-> req[r].approval, plan |-> req[r].plan,
                                  built |-> 1, active |-> {}]
        BY <1>0, <2>1, <2>5, EffectOfCall
      <4> QED BY <4>1
    <3>2. \A u \in Runs : meta[u].approval # req[r].approval
      BY <1>0, <2>1, <2>5 DEF SlotHolds
    <3>3. CASE meta'[x] = meta[x] \/ (m # x /\ n # x)
      BY <2>1, <3>3 DEF OnePublishPerApproval, Opened
    <3>4. CASE meta'[x] = Effect(meta[x], r) /\ (m = x \/ n = x)
      <4>1. meta'[x].approval = req[r].approval
        BY <3>1, <3>4
      <4> QED BY <2>1, <3>2, <3>4, <4>1
    <3> QED BY <2>3, <3>3, <3>4
  <2> QED BY <2>4, <2>5
<1>4. CASE UNCHANGED meta
  BY <1>1, <1>4
<1> QED BY <1>1, <1>2, <1>3, <1>4, TreeWriters

\* "Requires an APPROVED, unconsumed ... Approval": true of requests that do not
\* overlap, for every fault; the run double_publish shows two that do.
THEOREM OnePublishAlways == OneRequest /\ Spec => []OnePublishPerApproval
<1>1. Init => OnePublishPerApproval
  BY DEF Init, OnePublishPerApproval, Opened, NoTree
<1> QED BY <1>1, OnePublishStep, SerialAlways, PTL DEF Spec
=============================================================================
