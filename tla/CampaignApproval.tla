--------------------------- MODULE CampaignApproval ---------------------------
(***************************************************************************)
(* One campaign of CampaignOS on its way from a draft to live Meta         *)
(* entities: CampaignsService (edit, delete), ApprovalsService (request,   *)
(* decide), PublishService (publish, pause) and the Meta side of a         *)
(* publish.  Every query of these services is scoped to one campaign, so   *)
(* one campaign is enough.                                                 *)
(*                                                                         *)
(* An HTTP request is served by an async handler that gives up the event   *)
(* loop at every await, and nothing is locked between two awaits: a        *)
(* request slot holds the handler's program counter and the values it read *)
(* before, and every await is a step of its own.  Several API processes    *)
(* run the same code, so slots also stand for requests in other processes. *)
(*                                                                         *)
(* Abstracted: the content of the campaign, its ad sets and ads is one     *)
(* value; a plan is that value plus the connection whose page and pixel    *)
(* the specs carry; an ad is created together with its creative; the audit *)
(* log only where its failure matters; the two reads of buildBundle are    *)
(* one step.                                                               *)
(***************************************************************************)
EXTENDS Naturals, FiniteSets

CONSTANTS
  Requests,      \* slots for HTTP requests being served at the same time
  Writers,       \* users holding campaign.write
  Rosters,       \* who may hold campaign.approve in the organisation: each roster
                 \* is the set of its ADMINs and AGENCY_OWNERs
  Approvals,     \* ids an approval row can get; their number bounds the model
  Runs,          \* ids Meta can give to a created campaign; bounds the model
  Contents,      \* what the campaign, its ad sets and ads say
  NoAds,         \* the content of a campaign that has no ad set
  Accounts,      \* the client's Meta ad accounts
  ConnectionOf,  \* the Meta connection an ad account belongs to
  Size,          \* entities of a plan: campaign (1), its ad sets, their ads
  Faults,        \* which faults the environment shows
  None

Verdicts == {"APPROVED", "REJECTED"}
FaultKinds == {"call_fails", "answer_lost", "log_fails", "crash", "no_credential"}
Approvers == UNION Rosters

ASSUME SizeAssumption == Size \in Nat \ {0}
ASSUME ContentAssumption == NoAds \in Contents
ASSUME ConnectionAssumption == DOMAIN ConnectionOf = Accounts
ASSUME FaultAssumption == Faults \subseteq FaultKinds
ASSUME NoneAssumption ==
  None \notin Approvals \cup Runs \cup Accounts \cup Writers \cup Approvers \cup Verdicts

VARIABLES
  campaign,   \* the campaign row
  selected,   \* the ad accounts selected for the client
  approvers,  \* the members who hold campaign.approve (Identity changes members)
  approvals,  \* the approval rows of this campaign
  later,      \* <<a, b>>: approval a was decided after approval b (decidedAt)
  meta,       \* the entity trees that exist at Meta, one per publish run
  req,        \* the requests being served
  granted     \* history: approvals for which an approve decision was written

dbVars == <<campaign, selected, approvers, approvals, later>>
vars == <<dbVars, meta, req, granted>>

Connections == {ConnectionOf[x] : x \in Accounts}
Entities == 1 .. Size
Plans == [content : Contents, via : Connections]

ASSUME NoPlanAssumption == None \notin Plans

CampaignStatus ==
  {"DRAFT", "PENDING_APPROVAL", "APPROVED", "PUBLISHING", "PUBLISHED", "PAUSED", "ERROR"}
ApprovalStatus ==
  {"ABSENT", "PENDING", "APPROVED", "REJECTED", "EXPIRED", "CONSUMED"}
PC ==
  {"idle", "bundle", "supersede", "request", "count", "decide", "follow",
   "find", "verify", "account", "consume", "context", "call", "save", "finish",
   "fail", "pauseAccount", "pauseCall", "pauseSave", "write", "delete"}

NoApproval ==
  [status |-> "ABSENT", plan |-> None, requester |-> None, decider |-> None,
   consumed |-> FALSE]
NoTree == [approval |-> None, plan |-> None, built |-> 0, active |-> {}]
Idle ==
  [pc |-> "idle", user |-> None, approval |-> None, verdict |-> None,
   plan |-> None, run |-> None, step |-> 0, seen |-> {}]

CampaignRows ==
  [exists : BOOLEAN, status : CampaignStatus, content : Contents,
   metaCampaign : Runs \cup {None}]
ApprovalRows ==
  [status : ApprovalStatus, plan : Plans \cup {None},
   requester : Writers \cup {None}, decider : Approvers \cup {None},
   consumed : BOOLEAN]
EntityTrees ==
  [approval : Approvals \cup {None}, plan : Plans \cup {None},
   built : 0 .. Size, active : SUBSET Entities]
Slots ==
  [pc : PC, user : Writers \cup Approvers \cup {None},
   approval : Approvals \cup {None}, verdict : Verdicts \cup {None},
   plan : Plans \cup {None}, run : Runs \cup {None}, step : 0 .. 2 * Size,
   seen : SUBSET Approvals]

TypeOK ==
  /\ campaign \in CampaignRows
  /\ selected \subseteq Accounts
  /\ approvers \in Rosters
  /\ approvals \in [Approvals -> ApprovalRows]
  /\ later \subseteq Approvals \X Approvals
  /\ meta \in [Runs -> EntityTrees]
  /\ req \in [Requests -> Slots]
  /\ granted \subseteq Approvals

Init ==
  /\ campaign = [exists |-> TRUE, status |-> "DRAFT", content |-> NoAds,
                 metaCampaign |-> None]
  /\ selected = {}
  /\ approvers \in Rosters
  /\ approvals = [a \in Approvals |-> NoApproval]
  /\ later = {}
  /\ meta = [m \in Runs |-> NoTree]
  /\ req = [r \in Requests |-> Idle]
  /\ granted = {}

-----------------------------------------------------------------------------
(* A request slot.                                                         *)

At(r, pc) == req[r].pc = pc
Become(r, slot) == req' = [req EXCEPT ![r] = slot]
Goto(r, pc) == Become(r, [req[r] EXCEPT !.pc = pc])
Return(r) == Become(r, Idle)
Start(r, slot) == At(r, "idle") /\ Become(r, slot)

\* A handler that reads the campaign finds the row.
Found == campaign.exists

-----------------------------------------------------------------------------
(* ApprovalsService.requestApproval                                        *)

FreshApproval(a) ==
  /\ approvals[a].status = "ABSENT"
  /\ \A r \in Requests : req[r].approval # a

PlanOf(content, acct) == [content |-> content, via |-> ConnectionOf[acct]]

\* The status guard: everything but PUBLISHED may be sent to approval.
RequestApproval(r, user, a) ==
  /\ Found /\ campaign.status # "PUBLISHED"
  /\ FreshApproval(a)
  /\ Start(r, [Idle EXCEPT !.pc = "bundle", !.user = user, !.approval = a])
  /\ UNCHANGED <<dbVars, meta, granted>>

\* buildBundle looks the selected account up without an order: with several
\* selected any of them is the one found.
RequestBundle(r) ==
  /\ At(r, "bundle")
  /\ \/ /\ Found /\ campaign.content # NoAds
        /\ \E x \in selected :
             Become(r, [req[r] EXCEPT !.pc = "supersede",
                                      !.plan = PlanOf(campaign.content, x)])
     \/ /\ ~Found \/ campaign.content = NoAds \/ selected = {}
        /\ Return(r)
  /\ UNCHANGED <<dbVars, meta, granted>>

\* Mutant: leaves earlier requests open.
SupersedesNothing == {}
Superseded == {a \in Approvals : approvals[a].status = "PENDING"}

\* The first statement of the transaction sees committed rows only: a rival
\* request can still commit a row of its own before this one does.
RequestSupersede(r) ==
  /\ At(r, "supersede")
  /\ Become(r, [req[r] EXCEPT !.pc = "request", !.seen = Superseded])
  /\ UNCHANGED <<dbVars, meta, granted>>

NewApproval(plan, user) ==
  [NoApproval EXCEPT !.status = "PENDING", !.plan = plan, !.requester = user]

\* A superseded row is locked and tested again when it is written; taking that
\* lock here or a moment earlier orders it the same way against a decision.
\* The transaction fails as a whole when the campaign has been deleted.
RequestCommit(r) ==
  /\ At(r, "request")
  /\ IF Found
     THEN /\ approvals' = [a \in Approvals |->
               IF a = req[r].approval THEN NewApproval(req[r].plan, req[r].user)
               ELSE IF a \in req[r].seen /\ approvals[a].status = "PENDING"
                    THEN [approvals[a] EXCEPT !.status = "EXPIRED"]
               ELSE approvals[a]]
          /\ campaign' = [campaign EXCEPT !.status = "PENDING_APPROVAL"]
     ELSE UNCHANGED <<approvals, campaign>>
  /\ Return(r)
  /\ UNCHANGED <<selected, approvers, later, meta, granted>>

-----------------------------------------------------------------------------
(* ApprovalsService.decide, for a CAMPAIGN approval                        *)

Undecided(a) == approvals[a].status = "PENDING"

\* The route lets in the members who hold campaign.approve.
Decide(r, user, a, verdict) ==
  /\ user \in approvers
  /\ Undecided(a)
  /\ LET self == verdict = "APPROVED" /\ approvals[a].requester = user
     IN Start(r, [Idle EXCEPT !.pc = IF self THEN "count" ELSE "decide",
                              !.user = user, !.approval = a, !.verdict = verdict])
  /\ UNCHANGED <<dbVars, meta, granted>>

\* Mutant: the requester approves their own request.
NobodyChecks(user) == TRUE
SoleApprover(user) == approvers \ {user} = {}

\* Maker-checker: self-approval only for the organisation's sole approver, whoever
\* else is a member (two documents say: for an organisation with one member).
DecideCount(r) ==
  /\ At(r, "count")
  /\ IF SoleApprover(req[r].user) THEN Goto(r, "decide") ELSE Return(r)
  /\ UNCHANGED <<dbVars, meta, granted>>

Decided == {a \in Approvals : approvals[a].decider # None}

\* approval.update by id: no condition on the status the row has by now.
DecideWrite(r) ==
  LET a == req[r].approval IN
  /\ At(r, "decide")
  /\ later' = {p \in later : p[2] # a} \cup {<<a, b>> : b \in Decided \ {a}}
  /\ approvals' = [approvals EXCEPT ![a].status = req[r].verdict,
                                    ![a].decider = req[r].user]
  /\ granted' = IF req[r].verdict = "APPROVED" THEN granted \cup {a} ELSE granted
  /\ Become(r, [Idle EXCEPT !.pc = "follow", !.verdict = req[r].verdict])
  /\ UNCHANGED <<campaign, selected, approvers, meta>>

\* The campaign follows in a statement of its own, outside any transaction.
DecideFollow(r) ==
  LET approved == req[r].verdict = "APPROVED" IN
  /\ At(r, "follow")
  /\ campaign' =
       IF ~Found THEN campaign
       ELSE IF approved THEN [campaign EXCEPT !.status = "APPROVED"]
       ELSE IF campaign.status = "PENDING_APPROVAL"
            THEN [campaign EXCEPT !.status = "DRAFT"]
       ELSE campaign
  /\ Return(r)
  /\ UNCHANGED <<selected, approvers, approvals, later, meta, granted>>

-----------------------------------------------------------------------------
(* PublishService.publish                                                  *)

\* Mutant: any row counts as an approval.
AnyStatus(a) == approvals[a].status # "ABSENT"
Publishable(a) == approvals[a].status = "APPROVED"

\* findFirst ... orderBy decidedAt desc
LatestApproved(a) ==
  /\ Publishable(a)
  /\ \A b \in Approvals :
       Publishable(b) => <<b, a>> \notin later

FreshRun(m) == meta[m] = NoTree /\ \A r \in Requests : req[r].run # m

\* The run is the id Meta will give to the campaign this request creates.
Publish(r, m) ==
  /\ Found /\ campaign.status # "PUBLISHED"
  /\ FreshRun(m)
  /\ Start(r, [Idle EXCEPT !.pc = "find", !.run = m])
  /\ UNCHANGED <<dbVars, meta, granted>>

\* Time is unconstrained: the approval found may have passed its expiresAt, and
\* the handler then ends as if there were none.
PublishFind(r) ==
  /\ At(r, "find")
  /\ \/ \E a \in Approvals :
          /\ LatestApproved(a)
          /\ Become(r, [req[r] EXCEPT !.pc = "verify", !.approval = a])
     \/ Return(r)
  /\ UNCHANGED <<dbVars, meta, granted>>

SameHash(a, plan) == approvals[a].plan = plan

\* Rebuilds the plan and keeps it: what is sent later is this plan, whatever
\* happens to the rows in the meantime.  (Connections are taken to have a page
\* or a pixel: a plan built without an account is never the approved one.)
PublishVerify(r) ==
  /\ At(r, "verify")
  /\ \/ /\ Found
        /\ \E x \in selected :
             LET plan == PlanOf(campaign.content, x)
             IN IF SameHash(req[r].approval, plan)
                THEN Become(r, [req[r] EXCEPT !.pc = "account", !.plan = plan])
                ELSE Return(r)
     \/ /\ ~Found \/ selected = {}
        /\ Return(r)
  /\ UNCHANGED <<dbVars, meta, granted>>

\* The account the calls go to is read again; it need not be the one whose
\* page and pixel the plan carries.
PublishAccount(r) ==
  /\ At(r, "account")
  /\ IF selected # {} THEN Goto(r, "consume") ELSE Return(r)
  /\ UNCHANGED <<dbVars, meta, granted>>

\* Mutant: the approval row is left as it is.
NotConsumed(row) == row
Consumed(row) == [row EXCEPT !.status = "CONSUMED", !.consumed = TRUE]

StartedStatus == "PUBLISHING"

\* Two updates by id in one transaction: neither tests the status it replaces.
PublishConsume(r) ==
  /\ At(r, "consume")
  /\ IF Found
     THEN /\ approvals' = [approvals EXCEPT ![req[r].approval] = Consumed(@)]
          /\ campaign' = [campaign EXCEPT !.status = StartedStatus]
          /\ Goto(r, "context")
     ELSE /\ Return(r)
          /\ UNCHANGED <<approvals, campaign>>
  /\ UNCHANGED <<selected, approvers, later, meta, granted>>

\* Outside the try block: when the connection holds no credential (it was
\* disconnected, its accounts stay selected) the handler throws and the
\* campaign keeps the status PUBLISHING.
PublishContext(r) ==
  /\ At(r, "context")
  /\ \/ Become(r, [req[r] EXCEPT !.pc = "call", !.step = 1])
     \/ "no_credential" \in Faults /\ Return(r)
  /\ UNCHANGED <<dbVars, meta, granted>>

\* Mutant: every entity is activated as soon as it has been created.
ActivateAsBuilt(k) ==
  [action |-> IF k % 2 = 1 THEN "create" ELSE "activate", entity |-> (k + 1) \div 2]
\* buildPublishPlan: create the whole tree PAUSED, parents first, then activate
\* it top-down.
PlanStep(k) ==
  IF k <= Size THEN [action |-> "create", entity |-> k]
               ELSE [action |-> "activate", entity |-> k - Size]

\* Mutant: the loop leaves out the activations.
CreationsOnly == Size
PlanLength == 2 * Size

\* Where the loop goes after a step of the plan.
Advance(r) ==
  IF req[r].step = PlanLength
  THEN Goto(r, "finish")
  ELSE Become(r, [req[r] EXCEPT !.pc = "call", !.step = @ + 1])

\* What a call of the plan does at Meta.
Effect(tree, r) ==
  LET s == PlanStep(req[r].step) IN
  IF s.action = "activate" THEN [tree EXCEPT !.active = @ \cup {s.entity}]
  ELSE IF s.entity = 1
       THEN [approval |-> req[r].approval, plan |-> req[r].plan,
             built |-> 1, active |-> {}]
       ELSE [tree EXCEPT !.built = s.entity]

\* One Meta call: it is answered, it fails, or it takes effect although the
\* handler sees a failure (the answer is lost, or its row of the call log
\* cannot be written).
PublishCall(r) ==
  /\ At(r, "call")
  /\ \/ /\ meta' = [meta EXCEPT ![req[r].run] = Effect(@, r)]
        /\ IF PlanStep(req[r].step).action = "create" THEN Goto(r, "save") ELSE Advance(r)
     \/ /\ Faults \cap {"answer_lost", "log_fails"} # {}
        /\ meta' = [meta EXCEPT ![req[r].run] = Effect(@, r)]
        /\ Goto(r, "fail")
     \/ /\ "call_fails" \in Faults
        /\ Goto(r, "fail")
        /\ UNCHANGED meta
  /\ UNCHANGED <<dbVars, granted>>

\* The id Meta answered is written to the local row, which a deletion of the
\* campaign has removed (ad sets and ads go with it).
PublishSave(r) ==
  /\ At(r, "save")
  /\ IF Found
     THEN /\ campaign' = IF req[r].step = 1
                         THEN [campaign EXCEPT !.metaCampaign = req[r].run]
                         ELSE campaign
          /\ Advance(r)
     ELSE /\ Goto(r, "fail")
          /\ UNCHANGED campaign
  /\ UNCHANGED <<selected, approvers, approvals, later, meta, granted>>

\* The audit row is written inside the try block, after the status.
PublishFinish(r) ==
  /\ At(r, "finish")
  /\ IF Found
     THEN /\ campaign' = [campaign EXCEPT !.status = "PUBLISHED"]
          /\ Return(r) \/ ("log_fails" \in Faults /\ Goto(r, "fail"))
     ELSE /\ Goto(r, "fail")
          /\ UNCHANGED campaign
  /\ UNCHANGED <<selected, approvers, approvals, later, meta, granted>>

\* Mutant: the catch block forgets the status.
StatusForgotten == campaign.status
FailedStatus == "ERROR"

\* The catch block: what exists at Meta stays as it is.
PublishFail(r) ==
  /\ At(r, "fail")
  /\ campaign' = IF Found THEN [campaign EXCEPT !.status = FailedStatus] ELSE campaign
  /\ Return(r)
  /\ UNCHANGED <<selected, approvers, approvals, later, meta, granted>>

-----------------------------------------------------------------------------
(* PublishService.pause: no condition on the status                        *)

Pause(r) ==
  /\ Found /\ campaign.metaCampaign # None
  /\ Start(r, [Idle EXCEPT !.pc = "pauseAccount", !.run = campaign.metaCampaign])
  /\ UNCHANGED <<dbVars, meta, granted>>

PauseAccount(r) ==
  /\ At(r, "pauseAccount")
  /\ \/ selected # {} /\ Goto(r, "pauseCall")
     \/ (selected = {} \/ "no_credential" \in Faults) /\ Return(r)
  /\ UNCHANGED <<dbVars, meta, granted>>

PauseCall(r) ==
  /\ At(r, "pauseCall")
  /\ \/ /\ meta' = [meta EXCEPT ![req[r].run].active = @ \ {1}]
        /\ \/ Goto(r, "pauseSave")
           \/ Faults \cap {"answer_lost", "log_fails"} # {} /\ Return(r)
     \/ /\ "call_fails" \in Faults
        /\ Return(r)
        /\ UNCHANGED meta
  /\ UNCHANGED <<dbVars, granted>>

PauseSave(r) ==
  /\ At(r, "pauseSave")
  /\ campaign' = IF Found THEN [campaign EXCEPT !.status = "PAUSED"] ELSE campaign
  /\ Return(r)
  /\ UNCHANGED <<selected, approvers, approvals, later, meta, granted>>

-----------------------------------------------------------------------------
(* CampaignsService.update and .remove: the status is read, then acted on  *)

Editable == {"DRAFT", "PENDING_APPROVAL"}

\* A change to a campaign without ad sets leaves it without ad sets.
Rewritten(c) ==
  [campaign EXCEPT !.content = IF campaign.content = NoAds THEN NoAds ELSE c]

Update(r) ==
  /\ Found /\ campaign.status \in Editable
  /\ Start(r, [Idle EXCEPT !.pc = "write"])
  /\ UNCHANGED <<dbVars, meta, granted>>

UpdateWrite(r) ==
  /\ At(r, "write")
  /\ \E c \in Contents \ {NoAds} :
       campaign' = IF Found THEN Rewritten(c) ELSE campaign
  /\ Return(r)
  /\ UNCHANGED <<selected, approvers, approvals, later, meta, granted>>

Remove(r) ==
  /\ Found /\ campaign.status = "DRAFT"
  /\ Start(r, [Idle EXCEPT !.pc = "delete"])
  /\ UNCHANGED <<dbVars, meta, granted>>

\* The row goes; the approvals, which only name it, stay.
RemoveWrite(r) ==
  /\ At(r, "delete")
  /\ campaign' = [exists |-> FALSE, status |-> "DRAFT", content |-> NoAds,
                  metaCampaign |-> None]
  /\ Return(r)
  /\ UNCHANGED <<selected, approvers, approvals, later, meta, granted>>

-----------------------------------------------------------------------------
(* What other services and time do to the same rows                        *)

\* Ads are generated, an image is attached to a creative, a budget change is
\* executed: none of these looks at the status.
ContentChange(c) ==
  /\ Found /\ c \notin {NoAds, campaign.content}
  /\ campaign' = [campaign EXCEPT !.content = c]
  /\ UNCHANGED <<selected, approvers, approvals, later, meta, req, granted>>

\* MetaService.selectAdAccount: the selection is exclusive within a connection
\* only.  Selecting an account for another client of the organisation takes the
\* connection's accounts away from this one.
OfConnection(x) == {y \in Accounts : ConnectionOf[y] = ConnectionOf[x]}
SelectAdAccount(x) ==
  /\ \/ selected' = (selected \ OfConnection(x)) \cup {x}
     \/ selected' = selected \ OfConnection(x)
  /\ UNCHANGED <<campaign, approvers, approvals, later, meta, req, granted>>

\* The process serving the request dies: what it wrote stays written.
Crash(r) ==
  /\ "crash" \in Faults /\ ~At(r, "idle")
  /\ Return(r)
  /\ UNCHANGED <<dbVars, meta, granted>>

-----------------------------------------------------------------------------

UserRequest(r) ==
  \/ \E u \in Writers, a \in Approvals : RequestApproval(r, u, a)
  \/ \E u \in Approvers, a \in Approvals, v \in Verdicts :
       Decide(r, u, a, v)
  \/ \E m \in Runs : Publish(r, m)
  \/ Pause(r) \/ Update(r) \/ Remove(r)

\* The steps the server takes on its own once a request is being served.
Serve(r) ==
  \/ RequestBundle(r) \/ RequestSupersede(r) \/ RequestCommit(r)
  \/ DecideCount(r) \/ DecideWrite(r) \/ DecideFollow(r)
  \/ PublishFind(r) \/ PublishVerify(r) \/ PublishAccount(r) \/ PublishConsume(r)
  \/ PublishContext(r) \/ PublishCall(r) \/ PublishSave(r) \/ PublishFinish(r)
  \/ PublishFail(r)
  \/ PauseAccount(r) \/ PauseCall(r) \/ PauseSave(r)
  \/ UpdateWrite(r) \/ RemoveWrite(r)

Surroundings ==
  \/ \E c \in Contents : ContentChange(c)
  \/ \E x \in Accounts : SelectAdAccount(x)

Next ==
  \/ \E r \in Requests : UserRequest(r) \/ Serve(r) \/ Crash(r)
  \/ Surroundings

Spec == Init /\ [][Next]_vars

\* A request that is being served is served to its end: every await resolves.
\* Users owe nothing: nobody has to decide, publish or pause.
FairSpec == Spec /\ \A r \in Requests : WF_vars(Serve(r))

-----------------------------------------------------------------------------
(* What holds however requests interleave, calls fail and processes die.   *)

Opened(m) == meta[m].approval # None

\* Whatever exists at Meta was sent under an approval that a human granted, and
\* is the very plan that approval showed, even when the campaign was edited
\* while the publish was running (approvals.service.ts buildBundle, the hash
\* comparison of publish.service.ts and the plan kept in memory after it).
ApprovedPlanOnly ==
  \A m \in Runs : Opened(m) =>
    /\ meta[m].approval \in granted
    /\ meta[m].plan = approvals[meta[m].approval].plan

\* An approval is marked consumed before the first entity is created under it,
\* so a crash in the middle of a publish never leaves Meta entities whose
\* approval still looks unused.
ConsumedBeforeMeta ==
  \A m \in Runs : Opened(m) => approvals[meta[m].approval].consumed

\* No entity is active before every entity of its plan exists: whatever fails
\* while the tree is being built, nothing of it serves.
BuiltBeforeActive ==
  \A m \in Runs : meta[m].active # {} => meta[m].built = Size

\* A requester approves their own request only as the sole approver of the
\* organisation, however decisions of several users cross.  This is what the
\* comment at approvals.service.ts:192-194 promises; BUILD_CONTRACT.md:89 and
\* DESIGN.md:217 promise more, see the README.
MakerChecker ==
  \A a \in Approvals :
    /\ approvals[a].status = "APPROVED"
    /\ approvals[a].requester = approvals[a].decider
    => approvers = {approvals[a].decider}

GrantedPlans == [a \in Approvals |-> IF a \in granted THEN approvals[a].plan ELSE None]
ConsumedApprovals == {a \in Approvals : approvals[a].consumed}

Gate ==
  INSTANCE PublishGate WITH
    Grants <- Approvals, Trees <- Runs, SingleUse <- FALSE,
    granted <- GrantedPlans, spent <- ConsumedApprovals, tree <- meta

\* The services implement the gate: grant, spend, open, build, activate, halt,
\* in this order and with the granted plan.
ImplementsGate == Gate!Spec

-----------------------------------------------------------------------------
(* What holds when requests are served one after the other.                *)

OnceGate ==
  INSTANCE PublishGate WITH
    Grants <- Approvals, Trees <- Runs, SingleUse <- TRUE,
    granted <- GrantedPlans, spent <- ConsumedApprovals, tree <- meta

\* Served one at a time, the services implement the single-use gate: an
\* approval opens at most one tree, whatever fails on the way.
ImplementsSingleUseGate == OnceGate!Spec

\* A new request supersedes the open one: at most one approval is PENDING.
AtMostOnePending ==
  \A a, b \in Approvals :
    approvals[a].status = "PENDING" /\ approvals[b].status = "PENDING" => a = b

\* A campaign shown as PUBLISHED has its whole tree at Meta, and everything
\* below the campaign entity (which a pause may have stopped) is active.
PublishedIsComplete ==
  campaign.exists /\ campaign.status = "PUBLISHED" =>
    /\ campaign.metaCampaign # None
    /\ meta[campaign.metaCampaign].built = Size
    /\ Entities \ {1} \subseteq meta[campaign.metaCampaign].active

\* The status APPROVED is never left behind without an approval to publish with.
ApprovedHasApproval ==
  campaign.exists /\ campaign.status = "APPROVED" =>
    \E a \in Approvals : approvals[a].status = "APPROVED"

\* The status of a campaign says what is true of its approvals and of Meta.
StatusIsEarned == PublishedIsComplete /\ ApprovedHasApproval

\* A publish always comes to an end, and its campaign leaves PUBLISHING.
PublishingSettles == campaign.status = "PUBLISHING" ~> campaign.status # "PUBLISHING"

-----------------------------------------------------------------------------
(* What a document says, and the code does not do.                        *)

\* "Requires an APPROVED, unconsumed ... Approval": one approval, one publish.
OnePublishPerApproval ==
  \A m, n \in Runs : Opened(m) /\ Opened(n) /\ m # n =>
    meta[m].approval # meta[n].approval

=============================================================================
