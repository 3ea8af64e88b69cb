----------------------------- MODULE BudgetChange -----------------------------
(***************************************************************************)
(* From a recommendation to a new budget at Meta: RecommendationsService   *)
(* (generate, apply, decide) and the BUDGET_CHANGE branch of               *)
(* ApprovalsService.decide, which sends the change and then records it.    *)
(*                                                                         *)
(* One campaign.  A request slot holds a handler's program counter and     *)
(* what it has read; every await that can be interleaved with a write is a *)
(* step (see CampaignApproval).  Editing and publishing the campaign are   *)
(* modelled in detail there: here each is one step that takes a free slot. *)
(*                                                                         *)
(* Abstracted: the rules and the model that find recommendations yield any *)
(* set of kinds; a budget is daily or for the lifetime, whichever; the     *)
(* account and its credential are there or not; the campaign is not        *)
(* deleted; nothing here looks at the expiry of an approval.               *)
(***************************************************************************)
EXTENDS Integers, FiniteSets

CONSTANTS
  Requests,   \* slots for HTTP requests being served at the same time
  Writers,    \* users holding recommendation.decide
  Approvers,  \* users holding campaign.approve
  Recs,       \* ids of recommendation rows; their number bounds the model
  Approvals,  \* ids of approval rows; bounds the model
  Trees,      \* ids Meta can give to a published campaign; bounds the model
  Budgets,    \* amounts a user may enter, in minor units
  Faults,     \* which faults the environment shows
  None

FaultKinds ==
  {"call_fails",    \* a Meta call fails and does nothing
   "answer_lost",   \* the budget is changed, the handler sees a failure
   "commit_fails",  \* a transaction fails
   "crash"}         \* the process serving a request dies

ASSUME BudgetAssumption == Budgets \subseteq Nat \ {0}
ASSUME FaultAssumption == Faults \subseteq FaultKinds
ASSUME NoneAssumption ==
  None \notin Recs \cup Approvals \cup Trees \cup Writers \cup Approvers

VARIABLES
  campaign,   \* the campaign row: its id at Meta, its budget, may it be edited
  recs,       \* the recommendation rows
  approvals,  \* the BUDGET_CHANGE approval rows
  live,       \* live[m]: the budget of campaign m at Meta; None: no such campaign
  req,        \* the requests being served
  ledger      \* history: the changes that reached Meta

vars == <<campaign, recs, approvals, live, req, ledger>>

\* A deterministic finding names the campaign, one of the language model's does
\* not; only SCALE_BUDGET findings about a campaign can be applied.
Kinds ==
  {[type |-> "SCALE_BUDGET", linked |-> TRUE], [type |-> "KILL_AD", linked |-> TRUE],
   [type |-> "SCALE_BUDGET", linked |-> FALSE]}
Decisions == {"ACKNOWLEDGED", "APPLIED", "DISMISSED"}
RecommendationStatus == {"NEW"} \cup Decisions
ApprovalStatus == {"PENDING", "REJECTED", "CONSUMED"}
PC == {"idle", "analyse", "supersede", "insert", "preview", "open", "mark",
       "count", "reject", "drift", "call", "commit"}

NoRec == [status |-> "ABSENT", kind |-> None]
NoApproval == [status |-> "ABSENT", rec |-> None, tree |-> None, current |-> 0,
               new |-> 0, requester |-> None]
Idle == [pc |-> "idle", user |-> None, rec |-> None, approval |-> None, tree |-> None,
         amount |-> 0, decision |-> None, found |-> {}, seen |-> {}]

CampaignRows == [tree : Trees \cup {None}, budget : Nat, editable : BOOLEAN]
RecRows == [status : RecommendationStatus \cup {"ABSENT"}, kind : Kinds \cup {None}]
ApprovalRows ==
  [status : ApprovalStatus \cup {"ABSENT"}, rec : Recs \cup {None},
   tree : Trees \cup {None}, current : Nat, new : Nat, requester : Writers \cup {None}]
Slots ==
  [pc : PC, user : Writers \cup Approvers \cup {None}, rec : Recs \cup {None},
   approval : Approvals \cup {None}, tree : Trees \cup {None}, amount : Nat,
   decision : Decisions \cup {None}, found : SUBSET Kinds, seen : SUBSET Recs]
Changes == [approval : Approvals, tree : Trees, amount : Nat, by : Approvers]

TypeOK ==
  /\ campaign \in CampaignRows
  /\ recs \in [Recs -> RecRows]
  /\ approvals \in [Approvals -> ApprovalRows]
  /\ live \in [Trees -> Nat \cup {None}]
  /\ req \in [Requests -> Slots]
  /\ ledger \subseteq Changes

\* CampaignsService.createDraft: the budget may have been left open (0).
Init ==
  /\ campaign \in [tree : {None}, budget : Budgets \cup {0}, editable : {TRUE}]
  /\ recs = [x \in Recs |-> NoRec]
  /\ approvals = [a \in Approvals |-> NoApproval]
  /\ live = [m \in Trees |-> None]
  /\ req = [r \in Requests |-> Idle]
  /\ ledger = {}

-----------------------------------------------------------------------------
At(r, pc) == req[r].pc = pc
Become(r, slot) == req' = [req EXCEPT ![r] = slot]
Goto(r, pc) == Become(r, [req[r] EXCEPT !.pc = pc])
Return(r) == Become(r, Idle)
Start(r, slot) == At(r, "idle") /\ Become(r, slot)

FreshRecs == {x \in Recs : recs[x] = NoRec}
FreshApproval(a) == approvals[a] = NoApproval

-----------------------------------------------------------------------------
(* RecommendationsService.generate                                         *)

Generate(r) ==
  /\ Start(r, [Idle EXCEPT !.pc = "analyse"])
  /\ UNCHANGED <<campaign, recs, approvals, live, ledger>>

\* The rules find what they find in the snapshots; the language model adds to it
\* or fails, and the request with it.
GenerateAnalyse(r) ==
  /\ At(r, "analyse")
  /\ \/ \E found \in SUBSET Kinds : Become(r, [req[r] EXCEPT !.pc = "supersede", !.found = found])
     \/ Return(r)
  /\ UNCHANGED <<campaign, recs, approvals, live, ledger>>

OpenRecs == {x \in Recs : recs[x].status = "NEW"}

\* The first statement of the transaction sees committed rows only.
GenerateSupersede(r) ==
  /\ At(r, "supersede")
  /\ Become(r, [req[r] EXCEPT !.pc = "insert", !.seen = OpenRecs])
  /\ UNCHANGED <<campaign, recs, approvals, live, ledger>>

Injections(S, T) == {f \in [S -> T] : \A x, y \in S : f[x] = f[y] => x = y}

GenerateInsert(r) ==
  /\ At(r, "insert")
  /\ \/ \E id \in Injections(req[r].found, FreshRecs) :
          recs' = [x \in Recs |->
                     IF \E k \in req[r].found : id[k] = x
                     THEN [status |-> "NEW", kind |-> CHOOSE k \in req[r].found : id[k] = x]
                     ELSE IF x \in req[r].seen /\ recs[x].status = "NEW"
                          THEN [recs[x] EXCEPT !.status = "DISMISSED"]
                          ELSE recs[x]]
     \/ "commit_fails" \in Faults /\ UNCHANGED recs
  /\ Return(r)
  /\ UNCHANGED <<campaign, approvals, live, ledger>>

-----------------------------------------------------------------------------
(* RecommendationsService.apply                                            *)

Unhandled(x) == recs[x].status = "NEW"
Applicable(kind) == kind.type = "SCALE_BUDGET" /\ kind.linked

Apply(r, user, x) ==
  /\ Unhandled(x) /\ Applicable(recs[x].kind)
  /\ Start(r, [Idle EXCEPT !.pc = "preview", !.user = user, !.rec = x])
  /\ UNCHANGED <<campaign, recs, approvals, live, ledger>>

AtMeta == campaign.tree # None

\* Refused without a campaign at Meta or without a budget.
ApplyPreview(r) ==
  /\ At(r, "preview")
  /\ IF AtMeta /\ campaign.budget # 0
     THEN Become(r, [req[r] EXCEPT !.pc = "open", !.tree = campaign.tree,
                                   !.amount = campaign.budget])
     ELSE Return(r)
  /\ UNCHANGED <<campaign, recs, approvals, live, ledger>>

\* Mutant: twenty percent is taken for twenty.
PlusTwenty(budget) == budget + 20
\* Math.round(budget * 1.2), BUDGET_STEP for every increase, also for one that rule S2
\* advises at 30%; no product ends in one half.
Scaled(budget) == (12 * budget + 5) \div 10

\* Mutant: the recommendation stays open.
StaysNew(x) == recs[x]
Acknowledged(x) == [recs[x] EXCEPT !.status = "ACKNOWLEDGED"]

\* No condition on the status the recommendation has by now.
ApplyOpen(r) ==
  /\ At(r, "open")
  /\ \/ \E a \in Approvals :
          /\ FreshApproval(a)
          /\ approvals' = [approvals EXCEPT ![a] =
               [status |-> "PENDING", rec |-> req[r].rec, tree |-> req[r].tree,
                current |-> req[r].amount, new |-> Scaled(req[r].amount),
                requester |-> req[r].user]]
          /\ recs' = [recs EXCEPT ![req[r].rec] = Acknowledged(req[r].rec)]
     \/ "commit_fails" \in Faults /\ UNCHANGED <<approvals, recs>>
  /\ Return(r)
  /\ UNCHANGED <<campaign, live, ledger>>

-----------------------------------------------------------------------------
(* RecommendationsService.decide: any row, whatever its status.            *)

RecDecide(r, x, decision) ==
  /\ recs[x].status # "ABSENT"
  /\ Start(r, [Idle EXCEPT !.pc = "mark", !.rec = x, !.decision = decision])
  /\ UNCHANGED <<campaign, recs, approvals, live, ledger>>

RecMark(r) ==
  /\ At(r, "mark")
  /\ recs' = [recs EXCEPT ![req[r].rec].status = req[r].decision]
  /\ Return(r)
  /\ UNCHANGED <<campaign, approvals, live, ledger>>

-----------------------------------------------------------------------------
(* ApprovalsService.decide and decideBudgetChange                          *)

Undecided(a) == approvals[a].status = "PENDING"

Decide(r, user, a, approve) ==
  /\ Undecided(a)
  /\ LET next == CASE ~approve -> "reject"
                   [] approve /\ approvals[a].requester = user -> "count"
                   [] OTHER -> "drift"
     IN Start(r, [Idle EXCEPT !.pc = next, !.user = user, !.approval = a])
  /\ UNCHANGED <<campaign, recs, approvals, live, ledger>>

SoleApprover(user) == Approvers \ {user} = {}

DecideCount(r) ==
  /\ At(r, "count")
  /\ IF SoleApprover(req[r].user) THEN Goto(r, "drift") ELSE Return(r)
  /\ UNCHANGED <<campaign, recs, approvals, live, ledger>>

DecideReject(r) ==
  /\ At(r, "reject")
  /\ approvals' = [approvals EXCEPT ![req[r].approval].status = "REJECTED"]
  /\ Return(r)
  /\ UNCHANGED <<campaign, recs, live, ledger>>

SameBudget(a) == campaign.budget = approvals[a].current

\* The change goes to the campaign's present id at Meta.  There may be no
\* selected account or no credential.
BudgetDrift(r) ==
  /\ At(r, "drift")
  /\ \/ /\ AtMeta /\ SameBudget(req[r].approval)
        /\ Become(r, [req[r] EXCEPT !.pc = "call", !.tree = campaign.tree])
     \/ Return(r)
  /\ UNCHANGED <<campaign, recs, approvals, live, ledger>>

\* Mutant: the failure is swallowed.
Regardless(r) == Goto(r, "commit")
Thrown(r) == Return(r)

\* The approved amount is sent, not one computed anew.
BudgetCall(r) ==
  /\ At(r, "call")
  /\ LET a == req[r].approval
         amount == approvals[a].new
     IN \/ /\ live' = [live EXCEPT ![req[r].tree] = amount]
           /\ ledger' = ledger \cup {[approval |-> a, tree |-> req[r].tree,
                                      amount |-> amount, by |-> req[r].user]}
           /\ Goto(r, "commit") \/ ("answer_lost" \in Faults /\ Thrown(r))
        \/ /\ "call_fails" \in Faults
           /\ Thrown(r)
           /\ UNCHANGED <<live, ledger>>
  /\ UNCHANGED <<campaign, recs, approvals>>

\* Mutant: the campaign row keeps the old budget.
OldBudget(a) == campaign.budget
RecordedBudget(a) == approvals[a].new

\* When this fails the approval stays PENDING and can be approved again.
BudgetCommit(r) ==
  /\ At(r, "commit")
  /\ \/ /\ approvals' = [approvals EXCEPT ![req[r].approval].status = "CONSUMED"]
        /\ campaign' = [campaign EXCEPT !.budget = RecordedBudget(req[r].approval)]
     \/ "commit_fails" \in Faults /\ UNCHANGED <<approvals, campaign>>
  /\ Return(r)
  /\ UNCHANGED <<recs, live, ledger>>

-----------------------------------------------------------------------------
(* What other services do to the campaign, each taking a free slot.        *)

\* CampaignsService.update, while the campaign is a draft or awaits approval.
EditBudget(r, budget) ==
  /\ At(r, "idle") /\ campaign.editable
  /\ campaign' = [campaign EXCEPT !.budget = budget]
  /\ UNCHANGED <<recs, approvals, live, req, ledger>>

\* PublishService.publish: a new campaign at Meta with the budget of the row, the
\* same even if the rest of the publish fails.
Publish(r, m) ==
  /\ At(r, "idle") /\ campaign.editable /\ live[m] = None
  /\ campaign' = [campaign EXCEPT !.tree = m, !.editable = FALSE]
  /\ live' = [live EXCEPT ![m] = campaign.budget]
  /\ UNCHANGED <<recs, approvals, req, ledger>>

\* A campaign that was paused, or whose publish failed, is sent to approval again.
Reopen(r) ==
  /\ At(r, "idle") /\ ~campaign.editable
  /\ campaign' = [campaign EXCEPT !.editable = TRUE]
  /\ UNCHANGED <<recs, approvals, live, req, ledger>>

Crash(r) ==
  /\ "crash" \in Faults /\ ~At(r, "idle")
  /\ Return(r)
  /\ UNCHANGED <<campaign, recs, approvals, live, ledger>>

-----------------------------------------------------------------------------
UserRequest(r) ==
  \/ Generate(r)
  \/ \E u \in Writers, x \in Recs : Apply(r, u, x)
  \/ \E x \in Recs, d \in Decisions : RecDecide(r, x, d)
  \/ \E u \in Approvers, a \in Approvals, approve \in BOOLEAN : Decide(r, u, a, approve)
  \/ \E b \in Budgets : EditBudget(r, b)
  \/ \E m \in Trees : Publish(r, m)
  \/ Reopen(r)

Serve(r) ==
  \/ GenerateAnalyse(r) \/ GenerateSupersede(r) \/ GenerateInsert(r)
  \/ ApplyPreview(r) \/ ApplyOpen(r) \/ RecMark(r)
  \/ DecideCount(r) \/ DecideReject(r)
  \/ BudgetDrift(r) \/ BudgetCall(r) \/ BudgetCommit(r)

Next == \E r \in Requests : UserRequest(r) \/ Serve(r) \/ Crash(r)

Spec == Init /\ [][Next]_vars

-----------------------------------------------------------------------------
(* What holds however requests interleave.                                 *)

\* What reaches Meta is the amount the approval showed, and that is one BUDGET_STEP
\* (20%, to half a unit) on the budget it showed: never a step on a step, whatever has
\* happened between the recommendation, the approval and a retry of the change. That
\* the step is the one the rule advised is not said: the 30% of S2 is not (README).
SentAsShown ==
  \A e \in ledger :
    LET a == approvals[e.approval]
    IN e.amount = a.new /\ 10 * a.new - 12 * a.current \in -4 .. 5

\* Nobody changes a budget at their own request, unless they are the sole approver, as
\* the comment in ApprovalsService.decide has it; the documents promise more (README).
BudgetNeedsChecker ==
  \A e \in ledger : approvals[e.approval].requester = e.by => Approvers = {e.by}

\* A change is recorded as done (CONSUMED) only after it has reached Meta.
ConsumedWasSent ==
  \A a \in Approvals :
    approvals[a].status = "CONSUMED" => \E e \in ledger : e.approval = a

-----------------------------------------------------------------------------
(* What holds when requests are served one after the other.                *)

\* When the row of a campaign at Meta shows another budget than Meta has, an
\* approval with Meta's amount is still not CONSUMED: what failed half way
\* leaves a trace from which it can be repaired.
DriftHasEvidence ==
  /\ AtMeta /\ ~campaign.editable
  /\ live[campaign.tree] # campaign.budget
  => \E e \in ledger : /\ e.tree = campaign.tree /\ e.amount = live[campaign.tree]
                       /\ approvals[e.approval].status # "CONSUMED"

\* A recommendation opens at most one approval, even if it is applied again.
OneApprovalPerRecommendation ==
  \A a, b \in Approvals :
    approvals[a].rec = approvals[b].rec /\ approvals[a].rec # None => a = b

=============================================================================
