-------------------------- MODULE CampaignInvariants --------------------------
(***************************************************************************)
(* Why CampaignApproval keeps its promises: what a request slot may rely   *)
(* on at each program counter, and how rows, slots and Meta trees hang     *)
(* together.  GateInvariant is inductive however many requests run;        *)
(* SerialInvariant is when they are served one after the other.            *)
(***************************************************************************)
EXTENDS CampaignApproval

Requesting == {"bundle", "supersede", "request"}
Deciding == {"count", "decide"}
Spending == {"verify", "account", "consume", "context"}
Calling == {"call", "save", "finish"}
Pausing == {"pauseAccount", "pauseCall", "pauseSave"}

WellFormed(s) ==
  /\ s.pc \in Requesting => s.user \in Writers /\ s.approval \in Approvals
  /\ s.pc \in {"supersede", "request"} => s.plan \in Plans
  /\ s.pc \in Deciding => /\ s.user \in Approvers /\ s.approval \in Approvals
                          /\ s.verdict # None
  /\ s.pc \in {"find"} \cup Spending \cup Calling \cup Pausing => s.run \in Runs
  /\ s.pc \in Spending \cup Calling => s.approval \in Approvals
  /\ s.pc \in {"account", "consume", "context"} \cup Calling => s.plan \in Plans
  /\ s.pc = "call" => s.step \in 1 .. 2 * Size
  /\ s.pc = "save" => s.step \in 1 .. Size

GoodSlots == {s \in Slots : WellFormed(s)}

Typed == TypeOK /\ req \in [Requests -> GoodSlots]

-----------------------------------------------------------------------------
(* A slot and the approval it acts on.                                     *)

Verified == {"account", "consume", "context"} \cup Calling
Spent == {"context"} \cup Calling

\* What a handler knows of the approval rows and grants while it runs.
SlotMatches(s, rows, ok) ==
  /\ s.pc \in Requesting => rows[s.approval].status = "ABSENT"
  /\ s.pc \in Deciding => rows[s.approval].status # "ABSENT"
  /\ s.pc \in Spending \cup Calling => s.approval \in ok
  /\ s.pc \in Verified => s.plan = rows[s.approval].plan
  /\ s.pc \in Spent => rows[s.approval].consumed

\* What an approval row says of its history.
RowMatches(row, isGranted) ==
  /\ isGranted => row.status # "ABSENT"
  /\ row.status = "APPROVED" => isGranted
  /\ row.consumed => isGranted

\* Maker-checker, in the handler and in the row, for the members who may approve.
SlotChecked(s, rows, members) ==
  /\ s.pc \in Deciding => s.user \in members
  /\ s.pc = "decide" /\ s.verdict = "APPROVED" /\ rows[s.approval].requester = s.user
       => members = {s.user}

RowChecked(row, members) ==
  row.status = "APPROVED" /\ row.requester = row.decider => members = {row.decider}

\* The id a request will insert belongs to no other request.
IdsReserved ==
  \A r, q \in Requests :
    req[r].pc \in Requesting /\ q # r => req[q].approval # req[r].approval

-----------------------------------------------------------------------------
(* A slot and the tree it builds.                                          *)

Publishing == {"find"} \cup Spending \cup Calling

\* Two publishes never build the same tree: Meta gives each its own ids.
RunsReserved ==
  \A r, q \in Requests :
    req[r].pc \in Publishing /\ req[q].pc \in Publishing /\ q # r
      => req[q].run # req[r].run

\* How far the tree of a publish has come.
TreeMatches(s, trees) ==
  /\ s.pc \in {"find"} \cup Spending => trees[s.run] = NoTree
  /\ s.pc = "call" /\ s.step = 1 => trees[s.run] = NoTree
  /\ s.pc = "call" /\ s.step \in 2 .. Size =>
       trees[s.run].built = s.step - 1 /\ trees[s.run].active = {}
  /\ s.pc = "save" => trees[s.run].built = s.step /\ trees[s.run].active = {}
  /\ s.pc = "call" /\ s.step > Size => trees[s.run].built = Size

\* A tree carries the granted plan of a consumed approval, and is built before
\* any of it is active.
TreeSound(t, rows, ok) ==
  /\ t.approval = None => t = NoTree
  /\ t.approval # None => /\ t.approval \in ok
                          /\ t.plan = rows[t.approval].plan
                          /\ rows[t.approval].consumed
  /\ t.active # {} => t.built = Size

GateInvariant ==
  /\ Typed
  /\ \A r \in Requests : SlotMatches(req[r], approvals, granted)
  /\ \A a \in Approvals : RowMatches(approvals[a], a \in granted)
  /\ \A r \in Requests : SlotChecked(req[r], approvals, approvers)
  /\ \A a \in Approvals : RowChecked(approvals[a], approvers)
  /\ IdsReserved
  /\ RunsReserved
  /\ \A r \in Requests : TreeMatches(req[r], meta)
  /\ \A m \in Runs : TreeSound(meta[m], approvals, granted)
-----------------------------------------------------------------------------
(* Requests served one after the other.                                    *)

\* The hypothesis of the serial theorems: no two requests overlap.
OneRequest == \A r, q \in Requests : r = q

\* What a handler that runs alone knows of the rows c (the campaign), as (the
\* approvals) and of the trees ms at Meta.
SlotHolds(s, c, as, ms) ==
  /\ s.pc = "request" => \A a \in Approvals : as[a].status = "PENDING" => a \in s.seen
  /\ s.pc \in Deciding => as[s.approval].status = "PENDING"
  /\ s.pc = "follow" /\ s.verdict = "APPROVED" =>
       \E a \in Approvals : as[a].status = "APPROVED"
  /\ s.pc \in Spending \ {"context"} => as[s.approval].status = "APPROVED"
  /\ s.pc = "context" \/ (s.pc = "call" /\ s.step = 1) =>
       \A m \in Runs : ms[m].approval # s.approval
  /\ s.pc \in Publishing => c.status # "PUBLISHED"
  /\ (s.pc \in {"call", "save"} /\ s.step > 1) \/ s.pc = "finish" =>
       c.metaCampaign = s.run
  /\ s.pc = "call" /\ s.step > Size => 1 .. (s.step - Size - 1) \subseteq ms[s.run].active
  /\ s.pc = "finish" => ms[s.run].built = Size /\ Entities \subseteq ms[s.run].active

\* A consumed approval is never brought back.
StaysConsumed(row) == row.consumed => row.status = "CONSUMED"

SerialInvariant ==
  /\ GateInvariant
  /\ \A r \in Requests : SlotHolds(req[r], campaign, approvals, meta)
  /\ \A a \in Approvals : StaysConsumed(approvals[a])
  /\ AtMostOnePending
  /\ StatusIsEarned
=============================================================================
