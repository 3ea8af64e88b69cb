------------------------------ MODULE SplitTest ------------------------------
(***************************************************************************)
(* Split tests of a campaign, from a draft to a live Meta study and its    *)
(* result: AbTestsService (create, requestLaunch, cancel, refreshResults)  *)
(* and the AB_TEST branch of ApprovalsService.decide, which launches the   *)
(* study on approval and compensates when the launch cannot be stored.     *)
(*                                                                         *)
(* A request slot holds a handler's program counter and what it has read;  *)
(* every await is a step (see CampaignApproval).                           *)
(*                                                                         *)
(* Abstracted: the account, its pixel and its credential are there or not, *)
(* whichever; a study has a leader, the cell that evaluateAbTest would     *)
(* name the winner, or none; names, dates and the level of the cells are   *)
(* left out; the campaign is not deleted.                                  *)
(***************************************************************************)
EXTENDS Naturals, FiniteSets

CONSTANTS
  Requests,   \* slots for HTTP requests being served at the same time
  Writers,    \* users holding campaign.write
  Approvers,  \* users holding campaign.approve
  Tests,      \* ids of test rows; their number bounds the model
  Approvals,  \* ids of approval rows; bounds the model
  Studies,    \* ids Meta can give to a study; bounds the model
  Ads,        \* the campaign's ads (or ad sets), by local id
  Versions,   \* how often an ad is published: bounds the model
  Faults,     \* which faults the environment shows
  None

Verdicts == {"APPROVED", "REJECTED"}
FaultKinds ==
  {"call_fails",     \* a Meta call fails and does nothing
   "launch_lost",    \* a study is created, the handler sees a failure
   "stop_lost",      \* a study is stopped, the handler sees a failure
   "commit_fails",   \* the transaction that stores a launch fails
   "cleanup_fails",  \* and so does the one that cleans up after it
   "crash"}          \* the process serving the request dies

ASSUME VersionAssumption == Versions \in Nat
ASSUME FaultAssumption == Faults \subseteq FaultKinds

VARIABLES
  published,  \* published[ad]: how often it has been published; 0: never
  tests,      \* the test rows
  approvals,  \* the AB_TEST approval rows
  studies,    \* the studies at Meta
  paused,     \* the ads at Meta that were paused
  req,        \* the requests being served
  abandoned   \* history: studies whose handler ended before storing them

rows == <<tests, approvals>>
vars == <<published, rows, studies, paused, req, abandoned>>

Entities == Ads \X (1 .. Versions)
Sides == {"A", "B"}
Cells == [Sides -> Entities]
Pairs == {p \in [Sides -> Ads] : p["A"] # p["B"]}

Active == {"DRAFT", "PENDING_APPROVAL", "RUNNING"}
Terminal == {"CANCELLED", "CONCLUDED"}
AbTestStatus == Active \cup Terminal
ApprovalStatus == {"PENDING", "REJECTED", "EXPIRED", "CONSUMED"}
PC ==
  {"idle", "duplicate", "insert", "resolve", "supersede", "request", "count",
   "reject", "drift", "launch", "commit", "compensate", "cleanup",
   "stop", "pauseA", "pauseB", "cancel", "pull", "record"}

ASSUME NoneAssumption ==
  None \notin Tests \cup Approvals \cup Studies \cup Writers \cup Approvers
              \cup Sides \cup Verdicts \cup Entities \cup Cells \cup Pairs

NoTest == [status |-> "ABSENT", pair |-> None, study |-> None, cells |-> None,
           winner |-> None]
NoApproval == [status |-> "ABSENT", test |-> None, cells |-> None, requester |-> None]
NoStudy == [approval |-> None, cells |-> None, leader |-> None, live |-> FALSE,
            by |-> None]
Idle == [pc |-> "idle", user |-> None, test |-> None, approval |-> None,
         verdict |-> None, pair |-> None, cells |-> None, study |-> None,
         flag |-> FALSE, winner |-> None, seen |-> {}]

TestRows ==
  [status : AbTestStatus \cup {"ABSENT"}, pair : Pairs \cup {None},
   study : Studies \cup {None}, cells : Cells \cup {None}, winner : Sides \cup {None}]
ApprovalRows ==
  [status : ApprovalStatus \cup {"ABSENT"}, test : Tests \cup {None},
   cells : Cells \cup {None}, requester : Writers \cup {None}]
StudyObjects ==
  [approval : Approvals \cup {None}, cells : Cells \cup {None},
   leader : Entities \cup {None}, live : BOOLEAN, by : Approvers \cup {None}]
Slots ==
  [pc : PC, user : Writers \cup Approvers \cup {None}, test : Tests \cup {None},
   approval : Approvals \cup {None}, verdict : Verdicts \cup {None},
   pair : Pairs \cup {None}, cells : Cells \cup {None}, study : Studies \cup {None},
   flag : BOOLEAN, winner : Sides \cup {None}, seen : SUBSET Approvals]

TypeOK ==
  /\ published \in [Ads -> 0 .. Versions]
  /\ tests \in [Tests -> TestRows]
  /\ approvals \in [Approvals -> ApprovalRows]
  /\ studies \in [Studies -> StudyObjects]
  /\ paused \subseteq Entities
  /\ req \in [Requests -> Slots]
  /\ abandoned \subseteq Studies

Init ==
  /\ published = [x \in Ads |-> 0]
  /\ tests = [t \in Tests |-> NoTest]
  /\ approvals = [a \in Approvals |-> NoApproval]
  /\ studies = [s \in Studies |-> NoStudy]
  /\ paused = {}
  /\ req = [r \in Requests |-> Idle]
  /\ abandoned = {}

-----------------------------------------------------------------------------
At(r, pc) == req[r].pc = pc
Become(r, slot) == req' = [req EXCEPT ![r] = slot]
Goto(r, pc) == Become(r, [req[r] EXCEPT !.pc = pc])
Return(r) == Become(r, Idle)
Start(r, slot) == At(r, "idle") /\ Become(r, slot)

FreshTest(t) == tests[t] = NoTest /\ \A r \in Requests : req[r].test # t
FreshApproval(a) == approvals[a] = NoApproval /\ \A r \in Requests : req[r].approval # a
FreshStudy(s) == studies[s] = NoStudy

-----------------------------------------------------------------------------
(* AbTestsService.create                                                   *)

Create(r, t, p) ==
  /\ FreshTest(t)
  /\ Start(r, [Idle EXCEPT !.pc = "duplicate", !.test = t, !.pair = p])
  /\ UNCHANGED <<published, rows, studies, paused, abandoned>>

\* Mutant: cell A against cell B and cell B against cell A count as different tests.
InThisOrder(p, q) == p = q
SamePair(p, q) == p["A"] \in {q["A"], q["B"]} /\ p["B"] \in {q["A"], q["B"]}

CreateDuplicate(r) ==
  /\ At(r, "duplicate")
  /\ IF \E t \in Tests : tests[t].status \in Active /\ SamePair(tests[t].pair, req[r].pair)
     THEN Return(r)
     ELSE Goto(r, "insert")
  /\ UNCHANGED <<published, rows, studies, paused, abandoned>>

CreateInsert(r) ==
  /\ At(r, "insert")
  /\ tests' = [tests EXCEPT ![req[r].test] =
                 [NoTest EXCEPT !.status = "DRAFT", !.pair = req[r].pair]]
  /\ Return(r)
  /\ UNCHANGED <<published, approvals, studies, paused, abandoned>>

-----------------------------------------------------------------------------
(* AbTestsService.requestLaunch                                            *)

Launchable(t) == tests[t].status = "DRAFT"

RequestLaunch(r, user, t, a) ==
  /\ Launchable(t) /\ FreshApproval(a)
  /\ Start(r, [Idle EXCEPT !.pc = "resolve", !.user = user, !.test = t, !.approval = a,
                           !.pair = tests[t].pair])
  /\ UNCHANGED <<published, rows, studies, paused, abandoned>>

\* The cells of the spec are the Meta ids of the two ads as they are now.
MetaIds(p) == [side \in Sides |-> <<p[side], published[p[side]]>>]

\* Both ads must be published.  Without an account, or without a pixel when
\* conversions are measured, the request is refused.
LaunchResolve(r) ==
  /\ At(r, "resolve")
  /\ \/ /\ \A side \in Sides : published[req[r].pair[side]] > 0
        /\ Become(r, [req[r] EXCEPT !.pc = "supersede", !.cells = MetaIds(req[r].pair)])
     \/ Return(r)
  /\ UNCHANGED <<published, rows, studies, paused, abandoned>>

PendingFor(t) ==
  {a \in Approvals : approvals[a].test = t /\ approvals[a].status = "PENDING"}

\* The first statement of the transaction sees committed rows only.
LaunchSupersede(r) ==
  /\ At(r, "supersede")
  /\ Become(r, [req[r] EXCEPT !.pc = "request", !.seen = PendingFor(req[r].test)])
  /\ UNCHANGED <<published, rows, studies, paused, abandoned>>

Expired(gone) ==
  [a \in Approvals |->
     IF a \in gone /\ approvals[a].status = "PENDING"
     THEN [approvals[a] EXCEPT !.status = "EXPIRED"] ELSE approvals[a]]

LaunchRequest(r) ==
  /\ At(r, "request")
  /\ approvals' = [Expired(req[r].seen) EXCEPT ![req[r].approval] =
       [status |-> "PENDING", test |-> req[r].test, cells |-> req[r].cells,
        requester |-> req[r].user]]
  /\ tests' = [tests EXCEPT ![req[r].test].status = "PENDING_APPROVAL"]
  /\ Return(r)
  /\ UNCHANGED <<published, studies, paused, abandoned>>

-----------------------------------------------------------------------------
(* ApprovalsService.decide, for an AB_TEST approval                        *)

Decide(r, user, a, verdict) ==
  /\ approvals[a].status = "PENDING"
  /\ LET self == verdict = "APPROVED" /\ approvals[a].requester = user
         next == CASE self -> "count"
                   [] verdict = "REJECTED" -> "reject"
                   [] OTHER -> "drift"
     IN Start(r, [Idle EXCEPT !.pc = next, !.user = user, !.approval = a,
                              !.test = approvals[a].test, !.cells = approvals[a].cells])
  /\ UNCHANGED <<published, rows, studies, paused, abandoned>>

SoleApprover(user) == Approvers \ {user} = {}

DecideCount(r) ==
  /\ At(r, "count")
  /\ IF SoleApprover(req[r].user) THEN Goto(r, "drift") ELSE Return(r)
  /\ UNCHANGED <<published, rows, studies, paused, abandoned>>

BackToDraft(t) ==
  IF tests[t].status = "PENDING_APPROVAL" THEN [tests[t] EXCEPT !.status = "DRAFT"] ELSE tests[t]

DecideReject(r) ==
  /\ At(r, "reject")
  /\ approvals' = [approvals EXCEPT ![req[r].approval].status = "REJECTED"]
  /\ tests' = [tests EXCEPT ![req[r].test] = BackToDraft(req[r].test)]
  /\ Return(r)
  /\ UNCHANGED <<published, studies, paused, abandoned>>

-----------------------------------------------------------------------------
(* ApprovalsService.decideAbTestLaunch                                     *)

\* The drift guard; the connection may have no credential.
LaunchDrift(r) ==
  /\ At(r, "drift")
  /\ \/ tests[req[r].test].status = "PENDING_APPROVAL" /\ Goto(r, "launch")
     \/ Return(r)
  /\ UNCHANGED <<published, rows, studies, paused, abandoned>>

\* Mutant: the study is made of the ads as they are published now.
CurrentCells(r) == MetaIds(tests[req[r].test].pair)
\* The spec that was approved is sent as it is.
SentCells(r) == req[r].cells

LaunchCall(r) ==
  /\ At(r, "launch")
  /\ \/ \E s \in Studies : \E leader \in {None} \cup {SentCells(r)[x] : x \in Sides} :
          /\ FreshStudy(s)
          /\ studies' = [studies EXCEPT ![s] =
               [approval |-> req[r].approval, cells |-> SentCells(r), leader |-> leader,
                live |-> TRUE, by |-> req[r].user]]
          /\ \/ Become(r, [req[r] EXCEPT !.pc = "commit", !.study = s]) /\ UNCHANGED abandoned
             \/ "launch_lost" \in Faults /\ Return(r) /\ abandoned' = abandoned \cup {s}
     \/ "call_fails" \in Faults /\ Return(r) /\ UNCHANGED <<studies, abandoned>>
  /\ UNCHANGED <<published, rows, paused>>

Snapshot(r) == req[r].cells

Launched(r) ==
  [tests[req[r].test] EXCEPT !.status = "RUNNING", !.study = req[r].study,
                             !.cells = Snapshot(r)]

LaunchCommit(r) ==
  /\ At(r, "commit")
  /\ \/ /\ approvals' = [approvals EXCEPT ![req[r].approval].status = "CONSUMED"]
        /\ tests' = [tests EXCEPT ![req[r].test] = Launched(r)]
        /\ Return(r)
     \/ /\ "commit_fails" \in Faults
        /\ Goto(r, "compensate")
        /\ UNCHANGED rows
  /\ UNCHANGED <<published, studies, paused, abandoned>>

\* The study is stopped, as far as the handler can tell (flag).
LaunchCompensate(r) ==
  /\ At(r, "compensate")
  /\ \/ /\ studies' = [studies EXCEPT ![req[r].study].live = FALSE]
        /\ \E told \in {TRUE} \cup (IF "stop_lost" \in Faults THEN {FALSE} ELSE {}) :
             Become(r, [req[r] EXCEPT !.pc = "cleanup", !.flag = told])
     \/ "call_fails" \in Faults /\ Goto(r, "cleanup") /\ UNCHANGED studies
  /\ UNCHANGED <<published, rows, paused, abandoned>>

\* Mutant: the test goes back to draft although its study could not be stopped.
DraftAnyway(r) == [tests[req[r].test] EXCEPT !.status = "DRAFT"]
\* A study that could not be stopped stays tracked, so that it can be cancelled.
AfterFailure(r) ==
  IF req[r].flag THEN [tests[req[r].test] EXCEPT !.status = "DRAFT"] ELSE Launched(r)

LaunchCleanup(r) ==
  /\ At(r, "cleanup")
  /\ \/ /\ approvals' = [approvals EXCEPT ![req[r].approval].status = "EXPIRED"]
        /\ tests' = [tests EXCEPT ![req[r].test] = AfterFailure(r)]
        /\ UNCHANGED abandoned
     \/ /\ "cleanup_fails" \in Faults
        /\ abandoned' = abandoned \cup {req[r].study}
        /\ UNCHANGED rows
  /\ Return(r)
  /\ UNCHANGED <<published, studies, paused>>

-----------------------------------------------------------------------------
(* AbTestsService.cancel                                                   *)

\* Mutant: a running test is cancelled in the database only.
NothingToStop(t) == FALSE
Spending(t) == tests[t].status = "RUNNING" /\ tests[t].study # None

Cancel(r, t) ==
  /\ tests[t].status \in Active
  /\ Start(r, [Idle EXCEPT !.pc = IF Spending(t) THEN "stop" ELSE "cancel", !.test = t,
                           !.study = tests[t].study, !.cells = tests[t].cells])
  /\ UNCHANGED <<published, rows, studies, paused, abandoned>>

\* There may be no account or credential; a failure ends the request.
CancelStop(r) ==
  /\ At(r, "stop")
  /\ \/ /\ studies' = [studies EXCEPT ![req[r].study].live = FALSE]
        /\ Goto(r, "pauseA") \/ ("stop_lost" \in Faults /\ Return(r))
     \/ Return(r) /\ UNCHANGED studies
  /\ UNCHANGED <<published, rows, paused, abandoned>>

\* A failure to pause a cell is logged and ignored.
CancelPause(r, side, here, there) ==
  /\ At(r, here)
  /\ \/ paused' = paused \cup {req[r].cells[side]}
     \/ "call_fails" \in Faults /\ UNCHANGED paused
  /\ Goto(r, there)
  /\ UNCHANGED <<published, rows, studies, abandoned>>

\* No condition on the status the test has by now.
CancelWrite(r) ==
  /\ At(r, "cancel")
  /\ tests' = [tests EXCEPT ![req[r].test].status = "CANCELLED"]
  /\ approvals' = Expired(PendingFor(req[r].test))
  /\ Return(r)
  /\ UNCHANGED <<published, studies, paused, abandoned>>

-----------------------------------------------------------------------------
(* AbTestsService.refreshResults                                           *)

\* Any test that was ever launched, whatever its status.
Refresh(r, t) ==
  /\ tests[t].study # None
  /\ Start(r, [Idle EXCEPT !.pc = "pull", !.test = t, !.study = tests[t].study,
                           !.cells = tests[t].cells])
  /\ UNCHANGED <<published, rows, studies, paused, abandoned>>

\* Meta's answer: two cells in any order, each with or without the id of its ad.
Answers(s) ==
  {[i \in {1, 2} |->
      LET side == IF i = first THEN "A" ELSE "B"
      IN [ad |-> IF side \in labelled THEN studies[s].cells[side] ELSE None,
          leads |-> studies[s].leader = studies[s].cells[side]]] :
     first \in {1, 2}, labelled \in SUBSET Sides}

\* Mutant: the first cell is taken for A and the second for B.
ByPosition(answer, cells, side) == {IF side = "A" THEN 1 ELSE 2}
FindByEntity(answer, cells, side) == {i \in {1, 2} : answer[i].ad = cells[side]}

Attributed(answer, cells) == \A side \in Sides : FindByEntity(answer, cells, side) # {}

Winner(answer, cells) ==
  LET winners == {side \in Sides : \E i \in FindByEntity(answer, cells, side) : answer[i].leads}
  IN IF winners = {} THEN None ELSE CHOOSE side \in winners : TRUE

\* Without both cells attributed nothing is stored; nor when the call fails.
RefreshPull(r) ==
  /\ At(r, "pull")
  /\ \/ \E answer \in Answers(req[r].study) :
          /\ Attributed(answer, req[r].cells)
          /\ Become(r, [req[r] EXCEPT !.pc = "record",
                                      !.winner = Winner(answer, req[r].cells),
                                      !.flag = ~studies[req[r].study].live])
     \/ Return(r)
  /\ UNCHANGED <<published, rows, studies, paused, abandoned>>

\* A study that has ended makes the test CONCLUDED, whatever its status.
Recorded(r) ==
  [tests[req[r].test] EXCEPT !.winner = req[r].winner,
                             !.status = IF req[r].flag THEN "CONCLUDED" ELSE @]

RefreshRecord(r) ==
  /\ At(r, "record")
  /\ tests' = [tests EXCEPT ![req[r].test] = Recorded(r)]
  /\ Return(r)
  /\ UNCHANGED <<published, approvals, studies, paused, abandoned>>

-----------------------------------------------------------------------------
(* The surroundings                                                        *)

\* A publish of the campaign gives an ad a new id at Meta.
PublishAd(x) ==
  /\ published[x] < Versions
  /\ published' = [published EXCEPT ![x] = @ + 1]
  /\ UNCHANGED <<rows, studies, paused, req, abandoned>>

\* Meta ends a study when its time is over.
StudyEnds(s) ==
  /\ studies[s].live
  /\ studies' = [studies EXCEPT ![s].live = FALSE]
  /\ UNCHANGED <<published, rows, paused, req, abandoned>>

\* The handler holds a study that no row names yet.
Launching(r) == req[r].pc \in {"commit", "compensate", "cleanup"}

Crash(r) ==
  /\ "crash" \in Faults /\ ~At(r, "idle")
  /\ abandoned' = IF Launching(r) THEN abandoned \cup {req[r].study} ELSE abandoned
  /\ Return(r)
  /\ UNCHANGED <<published, rows, studies, paused>>

-----------------------------------------------------------------------------
UserRequest(r) ==
  \/ \E t \in Tests, p \in Pairs : Create(r, t, p)
  \/ \E u \in Writers, t \in Tests, a \in Approvals : RequestLaunch(r, u, t, a)
  \/ \E u \in Approvers, a \in Approvals, v \in Verdicts : Decide(r, u, a, v)
  \/ \E t \in Tests : Cancel(r, t) \/ Refresh(r, t)

Serve(r) ==
  \/ CreateDuplicate(r) \/ CreateInsert(r)
  \/ LaunchResolve(r) \/ LaunchSupersede(r) \/ LaunchRequest(r)
  \/ DecideCount(r) \/ DecideReject(r)
  \/ LaunchDrift(r) \/ LaunchCall(r) \/ LaunchCommit(r)
  \/ LaunchCompensate(r) \/ LaunchCleanup(r)
  \/ CancelStop(r) \/ CancelPause(r, "A", "pauseA", "pauseB")
  \/ CancelPause(r, "B", "pauseB", "cancel") \/ CancelWrite(r)
  \/ RefreshPull(r) \/ RefreshRecord(r)

Next ==
  \/ \E r \in Requests : UserRequest(r) \/ Serve(r) \/ Crash(r)
  \/ \E x \in Ads : PublishAd(x)
  \/ \E s \in Studies : StudyEnds(s)

Spec == Init /\ [][Next]_vars

-----------------------------------------------------------------------------
(* What holds however requests interleave and whatever fails.              *)

Exists(s) == studies[s] # NoStudy

\* A study compares the very ads its approval showed, even when the campaign
\* has been published again since the request (decideAbTestLaunch sends the
\* approved payload and never a rebuilt one).
LaunchedAsApproved ==
  \A s \in Studies : Exists(s) => studies[s].cells = approvals[studies[s].approval].cells

\* Nobody launches the test they asked for, unless they are the sole approver, as the
\* comment in ApprovalsService.decide has it; the documents promise more (README).
LaunchNeedsChecker ==
  \A s \in Studies :
    Exists(s) /\ approvals[studies[s].approval].requester = studies[s].by
    => Approvers = {studies[s].by}

\* A test remembers the ads its own study compares, whatever launches and
\* publishes cross: results can be attributed by entity id.
AttributableToLaunch ==
  \A t \in Tests : tests[t].study # None =>
    tests[t].cells = studies[tests[t].study].cells

-----------------------------------------------------------------------------
(* What holds when requests are served one after the other.                *)

\* A live study is run by a RUNNING test, from where it can be cancelled, or is
\* still being launched, even when storing the launch and stopping the study
\* both fail; unless its handler was cut short: by a crash, by a failure
\* reported for a creation that took effect, or by a cleanup that failed too.
LiveStudyTracked ==
  \A s \in Studies : studies[s].live =>
    \/ \E t \in Tests : tests[t].status = "RUNNING" /\ tests[t].study = s
    \/ \E r \in Requests : req[r].study = s /\ Launching(r)
    \/ s \in abandoned

\* Behind a test that says CANCELLED no study goes on spending.
CancelledIsStopped ==
  \A t \in Tests : tests[t].status = "CANCELLED" /\ tests[t].study # None =>
    ~studies[tests[t].study].live

\* Two ads meet in one active test at most, whichever of them is cell A.
OneTestPerPair ==
  \A t, u \in Tests :
    /\ t # u
    /\ tests[t].status \in Active /\ tests[u].status \in Active
    => {tests[t].pair[x] : x \in Sides} # {tests[u].pair[x] : x \in Sides}

\* The winner stored with a test is the ad that leads at Meta, in whatever
\* order and with whatever ids missing Meta lists the cells.
WinnerLeads ==
  \A t \in Tests : tests[t].winner # None =>
    tests[t].cells[tests[t].winner] = studies[tests[t].study].leader

\* A test waits for approval exactly as long as a request for it is open:
\* otherwise it could be neither launched nor sent to approval again.
WaitsIffRequested ==
  \A t \in Tests : tests[t].status = "PENDING_APPROVAL" <=> PendingFor(t) # {}

\* No two rows stand for one test, and none is stuck in its approval.
TestsInOrder == OneTestPerPair /\ WaitsIffRequested

=============================================================================
