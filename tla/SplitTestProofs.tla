--------------------------- MODULE SplitTestProofs ---------------------------
(***************************************************************************)
(* Theorems about SplitTest, for any number of requests, tests, approvals, *)
(* studies, ads and users, however requests interleave and whatever fails; *)
(* in the second half, when requests are served one after the other.       *)
(***************************************************************************)
EXTENDS SplitTestInvariants, TLAPS

-----------------------------------------------------------------------------
(* What may be written into a row, a study or a slot, a field at a time.    *)

LEMMA TestFields ==
  ASSUME NEW t \in TestRows
  PROVE  /\ \A v \in AbTestStatus : [t EXCEPT !.status = v] \in TestRows
         /\ \A v \in Studies : [t EXCEPT !.study = v] \in TestRows
         /\ \A v \in Cells : [t EXCEPT !.cells = v] \in TestRows
         /\ \A v \in Sides \cup {None} : [t EXCEPT !.winner = v] \in TestRows
BY DEF TestRows

LEMMA ApprovalFields ==
  ASSUME NEW a \in ApprovalRows
  PROVE  \A v \in ApprovalStatus : [a EXCEPT !.status = v] \in ApprovalRows
BY DEF ApprovalRows

LEMMA StudyFields ==
  ASSUME NEW s \in StudyObjects
  PROVE  [s EXCEPT !.live = FALSE] \in StudyObjects
BY DEF StudyObjects

LEMMA SlotFields ==
  ASSUME NEW s \in Slots
  PROVE  /\ \A v \in PC : [s EXCEPT !.pc = v] \in Slots
         /\ \A v \in Writers \cup Approvers : [s EXCEPT !.user = v] \in Slots
         /\ \A v \in Tests : [s EXCEPT !.test = v] \in Slots
         /\ \A v \in Approvals : [s EXCEPT !.approval = v] \in Slots
         /\ \A v \in Pairs : [s EXCEPT !.pair = v] \in Slots
         /\ \A v \in Cells \cup {None} : [s EXCEPT !.cells = v] \in Slots
         /\ \A v \in Studies \cup {None} : [s EXCEPT !.study = v] \in Slots
         /\ \A v \in BOOLEAN : [s EXCEPT !.flag = v] \in Slots
         /\ \A v \in Sides \cup {None} : [s EXCEPT !.winner = v] \in Slots
         /\ \A v \in SUBSET Approvals : [s EXCEPT !.seen = v] \in Slots
BY DEF Slots

LEMMA Values ==
  /\ Idle \in Slots
  /\ NoTest \in TestRows
  /\ NoApproval \in ApprovalRows
  /\ NoStudy \in StudyObjects
BY DEF Idle, Slots, PC, NoTest, TestRows, NoApproval, ApprovalRows, NoStudy, StudyObjects

LEMMA PCValues ==
  /\ "idle" \in PC /\ "duplicate" \in PC /\ "insert" \in PC /\ "resolve" \in PC
  /\ "supersede" \in PC /\ "request" \in PC /\ "count" \in PC /\ "reject" \in PC
  /\ "drift" \in PC /\ "launch" \in PC /\ "commit" \in PC /\ "compensate" \in PC
  /\ "cleanup" \in PC /\ "stop" \in PC /\ "pauseA" \in PC /\ "pauseB" \in PC
  /\ "cancel" \in PC /\ "pull" \in PC /\ "record" \in PC
BY DEF PC

LEMMA StatusValues ==
  /\ "DRAFT" \in AbTestStatus /\ "PENDING_APPROVAL" \in AbTestStatus
  /\ "RUNNING" \in AbTestStatus /\ "CANCELLED" \in AbTestStatus
  /\ "CONCLUDED" \in AbTestStatus
  /\ "PENDING" \in ApprovalStatus /\ "REJECTED" \in ApprovalStatus
  /\ "EXPIRED" \in ApprovalStatus /\ "CONSUMED" \in ApprovalStatus
BY DEF AbTestStatus, Active, Terminal, ApprovalStatus

LEMMA MetaIdsType ==
  ASSUME published \in [Ads -> 0 .. Versions], NEW p \in Pairs,
         \A side \in Sides : published[p[side]] > 0
  PROVE  MetaIds(p) \in Cells
<1>1. ASSUME NEW side \in Sides
      PROVE  <<p[side], published[p[side]]>> \in Entities
  <2>1. p[side] \in Ads
    BY DEF Pairs
  <2>2. published[p[side]] \in 1 .. Versions
    BY <2>1, VersionAssumption
  <2> QED BY <2>1, <2>2 DEF Entities
<1> QED BY <1>1 DEF MetaIds, Cells

-----------------------------------------------------------------------------
(* Type correctness.                                                       *)

\* The slot a handler moves to: well formed, whatever it held before.
LEMMA Moves ==
  ASSUME req \in [Requests -> GoodSlots], NEW r \in Requests
  PROVE  /\ \A s \in GoodSlots : Become(r, s) => req' \in [Requests -> GoodSlots]
         /\ Return(r) => req' \in [Requests -> GoodSlots]
<1>1. ASSUME NEW s \in GoodSlots, Become(r, s)
      PROVE  req' \in [Requests -> GoodSlots]
  BY <1>1 DEF Become
<1>2. Idle \in GoodSlots
  BY Values DEF GoodSlots, WellFormed, Idle, Creating, Asking, Held, Checked, Deciding,
     Stopping, Reading
<1> QED BY <1>1, <1>2 DEF Return

\* Steps whose only effect on the slot is the program counter.
Follows(from, to) ==
  <<from, to>> \in {<<"duplicate", "insert">>, <<"count", "drift">>,
                    <<"drift", "launch">>, <<"commit", "compensate">>,
                    <<"compensate", "cleanup">>, <<"stop", "pauseA">>,
                    <<"pauseA", "pauseB">>, <<"pauseB", "cancel">>}

LEMMA GotoType ==
  ASSUME req \in [Requests -> GoodSlots], NEW r \in Requests, NEW pc \in PC,
         Follows(req[r].pc, pc), Goto(r, pc)
  PROVE  req' \in [Requests -> GoodSlots]
<1>1. req[r] \in GoodSlots
  OBVIOUS
<1>2. [req[r] EXCEPT !.pc = pc] \in GoodSlots
  BY <1>1 DEF Follows, GoodSlots, Slots, WellFormed, Creating, Asking, Held, Checked,
     Deciding, Stopping, Reading
<1> QED BY <1>2, Moves DEF Goto

LEMMA TypedUserRequest ==
  ASSUME LaunchInvariant, NEW r \in Requests, UserRequest(r)
  PROVE  Typed'
<1> USE Values, PCValues DEF LaunchInvariant, Typed, TypeOK, rows, Start, GoodSlots
<1>1. ASSUME NEW t \in Tests, NEW p \in Pairs, Create(r, t, p)
      PROVE  Typed'
  <2>1. [Idle EXCEPT !.pc = "duplicate", !.test = t, !.pair = p] \in GoodSlots
    BY SlotFields DEF Idle, WellFormed, Creating, Asking, Held, Checked, Deciding, Stopping, Reading
  <2> QED BY <1>1, <2>1, Moves DEF Create
<1>2. ASSUME NEW u \in Writers, NEW t \in Tests, NEW a \in Approvals, RequestLaunch(r, u, t, a)
      PROVE  Typed'
  <2>1. tests[t].pair \in Pairs
    BY <1>2 DEF RequestLaunch, Launchable, TestSound, TestRows
  <2>2. [Idle EXCEPT !.pc = "resolve", !.user = u, !.test = t, !.approval = a,
                     !.pair = tests[t].pair] \in GoodSlots
    BY <2>1, SlotFields DEF Idle, WellFormed, Creating, Asking, Held, Checked, Deciding, Stopping, Reading
  <2> QED BY <1>2, <2>2, Moves DEF RequestLaunch
<1>3. ASSUME NEW u \in Approvers, NEW a \in Approvals, NEW v \in Verdicts, Decide(r, u, a, v)
      PROVE  Typed'
  <2>1. approvals[a].test \in Tests /\ approvals[a].cells \in Cells
    BY <1>3 DEF Decide, ApprovalSound, ApprovalRows
  <2>2. \A pc \in {"count", "reject", "drift"} :
          [Idle EXCEPT !.pc = pc, !.user = u, !.approval = a, !.test = approvals[a].test,
                       !.cells = approvals[a].cells] \in GoodSlots
    <3> TAKE pc \in {"count", "reject", "drift"}
    <3>1. [Idle EXCEPT !.pc = pc, !.user = u, !.approval = a, !.test = approvals[a].test,
                       !.cells = approvals[a].cells] \in Slots
      BY <2>1, SlotFields
    <3> QED BY <2>1, <3>1 DEF Idle, WellFormed, Creating, Asking, Held, Checked, Deciding, Stopping, Reading
  <2> QED BY <1>3, <2>2, Moves DEF Decide
<1>4. ASSUME NEW t \in Tests, Cancel(r, t)
      PROVE  Typed'
  <2> DEFINE slot(pc) == [Idle EXCEPT !.pc = pc, !.test = t, !.study = tests[t].study,
                                      !.cells = tests[t].cells]
  <2>1. tests[t] \in TestRows /\ TestSound(tests[t], studies)
    OBVIOUS
  <2>2. slot("stop") \in Slots /\ slot("cancel") \in Slots
    BY <2>1, SlotFields DEF TestRows
  <2>3. Spending(t) => slot("stop") \in GoodSlots
    BY <2>1, <2>2
    DEF Spending, TestSound, TestRows, Idle, WellFormed, Creating, Asking, Held, Checked, Deciding, Stopping, Reading
  <2>4. slot("cancel") \in GoodSlots
    BY <2>2 DEF Idle, WellFormed, Creating, Asking, Held, Checked, Deciding, Stopping, Reading
  <2> QED BY <1>4, <2>3, <2>4, Moves DEF Cancel
<1>5. ASSUME NEW t \in Tests, Refresh(r, t)
      PROVE  Typed'
  <2>1. tests[t].study \in Studies /\ tests[t].cells \in Cells
    BY <1>5 DEF Refresh, TestSound, TestRows
  <2>2. [Idle EXCEPT !.pc = "pull", !.test = t, !.study = tests[t].study,
                     !.cells = tests[t].cells] \in GoodSlots
    BY <2>1, SlotFields DEF Idle, WellFormed, Creating, Asking, Held, Checked, Deciding, Stopping, Reading
  <2> QED BY <1>5, <2>2, Moves DEF Refresh
<1> QED BY <1>1, <1>2, <1>3, <1>4, <1>5 DEF UserRequest

LEMMA ExpiredType ==
  ASSUME approvals \in [Approvals -> ApprovalRows], NEW gone
  PROVE  Expired(gone) \in [Approvals -> ApprovalRows]
BY ApprovalFields, StatusValues DEF Expired

LEMMA LaunchedType ==
  ASSUME Typed, NEW r \in Requests, req[r].pc \in Held
  PROVE  Launched(r) \in TestRows
<1>1. tests[req[r].test] \in TestRows /\ req[r].study \in Studies /\ req[r].cells \in Cells
  BY DEF Typed, TypeOK, GoodSlots, WellFormed, Held, Checked, Deciding
<1> QED BY <1>1, TestFields, StatusValues DEF Launched, Snapshot

LEMMA TypedServe ==
  ASSUME LaunchInvariant, NEW r \in Requests, Serve(r)
  PROVE  Typed'
<1> USE PCValues, Moves DEF Typed, TypeOK, rows, At
<1>0. /\ Typed /\ req[r] \in GoodSlots /\ req[r] \in Slots /\ WellFormed(req[r])
      /\ req' \in [Requests -> GoodSlots] => req' \in [Requests -> Slots]
  BY DEF LaunchInvariant, GoodSlots
<1> HIDE DEF LaunchInvariant
<1>1. CASE CreateDuplicate(r)
  BY <1>0, <1>1, GotoType DEF CreateDuplicate, Follows
<1>2. CASE CreateInsert(r)
  <2>1. req[r].test \in Tests /\ req[r].pair \in Pairs
    BY <1>0, <1>2 DEF CreateInsert, WellFormed, Creating
  <2>2. [NoTest EXCEPT !.status = "DRAFT", !.pair = req[r].pair] \in TestRows
    BY <2>1, StatusValues DEF NoTest, TestRows
  <2> QED BY <1>0, <1>2, <2>1, <2>2 DEF CreateInsert
<1>3. CASE LaunchResolve(r)
  <2>1. req[r].pair \in Pairs
    BY <1>0, <1>3 DEF LaunchResolve, WellFormed, Asking
  <2>2. ASSUME \A side \in Sides : published[req[r].pair[side]] > 0
        PROVE  [req[r] EXCEPT !.pc = "supersede", !.cells = MetaIds(req[r].pair)] \in GoodSlots
    <3>1. MetaIds(req[r].pair) \in Cells
      BY <1>0, <2>1, <2>2, MetaIdsType
    <3> QED BY <1>0, <1>3, <3>1
        DEF LaunchResolve, GoodSlots, Slots, WellFormed, Creating, Asking, Held, Checked, Deciding, Stopping, Reading
  <2> QED BY <1>0, <1>3, <2>2 DEF LaunchResolve
<1>4. CASE LaunchSupersede(r)
  <2>1. [req[r] EXCEPT !.pc = "request", !.seen = PendingFor(req[r].test)] \in GoodSlots
    BY <1>0, <1>4
    DEF LaunchSupersede, PendingFor, GoodSlots, Slots, WellFormed, Creating, Asking, Held, Checked, Deciding, Stopping, Reading
  <2> QED BY <1>0, <1>4, <2>1 DEF LaunchSupersede
<1>5. CASE LaunchRequest(r)
  <2>1. /\ req[r].test \in Tests /\ req[r].cells \in Cells
        /\ req[r].user \in Writers /\ req[r].approval \in Approvals
    BY <1>0, <1>5 DEF LaunchRequest, WellFormed, Asking
  <2>2. [status |-> "PENDING", test |-> req[r].test, cells |-> req[r].cells,
         requester |-> req[r].user] \in ApprovalRows
    BY <2>1, StatusValues DEF ApprovalRows
  <2>3. approvals' \in [Approvals -> ApprovalRows]
    BY <1>0, <1>5, <2>2, ExpiredType DEF LaunchRequest
  <2>4. tests' \in [Tests -> TestRows]
    BY <1>0, <1>5, <2>1, TestFields, StatusValues DEF LaunchRequest
  <2> QED BY <1>0, <1>5, <2>3, <2>4 DEF LaunchRequest
<1>6. CASE DecideCount(r)
  BY <1>0, <1>6, GotoType DEF DecideCount, Follows
<1>7. CASE DecideReject(r)
  <2>1. req[r].test \in Tests /\ req[r].approval \in Approvals
    BY <1>0, <1>7 DEF DecideReject, WellFormed, Deciding
  <2>2. BackToDraft(req[r].test) \in TestRows
    BY <1>0, <2>1, TestFields, StatusValues DEF BackToDraft
  <2>3. tests' \in [Tests -> TestRows]
    BY <1>0, <1>7, <2>2 DEF DecideReject
  <2>4. approvals' \in [Approvals -> ApprovalRows]
    BY <1>0, <1>7, <2>1, ApprovalFields, StatusValues DEF DecideReject
  <2> QED BY <1>0, <1>7, <2>3, <2>4 DEF DecideReject
<1>8. CASE LaunchDrift(r)
  BY <1>0, <1>8, GotoType DEF LaunchDrift, Follows
<1>9. CASE LaunchCall(r)
  <2>1. /\ req[r].cells \in Cells /\ req[r].approval \in Approvals
        /\ req[r].user \in Approvers
    BY <1>0, <1>9 DEF LaunchCall, WellFormed, Deciding, Checked
  <2>2. \A x \in Sides : req[r].cells[x] \in Entities
    BY <2>1 DEF Cells
  <2>3. ASSUME NEW leader \in {None} \cup {SentCells(r)[x] : x \in Sides}
        PROVE  [approval |-> req[r].approval, cells |-> SentCells(r), leader |-> leader,
                live |-> TRUE, by |-> req[r].user] \in StudyObjects
    BY <2>1, <2>2 DEF SentCells, StudyObjects
  <2>4. studies' \in [Studies -> StudyObjects] /\ abandoned' \subseteq Studies
    BY <1>0, <1>9, <2>3 DEF LaunchCall
  <2>5. ASSUME NEW s \in Studies
        PROVE  [req[r] EXCEPT !.pc = "commit", !.study = s] \in GoodSlots
    BY <1>0, <1>9
    DEF LaunchCall, GoodSlots, Slots, WellFormed, Creating, Asking, Held, Checked, Deciding, Stopping, Reading
  <2>6. req' \in [Requests -> GoodSlots]
    BY <1>0, <1>9, <2>5 DEF LaunchCall
  <2> QED BY <1>0, <1>9, <2>4, <2>6 DEF LaunchCall
<1>10. CASE LaunchCommit(r)
  <2>1. Launched(r) \in TestRows /\ req[r].approval \in Approvals
    BY <1>0, <1>10, LaunchedType DEF LaunchCommit, WellFormed, Deciding, Checked, Held
  <2>2. tests' \in [Tests -> TestRows]
    BY <1>0, <1>10, <2>1 DEF LaunchCommit
  <2>3. approvals' \in [Approvals -> ApprovalRows]
    BY <1>0, <1>10, <2>1, ApprovalFields, StatusValues DEF LaunchCommit
  <2> QED BY <1>0, <1>10, <2>2, <2>3, GotoType DEF LaunchCommit, Follows
<1>11. CASE LaunchCompensate(r)
  <2>1. studies' \in [Studies -> StudyObjects]
    <3>1. studies' = studies \/ studies' = [studies EXCEPT ![req[r].study].live = FALSE]
      BY <1>11 DEF LaunchCompensate
    <3> QED BY <1>0, <3>1, StudyFields
  <2>2. ASSUME NEW told \in BOOLEAN
        PROVE  [req[r] EXCEPT !.pc = "cleanup", !.flag = told] \in GoodSlots
    BY <1>0, <1>11
    DEF LaunchCompensate, GoodSlots, Slots, WellFormed, Creating, Asking, Held, Checked, Deciding, Stopping, Reading
  <2>3. req' \in [Requests -> GoodSlots]
    BY <1>0, <1>11, <2>2, GotoType DEF LaunchCompensate, Follows
  <2> QED BY <1>0, <1>11, <2>1, <2>3 DEF LaunchCompensate
<1>12. CASE LaunchCleanup(r)
  <2>1. /\ Launched(r) \in TestRows /\ req[r].test \in Tests
        /\ req[r].approval \in Approvals /\ req[r].study \in Studies
    BY <1>0, <1>12, LaunchedType DEF LaunchCleanup, WellFormed, Deciding, Checked, Held
  <2>2. AfterFailure(r) \in TestRows
    BY <1>0, <2>1, TestFields, StatusValues DEF AfterFailure
  <2>3. tests' \in [Tests -> TestRows]
    BY <1>0, <1>12, <2>2 DEF LaunchCleanup
  <2>4. approvals' \in [Approvals -> ApprovalRows]
    BY <1>0, <1>12, <2>1, ApprovalFields, StatusValues DEF LaunchCleanup
  <2>5. abandoned' \subseteq Studies
    BY <1>0, <1>12, <2>1 DEF LaunchCleanup
  <2> QED BY <1>0, <1>12, <2>3, <2>4, <2>5 DEF LaunchCleanup
<1>13. CASE CancelStop(r)
  <2>1. studies' \in [Studies -> StudyObjects]
    BY <1>0, <1>13, StudyFields DEF CancelStop
  <2> QED BY <1>0, <1>13, <2>1, GotoType DEF CancelStop, Follows
<1>14. CASE CancelPause(r, "A", "pauseA", "pauseB") \/ CancelPause(r, "B", "pauseB", "cancel")
  <2>1. \A side \in Sides : req[r].cells[side] \in Entities
    BY <1>0, <1>14 DEF CancelPause, WellFormed, Stopping, Cells
  <2>2. paused' \subseteq Entities
    BY <1>0, <1>14, <2>1 DEF CancelPause, Sides
  <2> QED BY <1>0, <1>14, <2>2, GotoType DEF CancelPause, Follows
<1>15. CASE CancelWrite(r)
  <2>1. tests' \in [Tests -> TestRows]
    BY <1>0, <1>15, TestFields, StatusValues DEF CancelWrite
  <2> QED BY <1>0, <1>15, <2>1, ExpiredType DEF CancelWrite
<1>16. CASE RefreshPull(r)
  <2>1. ASSUME NEW answer
        PROVE  Winner(answer, req[r].cells) \in Sides \cup {None}
    BY DEF Winner
  <2>2. req[r].study \in Studies
    BY <1>0, <1>16 DEF RefreshPull, WellFormed, Reading
  <2>3. (~studies[req[r].study].live) \in BOOLEAN
    OBVIOUS
  <2>4. ASSUME NEW w \in Sides \cup {None}, NEW over \in BOOLEAN
        PROVE  [req[r] EXCEPT !.pc = "record", !.winner = w, !.flag = over] \in GoodSlots
    <3>1. req[r].pc = "pull"
      BY <1>16 DEF RefreshPull
    <3>2. [req[r] EXCEPT !.pc = "record", !.winner = w, !.flag = over] \in Slots
      BY <1>0, SlotFields
    <3> QED BY <1>0, <3>1, <3>2 DEF GoodSlots, Slots, WellFormed, Creating, Asking, Held, Checked, Deciding, Stopping, Reading
  <2>5. req' \in [Requests -> GoodSlots]
    BY <1>0, <1>16, <2>1, <2>3, <2>4 DEF RefreshPull
  <2> QED BY <1>0, <1>16, <2>5 DEF RefreshPull
<1>17. CASE RefreshRecord(r)
  <2>1. /\ req[r].test \in Tests /\ req[r].winner \in Sides \cup {None}
        /\ tests[req[r].test] \in TestRows
    BY <1>0, <1>17 DEF RefreshRecord, WellFormed, Reading, Slots
  <2>2. Recorded(r) \in TestRows
    BY <2>1, StatusValues DEF Recorded, TestRows
  <2>3. tests' \in [Tests -> TestRows]
    BY <1>0, <1>17, <2>2 DEF RefreshRecord
  <2> QED BY <1>0, <1>17, <2>3 DEF RefreshRecord
<1> QED
  BY <1>1, <1>2, <1>3, <1>4, <1>5, <1>6, <1>7, <1>8, <1>9, <1>10, <1>11, <1>12,
     <1>13, <1>14, <1>15, <1>16, <1>17 DEF Serve

LEMMA TypedNext == LaunchInvariant /\ [Next]_vars => Typed'
<1> SUFFICES ASSUME LaunchInvariant, [Next]_vars PROVE Typed'
  OBVIOUS
<1> USE DEF Typed, TypeOK
<1>0. Typed
  BY DEF LaunchInvariant
<1> HIDE DEF LaunchInvariant
<1>1. ASSUME NEW r \in Requests, UserRequest(r) PROVE Typed'
  BY <1>1, TypedUserRequest
<1>2. ASSUME NEW r \in Requests, Serve(r) PROVE Typed'
  BY <1>2, TypedServe
<1>3. ASSUME NEW r \in Requests, Crash(r) PROVE Typed'
  <2>1. abandoned' \subseteq Studies
    BY <1>0, <1>3 DEF Crash, Launching, GoodSlots, WellFormed, Held
  <2>2. req' \in [Requests -> GoodSlots]
    BY <1>0, <1>3, Moves DEF Crash
  <2> QED BY <1>0, <1>3, <2>1, <2>2 DEF Crash, rows, GoodSlots
<1>4. ASSUME NEW x \in Ads, PublishAd(x) PROVE Typed'
  <2>1. published' \in [Ads -> 0 .. Versions]
    BY <1>0, <1>4, VersionAssumption DEF PublishAd
  <2> QED BY <1>0, <1>4, <2>1 DEF PublishAd, rows
<1>5. ASSUME NEW s \in Studies, StudyEnds(s) PROVE Typed'
  <2>1. studies' \in [Studies -> StudyObjects]
    BY <1>0, <1>5, StudyFields DEF StudyEnds
  <2> QED BY <1>0, <1>5, <2>1 DEF StudyEnds, rows
<1>6. CASE UNCHANGED vars
  BY <1>0, <1>6 DEF vars, rows
<1> QED BY <1>1, <1>2, <1>3, <1>4, <1>5, <1>6 DEF Next

-----------------------------------------------------------------------------
(* Which steps touch which variables.                                      *)

LEMMA TestWriters ==
  ASSUME [Next]_vars
  PROVE  \/ \E r \in Requests :
              CreateInsert(r) \/ LaunchRequest(r) \/ DecideReject(r) \/ LaunchCommit(r)
              \/ LaunchCleanup(r) \/ CancelWrite(r) \/ RefreshRecord(r)
         \/ UNCHANGED tests
<1>1. ASSUME NEW r \in Requests, UserRequest(r)
      PROVE  UNCHANGED tests
  BY <1>1 DEF UserRequest, Create, RequestLaunch, Decide, Cancel, Refresh, rows
<1>2. ASSUME NEW r \in Requests, Serve(r),
             ~CreateInsert(r), ~LaunchRequest(r), ~DecideReject(r), ~LaunchCommit(r),
             ~LaunchCleanup(r), ~CancelWrite(r), ~RefreshRecord(r)
      PROVE  UNCHANGED tests
  BY <1>2 DEF Serve, CreateDuplicate, LaunchResolve, LaunchSupersede, DecideCount,
     LaunchDrift, LaunchCall, LaunchCompensate, CancelStop, CancelPause, RefreshPull, rows
<1>3. ASSUME NEW r \in Requests, Crash(r)
      PROVE  UNCHANGED tests
  BY <1>3 DEF Crash, rows
<1>4. ASSUME (\E x \in Ads : PublishAd(x)) \/ (\E s \in Studies : StudyEnds(s)) \/ UNCHANGED vars
      PROVE  UNCHANGED tests
  BY <1>4 DEF PublishAd, StudyEnds, vars, rows
<1> QED BY <1>1, <1>2, <1>3, <1>4 DEF Next

LEMMA ApprovalWriters ==
  ASSUME [Next]_vars
  PROVE  \/ \E r \in Requests :
              LaunchRequest(r) \/ DecideReject(r) \/ LaunchCommit(r)
              \/ LaunchCleanup(r) \/ CancelWrite(r)
         \/ UNCHANGED approvals
<1>1. ASSUME NEW r \in Requests, UserRequest(r)
      PROVE  UNCHANGED approvals
  BY <1>1 DEF UserRequest, Create, RequestLaunch, Decide, Cancel, Refresh, rows
<1>2. ASSUME NEW r \in Requests, Serve(r), ~LaunchRequest(r), ~DecideReject(r),
             ~LaunchCommit(r), ~LaunchCleanup(r), ~CancelWrite(r)
      PROVE  UNCHANGED approvals
  BY <1>2 DEF Serve, CreateDuplicate, CreateInsert, LaunchResolve, LaunchSupersede,
     DecideCount, LaunchDrift, LaunchCall, LaunchCompensate, CancelStop, CancelPause,
     RefreshPull, RefreshRecord, rows
<1>3. ASSUME NEW r \in Requests, Crash(r)
      PROVE  UNCHANGED approvals
  BY <1>3 DEF Crash, rows
<1>4. ASSUME (\E x \in Ads : PublishAd(x)) \/ (\E s \in Studies : StudyEnds(s)) \/ UNCHANGED vars
      PROVE  UNCHANGED approvals
  BY <1>4 DEF PublishAd, StudyEnds, vars, rows
<1> QED BY <1>1, <1>2, <1>3, <1>4 DEF Next

LEMMA StudyWriters ==
  ASSUME [Next]_vars
  PROVE  \/ \E r \in Requests : LaunchCall(r) \/ LaunchCompensate(r) \/ CancelStop(r)
         \/ \E s \in Studies : StudyEnds(s)
         \/ UNCHANGED studies
<1>1. ASSUME NEW r \in Requests, UserRequest(r)
      PROVE  UNCHANGED studies
  BY <1>1 DEF UserRequest, Create, RequestLaunch, Decide, Cancel, Refresh
<1>2. ASSUME NEW r \in Requests, Serve(r),
             ~LaunchCall(r), ~LaunchCompensate(r), ~CancelStop(r)
      PROVE  UNCHANGED studies
  BY <1>2 DEF Serve, CreateDuplicate, CreateInsert, LaunchResolve, LaunchSupersede,
     LaunchRequest, DecideCount, DecideReject, LaunchDrift, LaunchCommit, LaunchCleanup,
     CancelPause, CancelWrite, RefreshPull, RefreshRecord
<1>3. ASSUME NEW r \in Requests, Crash(r)
      PROVE  UNCHANGED studies
  BY <1>3 DEF Crash
<1>4. ASSUME (\E x \in Ads : PublishAd(x)) \/ UNCHANGED vars
      PROVE  UNCHANGED studies
  BY <1>4 DEF PublishAd, vars
<1> QED BY <1>1, <1>2, <1>3, <1>4 DEF Next

\* A step of a request changes its own slot only.
LEMMA OneMoves ==
  ASSUME req \in [Requests -> GoodSlots], NEW r \in Requests, NEW q \in Requests, q # r,
         UserRequest(r) \/ Serve(r) \/ Crash(r)
  PROVE  req'[q] = req[q]
<1>1. ASSUME NEW s, Become(r, s)
      PROVE  req'[q] = req[q]
  BY <1>1 DEF Become
<1>2. CASE UserRequest(r)
  BY <1>1, <1>2 DEF UserRequest, Create, RequestLaunch, Decide, Cancel, Refresh, Start
<1>3. CASE Serve(r)
  BY <1>1, <1>3 DEF Serve, CreateDuplicate, CreateInsert, LaunchResolve, LaunchSupersede,
     LaunchRequest, DecideCount, DecideReject, LaunchDrift, LaunchCall, LaunchCommit,
     LaunchCompensate, LaunchCleanup, CancelStop, CancelPause, CancelWrite, RefreshPull,
     RefreshRecord, Goto, Return
<1>4. CASE Crash(r)
  BY <1>1, <1>4 DEF Crash, Return
<1> QED BY <1>2, <1>3, <1>4

LEMMA SlotOwner ==
  ASSUME req \in [Requests -> GoodSlots], [Next]_vars,
         NEW q \in Requests, req'[q] # req[q]
  PROVE  UserRequest(q) \/ Serve(q) \/ Crash(q)
<1>1. ASSUME (\E x \in Ads : PublishAd(x)) \/ (\E s \in Studies : StudyEnds(s)) \/ UNCHANGED vars
      PROVE  FALSE
  BY <1>1 DEF PublishAd, StudyEnds, vars
<1> QED BY <1>1, OneMoves DEF Next

-----------------------------------------------------------------------------
(* What a step does to one row or one study.                               *)

\* Only the status or the winner changes, of a row that exists.
SameTest(row, new) ==
  /\ new.pair = row.pair /\ new.study = row.study /\ new.cells = row.cells
  /\ new.status # "ABSENT" => new.pair # None

SameApproval(row, new) ==
  /\ new.test = row.test /\ new.cells = row.cells /\ new.requester = row.requester
  /\ new.status = "ABSENT" <=> row.status = "ABSENT"

SameStudy(s, new) ==
  /\ new.approval = s.approval /\ new.cells = s.cells /\ new.by = s.by
  /\ s = NoStudy => new = NoStudy

LEMMA TestStep ==
  ASSUME LaunchInvariant, [Next]_vars, NEW t \in Tests
  PROVE  \/ SameTest(tests[t], tests'[t])
         \/ \E r \in Requests : CreateInsert(r) /\ t = req[r].test
         \/ \E r \in Requests : /\ req[r].pc \in Held /\ t = req[r].test
                                 /\ tests'[t] = Launched(r) /\ UNCHANGED studies
<1>1. /\ tests \in [Tests -> TestRows]
      /\ \A u \in Tests : tests[u] \in TestRows /\ TestSound(tests[u], studies)
      /\ \A r \in Requests : WellFormed(req[r]) /\ SlotMatches(req[r], tests, approvals, studies)
  BY DEF LaunchInvariant, Typed, TypeOK, GoodSlots
<1>2. SameTest(tests[t], tests[t])
  BY <1>1 DEF SameTest, TestSound
<1>3. ASSUME tests[t].pair # None
      PROVE  /\ \A v : SameTest(tests[t], [tests[t] EXCEPT !.status = v])
             /\ \A v, w : SameTest(tests[t], [tests[t] EXCEPT !.winner = w, !.status = v])
  BY <1>1, <1>3 DEF SameTest, TestRows
<1>4. ASSUME NEW r \in Requests, LaunchRequest(r) \/ CancelWrite(r)
      PROVE  SameTest(tests[t], tests'[t])
  <2>1. req[r].test \in Tests /\ tests[req[r].test].pair # None
    BY <1>1, <1>4 DEF LaunchRequest, CancelWrite, At, WellFormed, SlotMatches, Asking
  <2>2. CASE t # req[r].test
    BY <1>1, <1>2, <1>4, <2>2 DEF LaunchRequest, CancelWrite
  <2>3. CASE t = req[r].test
    <3>1. \E v : tests'[t] = [tests[t] EXCEPT !.status = v]
      BY <1>1, <1>4, <2>3 DEF LaunchRequest, CancelWrite
    <3> QED BY <1>3, <2>1, <2>3, <3>1
  <2> QED BY <2>2, <2>3
<1>5. ASSUME NEW r \in Requests, DecideReject(r)
      PROVE  SameTest(tests[t], tests'[t])
  <2>1. tests[req[r].test].pair # None
    BY <1>1, <1>5 DEF DecideReject, At, SlotMatches, Deciding
  <2>2. \/ tests'[t] = tests[t]
        \/ t = req[r].test /\ tests'[t] = BackToDraft(req[r].test)
    BY <1>1, <1>5 DEF DecideReject
  <2>3. ASSUME t = req[r].test
        PROVE  SameTest(tests[t], BackToDraft(t))
    BY <1>2, <1>3, <2>1, <2>3 DEF BackToDraft
  <2> QED BY <1>2, <2>2, <2>3
<1>6. ASSUME NEW r \in Requests, RefreshRecord(r)
      PROVE  SameTest(tests[t], tests'[t])
  <2>1. tests[req[r].test].pair # None
    BY <1>1, <1>6 DEF RefreshRecord, At, SlotMatches, Reading
  <2>2. \/ tests'[t] = tests[t]
        \/ t = req[r].test /\ tests'[t] = Recorded(r)
    BY <1>1, <1>6 DEF RefreshRecord
  <2>3. ASSUME t = req[r].test
        PROVE  SameTest(tests[t], Recorded(r))
    BY <1>1, <2>1, <2>3 DEF Recorded, SameTest, TestRows
  <2> QED BY <1>2, <2>2, <2>3
<1>7. ASSUME NEW r \in Requests, LaunchCommit(r) \/ LaunchCleanup(r)
      PROVE  \/ SameTest(tests[t], tests'[t])
             \/ /\ req[r].pc \in Held /\ t = req[r].test
                /\ tests'[t] = Launched(r) /\ UNCHANGED studies
  <2>1. req[r].pc \in Held /\ UNCHANGED studies
    BY <1>7 DEF LaunchCommit, LaunchCleanup, At, Held
  <2>2. tests[req[r].test].pair # None
    BY <1>1, <2>1 DEF SlotMatches, Held, Checked, Deciding
  <2>3. \/ tests'[t] = tests[t]
        \/ t = req[r].test /\ tests'[t] = Launched(r)
        \/ t = req[r].test /\ tests'[t] = [tests[t] EXCEPT !.status = "DRAFT"]
    BY <1>1, <1>7 DEF LaunchCommit, LaunchCleanup, AfterFailure, rows
  <2> QED BY <1>2, <1>3, <2>1, <2>2, <2>3
<1>8. ASSUME NEW r \in Requests, CreateInsert(r), t # req[r].test
      PROVE  SameTest(tests[t], tests'[t])
  BY <1>1, <1>2, <1>8 DEF CreateInsert
<1> QED BY <1>2, <1>4, <1>5, <1>6, <1>7, <1>8, TestWriters

LEMMA ApprovalStep ==
  ASSUME LaunchInvariant, [Next]_vars, NEW a \in Approvals
  PROVE  \/ SameApproval(approvals[a], approvals'[a])
         \/ \E r \in Requests :
              /\ LaunchRequest(r) /\ a = req[r].approval
              /\ approvals'[a] = [status |-> "PENDING", test |-> req[r].test,
                                  cells |-> req[r].cells, requester |-> req[r].user]
<1>1. /\ approvals \in [Approvals -> ApprovalRows]
      /\ \A b \in Approvals : approvals[b] \in ApprovalRows
      /\ \A r \in Requests : WellFormed(req[r]) /\ SlotMatches(req[r], tests, approvals, studies)
  BY DEF LaunchInvariant, Typed, TypeOK, GoodSlots
<1>2. SameApproval(approvals[a], approvals[a])
  BY DEF SameApproval
<1>3. ASSUME approvals[a].status # "ABSENT", NEW v, v # "ABSENT"
      PROVE  SameApproval(approvals[a], [approvals[a] EXCEPT !.status = v])
  BY <1>1, <1>3 DEF SameApproval, ApprovalRows
<1>4. ASSUME NEW gone
      PROVE  SameApproval(approvals[a], Expired(gone)[a])
  BY <1>2, <1>3 DEF Expired
<1>5. ASSUME NEW r \in Requests, LaunchRequest(r), a # req[r].approval
      PROVE  SameApproval(approvals[a], approvals'[a])
  <2>1. approvals'[a] = Expired(req[r].seen)[a]
    BY <1>5 DEF LaunchRequest, Expired
  <2> QED BY <1>4, <2>1
<1>6. ASSUME NEW r \in Requests, LaunchRequest(r), a = req[r].approval
      PROVE  approvals'[a] = [status |-> "PENDING", test |-> req[r].test,
                              cells |-> req[r].cells, requester |-> req[r].user]
  BY <1>6 DEF LaunchRequest, Expired
<1>7. ASSUME NEW r \in Requests, CancelWrite(r)
      PROVE  SameApproval(approvals[a], approvals'[a])
  BY <1>4, <1>7 DEF CancelWrite
<1>8. ASSUME NEW r \in Requests, DecideReject(r) \/ LaunchCommit(r) \/ LaunchCleanup(r)
      PROVE  SameApproval(approvals[a], approvals'[a])
  <2>1. approvals[req[r].approval].status # "ABSENT"
    BY <1>1, <1>8
    DEF DecideReject, LaunchCommit, LaunchCleanup, At, SlotMatches, Deciding, Checked, Held
  <2>2. \/ approvals'[a] = approvals[a]
        \/ /\ a = req[r].approval
           /\ \E v \in {"REJECTED", "CONSUMED", "EXPIRED"} :
                approvals'[a] = [approvals[a] EXCEPT !.status = v]
    <3>1. CASE DecideReject(r)
      BY <1>1, <3>1 DEF DecideReject
    <3>2. CASE LaunchCommit(r)
      BY <1>1, <3>2 DEF LaunchCommit, rows
    <3>3. CASE LaunchCleanup(r)
      BY <1>1, <3>3 DEF LaunchCleanup, rows
    <3> QED BY <1>8, <3>1, <3>2, <3>3
  <2> QED BY <1>2, <1>3, <2>1, <2>2
<1> QED BY <1>2, <1>5, <1>6, <1>7, <1>8, ApprovalWriters

LEMMA StudyStep ==
  ASSUME LaunchInvariant, [Next]_vars, NEW s \in Studies
  PROVE  \/ SameStudy(studies[s], studies'[s])
         \/ \E r \in Requests :
              /\ LaunchCall(r) /\ studies[s] = NoStudy
              /\ studies'[s].approval = req[r].approval
              /\ studies'[s].cells = req[r].cells
              /\ studies'[s].by = req[r].user
<1>1. studies \in [Studies -> StudyObjects] /\ studies[s] \in StudyObjects
  BY DEF LaunchInvariant, Typed, TypeOK
<1>2. /\ SameStudy(studies[s], studies[s])
      /\ SameStudy(studies[s], [studies[s] EXCEPT !.live = FALSE])
  <2>1. \A x \in StudyObjects : x.live = FALSE => [x EXCEPT !.live = FALSE] = x
    BY DEF StudyObjects
  <2>2. NoStudy.live = FALSE
    BY DEF NoStudy
  <2> QED BY <1>1, <2>1, <2>2 DEF SameStudy, StudyObjects
<1>3. ASSUME NEW r \in Requests, LaunchCompensate(r) \/ CancelStop(r)
      PROVE  SameStudy(studies[s], studies'[s])
  BY <1>1, <1>2, <1>3 DEF LaunchCompensate, CancelStop
<1>4. ASSUME NEW x \in Studies, StudyEnds(x)
      PROVE  SameStudy(studies[s], studies'[s])
  BY <1>1, <1>2, <1>4 DEF StudyEnds
<1>5. ASSUME NEW r \in Requests, LaunchCall(r)
      PROVE  \/ studies'[s] = studies[s]
             \/ /\ studies[s] = NoStudy
                /\ studies'[s].approval = req[r].approval
                /\ studies'[s].cells = req[r].cells
                /\ studies'[s].by = req[r].user
  <2>1. CASE UNCHANGED studies
    BY <2>1
  <2>2. ASSUME NEW x \in Studies, NEW leader, FreshStudy(x),
               studies' = [studies EXCEPT ![x] =
                 [approval |-> req[r].approval, cells |-> SentCells(r), leader |-> leader,
                  live |-> TRUE, by |-> req[r].user]]
        PROVE  \/ studies'[s] = studies[s]
               \/ /\ studies[s] = NoStudy
                  /\ studies'[s].approval = req[r].approval
                  /\ studies'[s].cells = req[r].cells
                  /\ studies'[s].by = req[r].user
    BY <1>1, <2>2 DEF FreshStudy, SentCells
  <2> QED BY <1>5, <2>1, <2>2 DEF LaunchCall
<1> QED BY <1>2, <1>3, <1>4, <1>5, StudyWriters

-----------------------------------------------------------------------------
(* What no step takes back.                                                *)

TestsKept(ts, new) ==
  \A t \in Tests : ts[t].pair # None => new[t].pair = ts[t].pair
ApprovalsKept(as, new) ==
  \A a \in Approvals : as[a].status # "ABSENT" => SameApproval(as[a], new[a])
StudiesKept(ss, new) ==
  \A s \in Studies : ss[s].approval # None => SameStudy(ss[s], new[s])

LEMMA Kept ==
  ASSUME LaunchInvariant, [Next]_vars
  PROVE  /\ TestsKept(tests, tests')
         /\ ApprovalsKept(approvals, approvals')
         /\ StudiesKept(studies, studies')
<1>0. /\ \A t \in Tests : tests[t] \in TestRows
      /\ \A r \in Requests : SlotMatches(req[r], tests, approvals, studies)
  BY DEF LaunchInvariant, Typed, TypeOK
<1>1. ASSUME NEW t \in Tests, tests[t].pair # None
      PROVE  tests'[t].pair = tests[t].pair
  <2>1. ASSUME NEW r \in Requests, CreateInsert(r), t = req[r].test
        PROVE  FALSE
    BY <1>0, <1>1, <2>1 DEF CreateInsert, At, SlotMatches, Creating
  <2>2. ASSUME NEW r \in Requests, t = req[r].test
        PROVE  Launched(r).pair = tests[t].pair
    BY <1>0, <2>2 DEF Launched, TestRows
  <2> QED BY <2>1, <2>2, TestStep DEF SameTest
<1>2. ASSUME NEW a \in Approvals, approvals[a].status # "ABSENT"
      PROVE  SameApproval(approvals[a], approvals'[a])
  <2>1. ASSUME NEW r \in Requests, LaunchRequest(r), a = req[r].approval
        PROVE  FALSE
    BY <1>0, <1>2, <2>1 DEF LaunchRequest, At, SlotMatches, Asking
  <2> QED BY <2>1, ApprovalStep
<1>3. ASSUME NEW s \in Studies, studies[s].approval # None
      PROVE  SameStudy(studies[s], studies'[s])
  BY <1>3, StudyStep DEF NoStudy
<1> QED BY <1>1, <1>2, <1>3 DEF TestsKept, ApprovalsKept, StudiesKept

\* An id a handler has reserved is not used by anybody else.
LEMMA FreshKept ==
  ASSUME LaunchInvariant, [Next]_vars, NEW q \in Requests, req'[q] = req[q]
  PROVE  /\ req[q].pc \in Creating => tests'[req[q].test].pair = None
         /\ req[q].pc \in Asking => approvals'[req[q].approval].status = "ABSENT"
<1>0. /\ req \in [Requests -> GoodSlots] /\ WellFormed(req[q])
      /\ \A r \in Requests : SlotMatches(req[r], tests, approvals, studies)
  BY DEF LaunchInvariant, Typed, TypeOK, GoodSlots
<1>1. ASSUME NEW r \in Requests, Return(r), req[q].pc \in Creating \cup Asking
      PROVE  r # q
  <2>1. req'[r] = Idle
    BY <1>0, <1>1 DEF Return, Become
  <2> QED BY <1>1, <2>1 DEF Idle, Creating, Asking
<1>2. ASSUME req[q].pc \in Creating
      PROVE  tests'[req[q].test].pair = None
  <2>1. req[q].test \in Tests /\ tests[req[q].test].pair = None
    BY <1>0, <1>2 DEF WellFormed, SlotMatches
  <2>2. ASSUME NEW r \in Requests, CreateInsert(r), req[q].test = req[r].test
        PROVE  FALSE
    BY <1>1, <1>2, <2>2 DEF CreateInsert, LaunchInvariant, TestIdsReserved
  <2>3. ASSUME NEW r \in Requests, req[r].pc \in Held, req[q].test = req[r].test
        PROVE  FALSE
    BY <1>0, <2>1, <2>3 DEF SlotMatches, Held, Checked, Deciding
  <2> QED BY <2>1, <2>2, <2>3, TestStep DEF SameTest
<1>3. ASSUME req[q].pc \in Asking
      PROVE  approvals'[req[q].approval].status = "ABSENT"
  <2>1. req[q].approval \in Approvals /\ approvals[req[q].approval].status = "ABSENT"
    BY <1>0, <1>3 DEF WellFormed, SlotMatches
  <2>2. ASSUME NEW r \in Requests, LaunchRequest(r), req[q].approval = req[r].approval
        PROVE  FALSE
    BY <1>1, <1>3, <2>2 DEF LaunchRequest, LaunchInvariant, ApprovalIdsReserved
  <2> QED BY <2>1, <2>2, ApprovalStep DEF SameApproval
<1> QED BY <1>2, <1>3

-----------------------------------------------------------------------------
(* What a slot knows.                                                      *)

LEMMA SlotFrame ==
  ASSUME NEW s \in GoodSlots, NEW ts, NEW ts2, NEW as, NEW as2, NEW ss, NEW ss2,
         SlotMatches(s, ts, as, ss),
         TestsKept(ts, ts2), ApprovalsKept(as, as2), StudiesKept(ss, ss2),
         s.pc \in Creating => ts2[s.test].pair = None,
         s.pc \in Asking => as2[s.approval].status = "ABSENT"
  PROVE  SlotMatches(s, ts2, as2, ss2)
<1>1. /\ s.pc \in Asking \cup Deciding \cup Stopping \cup Reading \cup {"cancel"} => s.test \in Tests
      /\ s.pc \in Deciding => s.approval \in Approvals
      /\ s.pc \in Held => s.study \in Studies
      /\ s.pc \in Checked => s.pc \in Deciding
  BY DEF GoodSlots, WellFormed, Deciding
<1>2. s.pc \in Asking \cup Deciding \cup Stopping \cup Reading \cup {"cancel"} =>
        ts2[s.test].pair # None
  BY <1>1 DEF SlotMatches, TestsKept
<1>3. s.pc \in Deciding => SameApproval(as[s.approval], as2[s.approval])
  BY <1>1 DEF SlotMatches, ApprovalsKept
<1>4. s.pc \in Held => SameStudy(ss[s.study], ss2[s.study])
  BY <1>1 DEF SlotMatches, StudiesKept
<1> QED BY <1>1, <1>2, <1>3, <1>4 DEF SlotMatches, SameApproval, SameStudy

LEMMA SlotsKeep ==
  ASSUME LaunchInvariant, [Next]_vars, NEW q \in Requests, req'[q] = req[q]
  PROVE  SlotMatches(req'[q], tests', approvals', studies')
<1>1. req[q] \in GoodSlots /\ SlotMatches(req[q], tests, approvals, studies)
  BY DEF LaunchInvariant, Typed
<1> HIDE DEF LaunchInvariant
<1>2. SlotMatches(req[q], tests', approvals', studies')
  BY <1>1, FreshKept, SlotFrame, Kept
<1> QED BY <1>2

LEMMA IdleMatches == SlotMatches(Idle, tests, approvals, studies)
BY DEF SlotMatches, Idle, Creating, Asking, Held, Checked, Deciding, Stopping, Reading

\* A handler that only goes on knows what it knew; the check of the approver
\* (count to drift) is the one step that has to establish something.
LEMMA GotoMatches ==
  ASSUME NEW s \in Slots, SlotMatches(s, tests, approvals, studies), NEW pc,
         Follows(s.pc, pc), s.pc = "count" => Approvers = {s.user}
  PROVE  SlotMatches([s EXCEPT !.pc = pc], tests, approvals, studies)
BY DEF Follows, SlotMatches, Slots, Creating, Asking, Held, Checked, Deciding, Stopping, Reading

LEMMA SlotsMove ==
  ASSUME LaunchInvariant, [Next]_vars, NEW q \in Requests,
         UserRequest(q) \/ Serve(q) \/ Crash(q)
  PROVE  SlotMatches(req'[q], tests', approvals', studies')
<1> USE DEF At
<1>0. /\ req \in [Requests -> GoodSlots] /\ req'[q] \in GoodSlots
      /\ req[q] \in Slots /\ WellFormed(req[q])
      /\ SlotMatches(req[q], tests, approvals, studies)
  BY TypedNext DEF LaunchInvariant, Typed, GoodSlots
<1>1. ASSUME NEW s, Become(q, s)
      PROVE  req'[q] = s
  BY <1>0, <1>1 DEF Become
\* It is enough that the new slot matches the rows as they were.
<1>2. ASSUME SlotMatches(req'[q], tests, approvals, studies),
             req'[q].pc \in Creating \cup Asking => UNCHANGED rows
      PROVE  SlotMatches(req'[q], tests', approvals', studies')
  <2>1. /\ req'[q].pc \in Creating => tests'[req'[q].test].pair = None
        /\ req'[q].pc \in Asking => approvals'[req'[q].approval].status = "ABSENT"
    BY <1>2 DEF SlotMatches, rows
  <2> QED BY <1>0, <1>2, <2>1, SlotFrame, Kept
<1>3. ASSUME Return(q)
      PROVE  SlotMatches(req'[q], tests', approvals', studies')
  <2>1. req'[q] = Idle
    BY <1>1, <1>3 DEF Return
  <2> QED BY <1>2, <2>1, IdleMatches DEF Idle, Creating, Asking
<1>4. ASSUME NEW pc, Goto(q, pc), Follows(req[q].pc, pc),
             req[q].pc = "count" => Approvers = {req[q].user},
             pc \in Creating \cup Asking => UNCHANGED rows
      PROVE  SlotMatches(req'[q], tests', approvals', studies')
  <2>1. req'[q] = [req[q] EXCEPT !.pc = pc]
    BY <1>1, <1>4 DEF Goto
  <2>2. SlotMatches(req'[q], tests, approvals, studies)
    BY <1>0, <1>4, <2>1, GotoMatches
  <2>3. req'[q].pc = pc
    BY <1>0, <2>1 DEF Slots
  <2> QED BY <1>2, <1>4, <2>2, <2>3
<1>5. ASSUME NEW t \in Tests, NEW p \in Pairs, Create(q, t, p)
      PROVE  SlotMatches(req'[q], tests', approvals', studies')
  <2>1. req'[q] = [Idle EXCEPT !.pc = "duplicate", !.test = t, !.pair = p]
    BY <1>1, <1>5 DEF Create, Start
  <2>2. tests[t].pair = None
    BY <1>5 DEF Create, FreshTest, NoTest
  <2>3. SlotMatches(req'[q], tests, approvals, studies)
    BY <2>1, <2>2 DEF Idle, SlotMatches, Creating, Asking, Held, Checked, Deciding, Stopping, Reading
  <2> QED BY <1>2, <1>5, <2>3 DEF Create
<1>6. ASSUME NEW u \in Writers, NEW t \in Tests, NEW a \in Approvals, RequestLaunch(q, u, t, a)
      PROVE  SlotMatches(req'[q], tests', approvals', studies')
  <2>1. req'[q] = [Idle EXCEPT !.pc = "resolve", !.user = u, !.test = t, !.approval = a,
                               !.pair = tests[t].pair]
    BY <1>1, <1>6 DEF RequestLaunch, Start
  <2>2. tests[t].pair # None /\ approvals[a].status = "ABSENT"
    BY <1>6 DEF RequestLaunch, Launchable, FreshApproval, NoApproval, LaunchInvariant, TestSound
  <2>3. SlotMatches(req'[q], tests, approvals, studies)
    BY <2>1, <2>2 DEF Idle, SlotMatches, Creating, Asking, Held, Checked, Deciding, Stopping, Reading
  <2> QED BY <1>2, <1>6, <2>3 DEF RequestLaunch
<1>7. ASSUME NEW u \in Approvers, NEW a \in Approvals, NEW v \in Verdicts, Decide(q, u, a, v)
      PROVE  SlotMatches(req'[q], tests', approvals', studies')
  <2> DEFINE slot(pc) == [Idle EXCEPT !.pc = pc, !.user = u, !.approval = a,
                            !.test = approvals[a].test, !.cells = approvals[a].cells]
  <2>1. \/ req'[q] = slot("count") \/ req'[q] = slot("reject")
        \/ req'[q] = slot("drift") /\ approvals[a].requester # u
    BY <1>1, <1>7 DEF Decide, Start, Verdicts
  <2>2. /\ approvals[a].status # "ABSENT"
        /\ tests[approvals[a].test].pair # None
    BY <1>7 DEF Decide, LaunchInvariant, ApprovalSound
  <2>3. \A pc \in {"count", "reject", "drift"} :
          /\ slot(pc).pc = pc /\ slot(pc).user = u /\ slot(pc).approval = a
          /\ slot(pc).test = approvals[a].test /\ slot(pc).cells = approvals[a].cells
    BY DEF Idle
  <2>4. \A pc \in {"count", "reject", "drift"} :
          /\ pc = "drift" => approvals[a].requester # u
          => /\ SlotMatches(slot(pc), tests, approvals, studies)
             /\ slot(pc).pc \notin Creating \cup Asking
    <3> HIDE DEF slot
    <3> QED BY <2>2, <2>3 DEF SlotMatches, Creating, Asking, Held, Checked, Deciding, Stopping, Reading
  <2> HIDE DEF slot
  <2> QED BY <1>2, <2>1, <2>4
<1>8. ASSUME NEW t \in Tests, Cancel(q, t) \/ Refresh(q, t)
      PROVE  SlotMatches(req'[q], tests', approvals', studies')
  <2>1. \E pc \in {"stop", "cancel", "pull"} :
          req'[q] = [Idle EXCEPT !.pc = pc, !.test = t, !.study = tests[t].study,
                                 !.cells = tests[t].cells]
    BY <1>1, <1>8 DEF Cancel, Refresh, Start
  <2>2. tests[t].pair # None
    <3>1. TestSound(tests[t], studies)
      BY DEF LaunchInvariant
    <3> QED BY <1>8, <3>1 DEF Cancel, Refresh, TestSound, Active
  <2>3. /\ SlotMatches(req'[q], tests, approvals, studies)
        /\ req'[q].pc \notin Creating \cup Asking
    BY <2>1, <2>2 DEF Idle, SlotMatches, Creating, Asking, Held, Checked, Deciding, Stopping, Reading
  <2> QED BY <1>2, <2>3
<1>9. CASE UserRequest(q)
  BY <1>5, <1>6, <1>7, <1>8, <1>9 DEF UserRequest
<1>10. CASE CreateDuplicate(q)
  BY <1>3, <1>4, <1>10 DEF CreateDuplicate, Follows
<1>11. CASE CreateInsert(q) \/ LaunchRequest(q) \/ DecideReject(q) \/ LaunchCleanup(q)
            \/ CancelWrite(q) \/ RefreshRecord(q) \/ Crash(q)
  BY <1>3, <1>11 DEF CreateInsert, LaunchRequest, DecideReject, LaunchCleanup, CancelWrite,
     RefreshRecord, Crash
<1>12. CASE LaunchResolve(q) \/ LaunchSupersede(q)
  <2>1. ASSUME NEW c, req'[q] = [req[q] EXCEPT !.pc = "supersede", !.cells = c],
               req[q].pc = "resolve"
        PROVE  SlotMatches(req'[q], tests, approvals, studies)
    BY <1>0, <2>1 DEF SlotMatches, Slots, Creating, Asking, Held, Checked, Deciding, Stopping, Reading
  <2>2. ASSUME NEW g, req'[q] = [req[q] EXCEPT !.pc = "request", !.seen = g],
               req[q].pc = "supersede"
        PROVE  SlotMatches(req'[q], tests, approvals, studies)
    BY <1>0, <2>2 DEF SlotMatches, Slots, Creating, Asking, Held, Checked, Deciding, Stopping, Reading
  <2> QED BY <1>1, <1>2, <1>3, <1>12, <2>1, <2>2 DEF LaunchResolve, LaunchSupersede
<1>13. CASE DecideCount(q)
  <2>1. req[q].user \in Approvers
    BY <1>0, <1>13 DEF DecideCount, WellFormed, Deciding
  <2>2. SoleApprover(req[q].user) => Approvers = {req[q].user}
    BY <2>1 DEF SoleApprover
  <2> QED BY <1>3, <1>4, <1>13, <2>2 DEF DecideCount, Follows, Creating, Asking
<1>14. CASE LaunchDrift(q)
  BY <1>3, <1>4, <1>14 DEF LaunchDrift, Follows, Creating, Asking
<1>15. CASE LaunchCall(q)
  <2>1. ASSUME NEW s \in Studies, NEW leader, FreshStudy(s),
               studies' = [studies EXCEPT ![s] =
                 [approval |-> req[q].approval, cells |-> SentCells(q), leader |-> leader,
                  live |-> TRUE, by |-> req[q].user]],
               Become(q, [req[q] EXCEPT !.pc = "commit", !.study = s])
        PROVE  SlotMatches(req'[q], tests', approvals', studies')
    <3>1. req'[q] = [req[q] EXCEPT !.pc = "commit", !.study = s]
      BY <1>1, <2>1
    <3>2. /\ req'[q].pc = "commit" /\ req'[q].study = s
          /\ req'[q].test = req[q].test /\ req'[q].approval = req[q].approval
          /\ req'[q].cells = req[q].cells /\ req'[q].user = req[q].user
      BY <1>0, <3>1 DEF Slots
    <3>3. req[q].approval \in Approvals
      BY <1>0, <1>15 DEF LaunchCall, WellFormed, Deciding, Checked
    <3>4. studies'[s].approval # None /\ studies'[s].cells = req[q].cells
      BY <2>1, <3>3, NoneAssumption DEF SentCells, LaunchInvariant, Typed, TypeOK
    <3>5. UNCHANGED <<tests, approvals>>
      BY <1>15 DEF LaunchCall, rows
    <3>6. /\ tests[req[q].test].pair # None
          /\ approvals[req[q].approval].status # "ABSENT"
          /\ req[q].cells = approvals[req[q].approval].cells
          /\ approvals[req[q].approval].requester = req[q].user => Approvers = {req[q].user}
      BY <1>0, <1>15 DEF LaunchCall, SlotMatches, Deciding, Checked
    <3> QED BY <3>2, <3>4, <3>5, <3>6
        DEF SlotMatches, Creating, Asking, Held, Checked, Deciding, Stopping, Reading
  <2> QED BY <1>3, <1>15, <2>1 DEF LaunchCall
<1>16. CASE LaunchCommit(q)
  BY <1>3, <1>4, <1>16 DEF LaunchCommit, Follows, Creating, Asking
<1>17. CASE LaunchCompensate(q)
  <2>1. ASSUME NEW told, req'[q] = [req[q] EXCEPT !.pc = "cleanup", !.flag = told]
        PROVE  /\ SlotMatches(req'[q], tests, approvals, studies)
               /\ req'[q].pc \notin Creating \cup Asking
    BY <1>0, <1>17, <2>1
    DEF LaunchCompensate, SlotMatches, Slots, Creating, Asking, Held, Checked, Deciding, Stopping, Reading
  <2>2. ASSUME Goto(q, "cleanup")
        PROVE  SlotMatches(req'[q], tests', approvals', studies')
    BY <1>4, <1>17, <2>2 DEF LaunchCompensate, Follows, Creating, Asking
  <2> QED BY <1>1, <1>2, <1>17, <2>1, <2>2 DEF LaunchCompensate
<1>18. CASE CancelStop(q)
  BY <1>3, <1>4, <1>18 DEF CancelStop, Follows, Creating, Asking
<1>19. CASE CancelPause(q, "A", "pauseA", "pauseB") \/ CancelPause(q, "B", "pauseB", "cancel")
  BY <1>4, <1>19 DEF CancelPause, Follows, Creating, Asking
<1>20. CASE RefreshPull(q)
  <2>1. ASSUME NEW w, NEW over,
               req'[q] = [req[q] EXCEPT !.pc = "record", !.winner = w, !.flag = over],
               req[q].pc = "pull"
        PROVE  /\ SlotMatches(req'[q], tests, approvals, studies)
               /\ req'[q].pc \notin Creating \cup Asking
    BY <1>0, <2>1
    DEF SlotMatches, Slots, Creating, Asking, Held, Checked, Deciding, Stopping, Reading
  <2> QED BY <1>1, <1>2, <1>3, <1>20, <2>1 DEF RefreshPull
<1> QED
  BY <1>9, <1>10, <1>11, <1>12, <1>13, <1>14, <1>15, <1>16, <1>17, <1>18, <1>19, <1>20 DEF Serve

-----------------------------------------------------------------------------
(* Test rows, approval rows and studies.                                   *)

LEMMA TestsSound ==
  ASSUME LaunchInvariant, [Next]_vars, NEW t \in Tests
  PROVE  TestSound(tests'[t], studies')
<1>0. /\ tests \in [Tests -> TestRows] /\ tests[t] \in TestRows /\ TestSound(tests[t], studies)
      /\ \A r \in Requests : WellFormed(req[r]) /\ SlotMatches(req[r], tests, approvals, studies)
      /\ StudiesKept(studies, studies')
  BY Kept DEF LaunchInvariant, Typed, TypeOK, GoodSlots
<1>1. CASE SameTest(tests[t], tests'[t])
  <2>1. tests[t].study # None =>
          /\ studies'[tests[t].study].approval # None
          /\ studies'[tests[t].study].cells = tests[t].cells
    BY <1>0 DEF TestRows, TestSound, StudiesKept, SameStudy
  <2> QED BY <1>0, <1>1, <2>1 DEF SameTest, TestSound
<1>2. ASSUME NEW r \in Requests, CreateInsert(r), t = req[r].test
      PROVE  TestSound(tests'[t], studies')
  <2>1. tests'[t] = [NoTest EXCEPT !.status = "DRAFT", !.pair = req[r].pair]
    BY <1>0, <1>2 DEF CreateInsert
  <2>2. req[r].pair # None
    BY <1>0, <1>2, NoneAssumption DEF CreateInsert, At, WellFormed, Creating
  <2> QED BY <2>1, <2>2 DEF NoTest, TestSound
<1>3. ASSUME NEW r \in Requests, req[r].pc \in Held, t = req[r].test,
             tests'[t] = Launched(r), UNCHANGED studies
      PROVE  TestSound(tests'[t], studies')
  <2>1. req[r].cells # None /\ tests[t].pair # None
    BY <1>0, <1>3, NoneAssumption DEF WellFormed, SlotMatches, Held, Checked, Deciding
  <2>2. studies[req[r].study].approval # None /\ studies[req[r].study].cells = req[r].cells
    BY <1>0, <1>3 DEF SlotMatches
  <2>3. /\ tests'[t].study = req[r].study /\ tests'[t].cells = req[r].cells
        /\ tests'[t].pair = tests[t].pair
    BY <1>0, <1>3 DEF Launched, Snapshot, TestRows
  <2> QED BY <1>3, <2>1, <2>2, <2>3 DEF TestSound
<1> QED BY <1>1, <1>2, <1>3, TestStep

LEMMA ApprovalsSound ==
  ASSUME LaunchInvariant, [Next]_vars, NEW a \in Approvals
  PROVE  ApprovalSound(approvals'[a], tests')
<1>0. /\ approvals[a] \in ApprovalRows /\ ApprovalSound(approvals[a], tests)
      /\ \A r \in Requests : WellFormed(req[r]) /\ SlotMatches(req[r], tests, approvals, studies)
      /\ TestsKept(tests, tests')
  BY Kept DEF LaunchInvariant, Typed, TypeOK, GoodSlots
<1>1. CASE SameApproval(approvals[a], approvals'[a])
  BY <1>0, <1>1 DEF SameApproval, ApprovalSound, ApprovalRows, TestsKept
<1>2. ASSUME NEW r \in Requests, LaunchRequest(r),
             approvals'[a] = [status |-> "PENDING", test |-> req[r].test,
                              cells |-> req[r].cells, requester |-> req[r].user]
      PROVE  ApprovalSound(approvals'[a], tests')
  <2>1. req[r].test \in Tests /\ req[r].cells \in Cells /\ tests[req[r].test].pair # None
    BY <1>0, <1>2 DEF LaunchRequest, At, WellFormed, SlotMatches, Asking
  <2> QED BY <1>0, <1>2, <2>1, NoneAssumption DEF ApprovalSound, TestsKept
<1> QED BY <1>1, <1>2, ApprovalStep

LEMMA StudiesSound ==
  ASSUME LaunchInvariant, [Next]_vars, NEW s \in Studies
  PROVE  StudySound(studies'[s], approvals')
<1>0. /\ studies[s] \in StudyObjects /\ StudySound(studies[s], approvals)
      /\ \A r \in Requests : WellFormed(req[r]) /\ SlotMatches(req[r], tests, approvals, studies)
      /\ ApprovalsKept(approvals, approvals')
  BY Kept DEF LaunchInvariant, Typed, TypeOK, GoodSlots
<1>1. CASE SameStudy(studies[s], studies'[s])
  <2>1. CASE studies[s].approval = None
    BY <1>0, <1>1, <2>1 DEF SameStudy, StudySound, NoStudy
  <2>2. CASE studies[s].approval # None
    <3>1. studies[s].approval \in Approvals
      BY <1>0, <2>2 DEF StudyObjects
    <3>2. SameApproval(approvals[studies[s].approval], approvals'[studies[s].approval])
      BY <1>0, <2>2, <3>1 DEF StudySound, ApprovalsKept
    <3> QED BY <1>0, <1>1, <2>2, <3>2 DEF SameStudy, SameApproval, StudySound
  <2> QED BY <2>1, <2>2
<1>2. ASSUME NEW r \in Requests, LaunchCall(r),
             studies'[s].approval = req[r].approval, studies'[s].cells = req[r].cells,
             studies'[s].by = req[r].user
      PROVE  StudySound(studies'[s], approvals')
  <2>1. req[r].approval \in Approvals /\ req[r].approval # None
    BY <1>0, <1>2, NoneAssumption DEF LaunchCall, At, WellFormed, Deciding, Checked
  <2>2. /\ approvals[req[r].approval].status # "ABSENT"
        /\ req[r].cells = approvals[req[r].approval].cells
        /\ approvals[req[r].approval].requester = req[r].user => Approvers = {req[r].user}
    BY <1>0, <1>2 DEF LaunchCall, At, SlotMatches, Deciding, Checked
  <2>3. UNCHANGED approvals
    BY <1>2 DEF LaunchCall, rows
  <2> QED BY <1>2, <2>1, <2>2, <2>3 DEF StudySound
<1> QED BY <1>1, <1>2, StudyStep

-----------------------------------------------------------------------------
(* Reserved ids.                                                           *)

\* The test and the approval a handler is about after one of its steps.
LEMMA SlotIds ==
  ASSUME LaunchInvariant, NEW q \in Requests, UserRequest(q) \/ Serve(q) \/ Crash(q)
  PROVE  /\ \/ req'[q].test = None
            \/ req'[q].test = req[q].test /\ (req'[q].pc \in Creating => req[q].pc \in Creating)
            \/ FreshTest(req'[q].test)
            \/ tests[req'[q].test].pair # None /\ req'[q].pc \notin Creating
         /\ \/ req'[q].approval = None
            \/ /\ req'[q].approval = req[q].approval
               /\ req'[q].pc \in Asking => req[q].pc \in Asking
            \/ FreshApproval(req'[q].approval)
            \/ approvals[req'[q].approval].status # "ABSENT" /\ req'[q].pc \notin Asking
<1> USE DEF At
<1>0. req \in [Requests -> GoodSlots] /\ req[q] \in Slots
  BY DEF LaunchInvariant, Typed, GoodSlots
<1>1. ASSUME NEW s, Become(q, s)
      PROVE  req'[q] = s
  BY <1>0, <1>1 DEF Become
<1>2. CASE UserRequest(q)
  <2>1. ASSUME NEW t \in Tests, NEW p \in Pairs, Create(q, t, p)
        PROVE  req'[q].approval = None /\ FreshTest(req'[q].test)
    BY <1>1, <2>1 DEF Create, Start, Idle
  <2>2. ASSUME NEW u \in Writers, NEW t \in Tests, NEW a \in Approvals, RequestLaunch(q, u, t, a)
        PROVE  /\ tests[req'[q].test].pair # None /\ req'[q].pc \notin Creating
               /\ FreshApproval(req'[q].approval)
    <3>1. tests[t].pair # None
      BY <2>2 DEF RequestLaunch, Launchable, LaunchInvariant, TestSound
    <3>2. req'[q].test = t /\ req'[q].approval = a /\ req'[q].pc = "resolve"
      BY <1>1, <2>2 DEF RequestLaunch, Start, Idle
    <3> QED BY <2>2, <3>1, <3>2 DEF RequestLaunch, Creating
  <2>3. ASSUME NEW u \in Approvers, NEW a \in Approvals, NEW v \in Verdicts, Decide(q, u, a, v)
        PROVE  /\ tests[req'[q].test].pair # None
               /\ approvals[req'[q].approval].status # "ABSENT"
               /\ req'[q].pc \notin Creating \cup Asking
    <3>1. /\ req'[q].test = approvals[a].test /\ req'[q].approval = a
          /\ req'[q].pc \in {"count", "reject", "drift"}
      BY <1>1, <2>3 DEF Decide, Start, Idle
    <3>2. approvals[a].status # "ABSENT" /\ tests[approvals[a].test].pair # None
      BY <2>3 DEF Decide, LaunchInvariant, ApprovalSound
    <3> QED BY <3>1, <3>2 DEF Creating, Asking
  <2>4. ASSUME NEW t \in Tests, Cancel(q, t) \/ Refresh(q, t)
        PROVE  /\ tests[req'[q].test].pair # None /\ req'[q].pc \notin Creating
               /\ req'[q].approval = None
    <3>1. /\ req'[q].test = t /\ req'[q].approval = None
          /\ req'[q].pc \in {"stop", "cancel", "pull"}
      BY <1>1, <2>4 DEF Cancel, Refresh, Start, Idle
    <3>2. tests[t].pair # None
      <4>1. TestSound(tests[t], studies)
        BY DEF LaunchInvariant
      <4> QED BY <2>4, <4>1 DEF Cancel, Refresh, TestSound, Active
    <3> QED BY <3>1, <3>2 DEF Creating
  <2> QED BY <1>2, <2>1, <2>2, <2>3, <2>4 DEF UserRequest
<1>3. ASSUME Return(q)
      PROVE  req'[q].test = None /\ req'[q].approval = None
  BY <1>1, <1>3 DEF Return, Idle
<1>4. ASSUME NEW pc, Goto(q, pc),
             \/ pc \notin Creating \cup Asking
             \/ pc = "insert" /\ req[q].pc = "duplicate"
      PROVE  /\ req'[q].test = req[q].test /\ (req'[q].pc \in Creating => req[q].pc \in Creating)
             /\ req'[q].approval = req[q].approval /\ (req'[q].pc \in Asking => req[q].pc \in Asking)
  BY <1>0, <1>1, <1>4 DEF Goto, Slots, Creating, Asking
<1>5. ASSUME \/ Goto(q, "drift") \/ Goto(q, "launch") \/ Goto(q, "compensate") \/ Goto(q, "cleanup")
             \/ Goto(q, "pauseA") \/ Goto(q, "pauseB") \/ Goto(q, "cancel")
      PROVE  /\ req'[q].test = req[q].test /\ req'[q].pc \notin Creating
             /\ req'[q].approval = req[q].approval /\ req'[q].pc \notin Asking
  BY <1>0, <1>1, <1>5 DEF Goto, Slots, Creating, Asking
<1>6. CASE Serve(q)
  <2>1. CASE \/ CreateDuplicate(q) \/ CreateInsert(q) \/ LaunchRequest(q)
             \/ DecideCount(q) \/ DecideReject(q) \/ LaunchDrift(q) \/ LaunchCommit(q)
             \/ LaunchCleanup(q) \/ CancelStop(q) \/ CancelPause(q, "A", "pauseA", "pauseB")
             \/ CancelPause(q, "B", "pauseB", "cancel") \/ CancelWrite(q) \/ RefreshRecord(q)
    <3>1. CASE CreateDuplicate(q)
      BY <1>3, <1>4, <3>1 DEF CreateDuplicate
    <3>2. CASE CreateInsert(q) \/ LaunchRequest(q) \/ DecideReject(q) \/ LaunchCleanup(q)
               \/ CancelWrite(q) \/ RefreshRecord(q)
      BY <1>3, <3>2 DEF CreateInsert, LaunchRequest, DecideReject, LaunchCleanup,
         CancelWrite, RefreshRecord
    <3>3. CASE DecideCount(q) \/ LaunchDrift(q) \/ LaunchCommit(q) \/ CancelStop(q)
      <4>1. \/ Return(q)
            \/ Goto(q, "drift") \/ Goto(q, "launch") \/ Goto(q, "compensate") \/ Goto(q, "pauseA")
        BY <3>3 DEF DecideCount, LaunchDrift, LaunchCommit, CancelStop
      <4> QED BY <1>3, <1>5, <4>1
    <3>4. CASE CancelPause(q, "A", "pauseA", "pauseB") \/ CancelPause(q, "B", "pauseB", "cancel")
      <4>1. Goto(q, "pauseB") \/ Goto(q, "cancel")
        BY <3>4 DEF CancelPause
      <4> QED BY <1>5, <4>1
    <3> QED BY <2>1, <3>1, <3>2, <3>3, <3>4
  <2>2. CASE LaunchResolve(q) \/ LaunchSupersede(q)
    <3>1. \/ Return(q)
          \/ /\ req[q].pc \in Asking /\ req'[q].pc \notin Creating
             /\ req'[q].test = req[q].test /\ req'[q].approval = req[q].approval
      BY <1>0, <1>1, <2>2 DEF LaunchResolve, LaunchSupersede, Slots, Creating, Asking
    <3> QED BY <1>3, <3>1
  <2>3. CASE LaunchCall(q) \/ LaunchCompensate(q) \/ RefreshPull(q)
    <3>1. ASSUME NEW s, s.pc \notin Creating \cup Asking, Become(q, s),
                 s.test = req[q].test, s.approval = req[q].approval
          PROVE  /\ req'[q].pc \notin Creating \cup Asking
                 /\ req'[q].test = req[q].test /\ req'[q].approval = req[q].approval
      BY <1>1, <3>1
    <3>2. CASE LaunchCall(q)
      <4>1. Return(q) \/ \E s : Become(q, [req[q] EXCEPT !.pc = "commit", !.study = s])
        BY <3>2 DEF LaunchCall
      <4> QED BY <1>0, <1>3, <3>1, <4>1 DEF Slots, Creating, Asking
    <3>3. CASE LaunchCompensate(q)
      <4>1. \/ Goto(q, "cleanup")
            \/ \E told : Become(q, [req[q] EXCEPT !.pc = "cleanup", !.flag = told])
        BY <3>3 DEF LaunchCompensate
      <4>2. CASE Goto(q, "cleanup")
        BY <1>5, <4>2
      <4>3. CASE \E told : Become(q, [req[q] EXCEPT !.pc = "cleanup", !.flag = told])
        BY <1>0, <3>1, <4>3 DEF Slots, Creating, Asking
      <4> QED BY <4>1, <4>2, <4>3
    <3>4. CASE RefreshPull(q)
      <4>1. \/ Return(q)
            \/ \E w, over : Become(q, [req[q] EXCEPT !.pc = "record", !.winner = w, !.flag = over])
        BY <3>4 DEF RefreshPull
      <4> QED BY <1>0, <1>3, <3>1, <4>1 DEF Slots, Creating, Asking
    <3> QED BY <2>3, <3>2, <3>3, <3>4
  <2> QED BY <1>6, <2>1, <2>2, <2>3 DEF Serve
<1>7. CASE Crash(q)
  BY <1>3, <1>7 DEF Crash
<1> QED BY <1>2, <1>6, <1>7

LEMMA IdsStayReserved ==
  ASSUME LaunchInvariant, [Next]_vars
  PROVE  TestIdsReserved' /\ ApprovalIdsReserved'
<1>0. /\ req \in [Requests -> GoodSlots] /\ req' \in [Requests -> GoodSlots]
      /\ \A r \in Requests : WellFormed(req'[r])
      /\ \A r \in Requests : SlotMatches(req[r], tests, approvals, studies)
  BY TypedNext DEF LaunchInvariant, Typed, GoodSlots
<1>1. ASSUME NEW r \in Requests, NEW q \in Requests, q # r, req'[r].pc \in Creating
      PROVE  req'[q].test # req'[r].test
  <2>1. req'[r].test # None
    BY <1>0, <1>1, NoneAssumption DEF WellFormed
  <2>2. req[r].pc \in Creating => /\ req[q].test # req[r].test
                                 /\ tests[req[r].test].pair = None
    BY <1>0, <1>1 DEF LaunchInvariant, TestIdsReserved, SlotMatches
  <2>3. CASE req'[r] = req[r] /\ req'[q] = req[q]
    BY <1>1, <2>2, <2>3
  <2>4. CASE req'[r] = req[r] /\ req'[q] # req[q]
    <3>1. UserRequest(q) \/ Serve(q) \/ Crash(q)
      BY <1>0, <2>4, SlotOwner
    <3>2. \/ req'[q].test = None \/ req'[q].test = req[q].test \/ FreshTest(req'[q].test)
          \/ tests[req'[q].test].pair # None
      BY <3>1, SlotIds
    <3> QED BY <1>1, <2>1, <2>2, <2>4, <3>2 DEF FreshTest
  <2>5. CASE req'[r] # req[r]
    <3>1. UserRequest(r) \/ Serve(r) \/ Crash(r)
      BY <1>0, <2>5, SlotOwner
    <3>2. req'[q] = req[q]
      BY <1>0, <1>1, <3>1, OneMoves
    <3>3. \/ req'[r].test = req[r].test /\ req[r].pc \in Creating
          \/ FreshTest(req'[r].test)
      BY <1>1, <2>1, <3>1, SlotIds
    <3> QED BY <2>2, <3>2, <3>3 DEF FreshTest
  <2> QED BY <2>3, <2>4, <2>5
<1>2. ASSUME NEW r \in Requests, NEW q \in Requests, q # r, req'[r].pc \in Asking
      PROVE  req'[q].approval # req'[r].approval
  <2>1. req'[r].approval # None
    BY <1>0, <1>2, NoneAssumption DEF WellFormed
  <2>2. req[r].pc \in Asking => /\ req[q].approval # req[r].approval
                               /\ approvals[req[r].approval].status = "ABSENT"
    BY <1>0, <1>2 DEF LaunchInvariant, ApprovalIdsReserved, SlotMatches
  <2>3. CASE req'[r] = req[r] /\ req'[q] = req[q]
    BY <1>2, <2>2, <2>3
  <2>4. CASE req'[r] = req[r] /\ req'[q] # req[q]
    <3>1. UserRequest(q) \/ Serve(q) \/ Crash(q)
      BY <1>0, <2>4, SlotOwner
    <3>2. \/ req'[q].approval = None \/ req'[q].approval = req[q].approval
          \/ FreshApproval(req'[q].approval)
          \/ approvals[req'[q].approval].status # "ABSENT"
      BY <3>1, SlotIds
    <3> QED BY <1>2, <2>1, <2>2, <2>4, <3>2 DEF FreshApproval
  <2>5. CASE req'[r] # req[r]
    <3>1. UserRequest(r) \/ Serve(r) \/ Crash(r)
      BY <1>0, <2>5, SlotOwner
    <3>2. req'[q] = req[q]
      BY <1>0, <1>2, <3>1, OneMoves
    <3>3. \/ req'[r].approval = req[r].approval /\ req[r].pc \in Asking
          \/ FreshApproval(req'[r].approval)
      BY <1>2, <2>1, <3>1, SlotIds
    <3> QED BY <2>2, <3>2, <3>3 DEF FreshApproval
  <2> QED BY <2>3, <2>4, <2>5
<1> QED BY <1>1, <1>2 DEF TestIdsReserved, ApprovalIdsReserved

-----------------------------------------------------------------------------
(* The inductive invariant and what it gives.                              *)

LEMMA LaunchInit == Init => LaunchInvariant
<1> SUFFICES ASSUME Init PROVE LaunchInvariant
  OBVIOUS
<1>1. Idle \in GoodSlots
  BY Values DEF Idle, GoodSlots, WellFormed, Creating, Asking, Held, Checked, Deciding, Stopping, Reading
<1>2. Typed
  <2>1. published \in [Ads -> 0 .. Versions]
    BY VersionAssumption DEF Init
  <2> QED BY <1>1, <2>1, Values DEF Init, Typed, TypeOK
<1>3. \A r \in Requests : req[r] = Idle
  BY DEF Init
<1>4. \A t \in Tests : TestSound(tests[t], studies)
  BY DEF Init, NoTest, TestSound
<1>5. \A a \in Approvals : ApprovalSound(approvals[a], tests)
  BY DEF Init, NoApproval, ApprovalSound
<1>6. \A s \in Studies : StudySound(studies[s], approvals)
  <2>1. NoStudy.approval = None
    BY DEF NoStudy
  <2> QED BY <2>1 DEF Init, StudySound
<1>7. TestIdsReserved /\ ApprovalIdsReserved
  BY <1>3 DEF TestIdsReserved, ApprovalIdsReserved, Idle, Creating, Asking
<1> QED BY <1>2, <1>3, <1>4, <1>5, <1>6, <1>7, IdleMatches DEF LaunchInvariant

LEMMA LaunchNext == LaunchInvariant /\ [Next]_vars => LaunchInvariant'
<1> SUFFICES ASSUME LaunchInvariant, [Next]_vars PROVE LaunchInvariant'
  OBVIOUS
<1>1. Typed'
  BY TypedNext
<1>2. ASSUME NEW q \in Requests
      PROVE  SlotMatches(req'[q], tests', approvals', studies')
  <2>1. req \in [Requests -> GoodSlots]
    BY DEF LaunchInvariant, Typed
  <2> QED BY <2>1, SlotOwner, SlotsKeep, SlotsMove
<1> QED BY <1>1, <1>2, TestsSound, ApprovalsSound, StudiesSound, IdsStayReserved
    DEF LaunchInvariant

LEMMA LaunchAlways == Spec => []LaunchInvariant
BY LaunchInit, LaunchNext, PTL DEF Spec

\* Every row, study and request slot keeps its type under any interleaving: a
\* launch always carries two Meta ids (requestLaunch refuses unpublished ads).
THEOREM SplitTestTypes == Spec => []TypeOK
<1>1. LaunchInvariant => TypeOK
  BY DEF LaunchInvariant, Typed
<1> QED BY <1>1, LaunchAlways, PTL

\* Whatever publishes, launches, cancels and crashes cross, a study compares the
\* ads its approval showed (decideAbTestLaunch sends the approved spec).
THEOREM LaunchedAsApprovedAlways == Spec => []LaunchedAsApproved
<1>1. LaunchInvariant => LaunchedAsApproved
  BY DEF LaunchInvariant, StudySound, LaunchedAsApproved, Exists
<1> QED BY <1>1, LaunchAlways, PTL

\* Only the sole approver of an organisation launches the test they asked for,
\* however many users decide at the same time (approvals.service.ts decide).
THEOREM LaunchNeedsCheckerAlways == Spec => []LaunchNeedsChecker
<1>1. LaunchInvariant => LaunchNeedsChecker
  <2>1. NoStudy.approval = None
    BY DEF NoStudy
  <2> QED BY <2>1 DEF LaunchInvariant, StudySound, LaunchNeedsChecker, Exists
<1> QED BY <1>1, LaunchAlways, PTL

\* A test that has a study remembers exactly the ads that study compares, so
\* refreshResults can attribute Meta's cells, even when two launches of one
\* test cross and the later one overwrites the study of the earlier.
THEOREM AttributableAlways == Spec => []AttributableToLaunch
<1>1. LaunchInvariant => AttributableToLaunch
  BY DEF LaunchInvariant, TestSound, AttributableToLaunch
<1> QED BY <1>1, LaunchAlways, PTL

-----------------------------------------------------------------------------
(* One request at a time: what the handlers write.                         *)

LEMMA SameCells ==
  ASSUME NEW p \in Pairs, NEW q \in Pairs, {p[x] : x \in Sides} = {q[x] : x \in Sides}
  PROVE  SamePair(p, q)
BY DEF Sides, SamePair, Pairs

\* One test row is written.
LEMMA RowWrite ==
  ASSUME SerialInvariant, NEW t \in Tests, NEW new,
         tests' = [tests EXCEPT ![t] = new], UNCHANGED studies,
         LaunchedOnce(new),
         new.status = "CANCELLED" /\ new.study # None => ~studies[new.study].live,
         new.winner # None => new.cells[new.winner] = studies[new.study].leader,
         new.status \in Active =>
           \/ tests[t].status \in Active /\ new.pair = tests[t].pair
           \/ \A u \in Tests : tests[u].status \in Active =>
                {tests[u].pair[x] : x \in Sides} # {new.pair[x] : x \in Sides}
  PROVE  /\ \A u \in Tests : LaunchedOnce(tests'[u])
         /\ CancelledIsStopped' /\ WinnerLeads' /\ OneTestPerPair'
<1>1. \A u \in Tests : tests'[u] = IF u = t THEN new ELSE tests[u]
  BY DEF SerialInvariant, LaunchInvariant, Typed, TypeOK
<1>2. \A u \in Tests : LaunchedOnce(tests'[u])
  BY <1>1 DEF SerialInvariant, RowsInOrder
<1>3. CancelledIsStopped' /\ WinnerLeads'
  BY <1>1 DEF SerialInvariant, RowsInOrder, CancelledIsStopped, WinnerLeads
<1>4. OneTestPerPair'
  <2> DEFINE Of(p) == {p[x] : x \in Sides}
  <2>1. \A u, v \in Tests : u # v /\ tests[u].status \in Active /\ tests[v].status \in Active
          => Of(tests[u].pair) # Of(tests[v].pair)
    BY DEF SerialInvariant, RowsInOrder, TestsInOrder, OneTestPerPair
  <2>2. new.status \in Active =>
           \/ tests[t].status \in Active /\ new.pair = tests[t].pair
           \/ \A u \in Tests : tests[u].status \in Active => Of(tests[u].pair) # Of(new.pair)
    OBVIOUS
  <2> HIDE DEF Of
  <2>3. ASSUME NEW u \in Tests, NEW v \in Tests, u # v,
               tests'[u].status \in Active, tests'[v].status \in Active
        PROVE  Of(tests'[u].pair) # Of(tests'[v].pair)
    BY <1>1, <2>1, <2>2, <2>3
  <2> QED BY <2>3 DEF OneTestPerPair, Of
<1> QED BY <1>2, <1>3, <1>4

\* Every request about a test is closed, and the test does not wait any more.
LEMMA Closed ==
  ASSUME SerialInvariant, NEW t \in Tests, NEW new,
         tests' = [tests EXCEPT ![t] = new], new.status # "PENDING_APPROVAL",
         \A a \in Approvals :
           /\ approvals'[a].test = approvals[a].test
           /\ approvals[a].test # t => approvals'[a].status = approvals[a].status
           /\ approvals[a].test = t => approvals'[a].status # "PENDING"
  PROVE  OneOpenRequest' /\ WaitsIffRequested'
<1>1. \A u \in Tests : tests'[u] = IF u = t THEN new ELSE tests[u]
  BY DEF SerialInvariant, LaunchInvariant, Typed, TypeOK
<1>2. OneOpenRequest'
  BY DEF SerialInvariant, RowsInOrder, OneOpenRequest
<1>3. ASSUME NEW u \in Tests
      PROVE  tests'[u].status = "PENDING_APPROVAL" <=> PendingFor(u)' # {}
  <2>1. CASE u = t
    BY <1>1, <2>1 DEF PendingFor
  <2>2. CASE u # t
    <3>1. PendingFor(u)' = PendingFor(u)
      BY <2>2 DEF PendingFor
    <3> QED BY <1>1, <2>2, <3>1 DEF SerialInvariant, RowsInOrder, TestsInOrder, WaitsIffRequested
  <2> QED BY <2>1, <2>2
<1> QED BY <1>2, <1>3 DEF WaitsIffRequested

\* No study starts, and the test or the handler that has one keeps it.
LEMMA Tracks ==
  ASSUME OneRequest, SerialInvariant, NEW r \in Requests,
         \A s \in Studies : studies'[s].live => studies[s].live,
         \A t \in Tests :
           /\ tests[t].status = "RUNNING" /\ tests[t].study # None
           /\ studies'[tests[t].study].live
           => tests'[t].status = "RUNNING" /\ tests'[t].study = tests[t].study,
         Launching(r) /\ studies'[req[r].study].live =>
           \/ req[r].study \in abandoned'
           \/ req'[r].study = req[r].study /\ Launching(r)'
           \/ \E t \in Tests : tests'[t].status = "RUNNING" /\ tests'[t].study = req[r].study,
         abandoned \subseteq abandoned'
  PROVE  LiveStudyTracked'
<1> SUFFICES ASSUME NEW s \in Studies, studies'[s].live
             PROVE  \/ \E t \in Tests : tests'[t].status = "RUNNING" /\ tests'[t].study = s
                    \/ \E q \in Requests : req'[q].study = s /\ Launching(q)'
                    \/ s \in abandoned'
  BY DEF LiveStudyTracked
<1>1. \/ \E t \in Tests : tests[t].status = "RUNNING" /\ tests[t].study = s
      \/ req[r].study = s /\ Launching(r)
      \/ s \in abandoned
  BY DEF SerialInvariant, RowsInOrder, LiveStudyTracked, OneRequest
<1> QED BY <1>1, NoneAssumption

\* What the handler of a slot may rely on.
LEMMA Serving ==
  ASSUME SerialInvariant, NEW r \in Requests
  PROVE  /\ req \in [Requests -> Slots] /\ req[r] \in Slots
         /\ WellFormed(req[r])
         /\ SlotMatches(req[r], tests, approvals, studies)
         /\ SlotHolds(req[r], tests, approvals, studies)
         /\ tests \in [Tests -> TestRows] /\ approvals \in [Approvals -> ApprovalRows]
         /\ studies \in [Studies -> StudyObjects]
BY DEF SerialInvariant, LaunchInvariant, Typed, TypeOK, GoodSlots

\* Steps that write no row: what rows say of the studies stays true.
LEMMA StudyWrite ==
  ASSUME SerialInvariant, UNCHANGED rows, LiveStudyTracked',
         \A t \in Tests : tests[t].study # None =>
           /\ studies'[tests[t].study].live => studies[tests[t].study].live
           /\ studies'[tests[t].study].leader = studies[tests[t].study].leader
  PROVE  RowsInOrder'
<1>1. tests' = tests /\ approvals' = approvals /\ RowsInOrder
  BY DEF rows, SerialInvariant
<1>2. \A t \in Tests : LaunchedOnce(tests'[t])
  BY <1>1 DEF RowsInOrder
<1>3. CancelledIsStopped' /\ WinnerLeads'
  BY <1>1 DEF RowsInOrder, CancelledIsStopped, WinnerLeads, LaunchedOnce
<1>4. OneTestPerPair'
  <2> DEFINE Of(p) == {p[x] : x \in Sides}
  <2>1. \A t, u \in Tests : t # u /\ tests[t].status \in Active /\ tests[u].status \in Active
          => Of(tests[t].pair) # Of(tests[u].pair)
    BY <1>1 DEF RowsInOrder, TestsInOrder, OneTestPerPair
  <2> HIDE DEF Of
  <2>2. \A t, u \in Tests : t # u /\ tests'[t].status \in Active /\ tests'[u].status \in Active
          => Of(tests'[t].pair) # Of(tests'[u].pair)
    BY <1>1, <2>1
  <2> QED BY <2>2 DEF OneTestPerPair, Of
<1>5. OneOpenRequest' /\ WaitsIffRequested'
  BY <1>1 DEF RowsInOrder, OneOpenRequest, TestsInOrder, WaitsIffRequested, PendingFor
<1> QED BY <1>2, <1>3, <1>4, <1>5 DEF RowsInOrder, TestsInOrder

\* Steps that write no row, start no study and lose none.
LEMMA RowsUntouched ==
  ASSUME OneRequest, SerialInvariant, NEW r \in Requests,
         UNCHANGED rows, abandoned \subseteq abandoned',
         \A s \in Studies :
           /\ studies'[s].live => studies[s].live
           /\ studies'[s].leader = studies[s].leader,
         Launching(r) =>
           \/ req[r].study \in abandoned'
           \/ req'[r].study = req[r].study /\ Launching(r)'
  PROVE  RowsInOrder'
<1>1. LiveStudyTracked'
  BY Tracks DEF rows
<1>2. \A t \in Tests : tests[t].study # None => tests[t].study \in Studies
  BY DEF SerialInvariant, LaunchInvariant, Typed, TypeOK, TestRows
<1> QED BY <1>1, <1>2, StudyWrite

LEMMA CreateInsertRows ==
  ASSUME OneRequest, SerialInvariant, NEW r \in Requests, CreateInsert(r)
  PROVE  RowsInOrder'
<1> DEFINE t == req[r].test
           new == [NoTest EXCEPT !.status = "DRAFT", !.pair = req[r].pair]
<1>1. /\ t \in Tests /\ req[r].pair \in Pairs /\ tests[t].pair = None
      /\ \A u \in Tests : tests[u].status \in Active => ~SamePair(tests[u].pair, req[r].pair)
      /\ tests[t] \in TestRows /\ tests \in [Tests -> TestRows]
      /\ approvals \in [Approvals -> ApprovalRows]
  BY Serving DEF CreateInsert, At, WellFormed, SlotMatches, SlotHolds, Creating
<1>2. /\ new.status = "DRAFT" /\ new.study = None /\ new.winner = None /\ new.pair = req[r].pair
  BY DEF NoTest
<1>3. /\ tests' = [tests EXCEPT ![t] = new]
      /\ UNCHANGED <<approvals, studies, abandoned>> /\ ~Launching(r)
  BY DEF CreateInsert, At, Launching
<1>4. tests[t].status = "ABSENT"
  BY <1>1 DEF SerialInvariant, LaunchInvariant, TestSound
<1> HIDE DEF new, t
<1>5. ASSUME NEW u \in Tests, tests[u].status \in Active
      PROVE  {tests[u].pair[x] : x \in Sides} # {new.pair[x] : x \in Sides}
  <2>1. tests[u].pair \in Pairs
    BY <1>1, <1>5, NoneAssumption DEF TestRows, SerialInvariant, LaunchInvariant, TestSound, Active
  <2> QED BY <1>1, <1>2, <1>5, <2>1, SameCells
<1>6. /\ \A u \in Tests : LaunchedOnce(tests'[u])
      /\ CancelledIsStopped' /\ WinnerLeads' /\ OneTestPerPair'
  BY <1>1, <1>2, <1>3, <1>5, RowWrite DEF LaunchedOnce
<1>7. OneOpenRequest' /\ WaitsIffRequested'
  <2>1. \A a \in Approvals : approvals[a].test = t => approvals[a].status # "PENDING"
    BY <1>1, <1>4 DEF SerialInvariant, RowsInOrder, TestsInOrder, WaitsIffRequested, PendingFor
  <2> QED BY <1>1, <1>2, <1>3, <2>1, Closed
<1>8. LiveStudyTracked'
  BY <1>1, <1>3, <1>4, Tracks
<1> QED BY <1>6, <1>7, <1>8 DEF RowsInOrder, TestsInOrder

\* The test of a slot whose approval is pending waits, and was never launched.
LEMMA DecidingTest ==
  ASSUME SerialInvariant, NEW r \in Requests, req[r].pc \in Deciding
  PROVE  /\ req[r].test \in Tests /\ req[r].approval \in Approvals
         /\ approvals[req[r].approval].status = "PENDING"
         /\ approvals[req[r].approval].test = req[r].test
         /\ tests[req[r].test].status = "PENDING_APPROVAL"
         /\ tests[req[r].test].study = None /\ tests[req[r].test].winner = None
         /\ \A a \in Approvals : approvals[a].test = req[r].test /\ a # req[r].approval
                                   => approvals[a].status # "PENDING"
<1>1. /\ req[r].test \in Tests /\ req[r].approval \in Approvals
      /\ approvals[req[r].approval].status = "PENDING"
      /\ approvals[req[r].approval].test = req[r].test
  BY Serving DEF WellFormed, SlotHolds
<1>2. tests[req[r].test].status = "PENDING_APPROVAL"
  BY <1>1 DEF SerialInvariant, RowsInOrder, TestsInOrder, WaitsIffRequested, PendingFor
<1>3. tests[req[r].test].study = None /\ tests[req[r].test].winner = None
  BY <1>1, <1>2 DEF SerialInvariant, RowsInOrder, LaunchedOnce, Terminal
<1> QED BY <1>1, <1>2, <1>3 DEF SerialInvariant, RowsInOrder, OneOpenRequest

\* Settling an approval: it is not pending any more, and its test is launched
\* or goes back to draft.
LEMMA SettledRows ==
  ASSUME OneRequest, SerialInvariant, NEW r \in Requests, req[r].pc \in Deciding,
         NEW status \in ApprovalStatus \ {"PENDING"}, NEW new \in TestRows,
         approvals' = [approvals EXCEPT ![req[r].approval].status = status],
         tests' = [tests EXCEPT ![req[r].test] = new],
         UNCHANGED <<studies, abandoned>>,
         new.pair = tests[req[r].test].pair, new.winner = None,
         \/ new.status = "DRAFT" /\ new.study = None
         \/ new.status = "RUNNING" /\ new.study = req[r].study,
         Launching(r) /\ studies[req[r].study].live =>
           new.status = "RUNNING" /\ new.study = req[r].study
  PROVE  RowsInOrder'
<1>1. /\ req[r].test \in Tests /\ req[r].approval \in Approvals
      /\ tests[req[r].test].status = "PENDING_APPROVAL"
      /\ \A a \in Approvals : approvals[a].test = req[r].test /\ a # req[r].approval
                                => approvals[a].status # "PENDING"
      /\ approvals[req[r].approval].test = req[r].test
  BY DecidingTest
<1>2. tests \in [Tests -> TestRows] /\ approvals \in [Approvals -> ApprovalRows]
  BY Serving
<1>3. /\ \A u \in Tests : LaunchedOnce(tests'[u])
      /\ CancelledIsStopped' /\ WinnerLeads' /\ OneTestPerPair'
  BY <1>1, RowWrite DEF LaunchedOnce, Active
<1>4. \A a \in Approvals :
        /\ approvals'[a].test = approvals[a].test
        /\ a # req[r].approval => approvals'[a].status = approvals[a].status
        /\ a = req[r].approval => approvals'[a].status = status
  BY <1>1, <1>2 DEF ApprovalRows
<1>5. OneOpenRequest' /\ WaitsIffRequested'
  <2>1. \A a \in Approvals :
          /\ approvals'[a].test = approvals[a].test
          /\ approvals[a].test # req[r].test => approvals'[a].status = approvals[a].status
          /\ approvals[a].test = req[r].test => approvals'[a].status # "PENDING"
    BY <1>1, <1>4
  <2>2. new.status # "PENDING_APPROVAL"
    OBVIOUS
  <2> QED BY <1>1, <2>1, <2>2, Closed
<1>6. LiveStudyTracked'
  BY <1>1, <1>2, Tracks
<1> QED BY <1>3, <1>5, <1>6 DEF RowsInOrder, TestsInOrder

LEMMA DecideRejectRows ==
  ASSUME OneRequest, SerialInvariant, NEW r \in Requests, DecideReject(r)
  PROVE  RowsInOrder'
<1>1. req[r].pc = "reject" /\ req[r].pc \in Deciding /\ ~Launching(r)
  BY DEF DecideReject, At, Deciding, Launching
<1>2. /\ req[r].test \in Tests /\ tests[req[r].test] \in TestRows
      /\ tests[req[r].test].status = "PENDING_APPROVAL"
      /\ tests[req[r].test].study = None /\ tests[req[r].test].winner = None
  BY <1>1, DecidingTest, Serving
<1> DEFINE new == [tests[req[r].test] EXCEPT !.status = "DRAFT"]
<1>3. /\ new \in TestRows /\ new.pair = tests[req[r].test].pair /\ new.winner = None
      /\ new.status = "DRAFT" /\ new.study = None
  BY <1>2, TestFields, StatusValues DEF TestRows
<1>4. tests' = [tests EXCEPT ![req[r].test] = new]
  BY <1>2 DEF DecideReject, BackToDraft
<1>5. /\ approvals' = [approvals EXCEPT ![req[r].approval].status = "REJECTED"]
      /\ "REJECTED" \in ApprovalStatus \ {"PENDING"} /\ UNCHANGED <<studies, abandoned>>
  BY StatusValues DEF DecideReject
<1> HIDE DEF new
<1> QED BY <1>1, <1>3, <1>4, <1>5, SettledRows

\* The row a launch writes, by its handler or by the cleanup after it.
LEMMA LaunchedRow ==
  ASSUME SerialInvariant, NEW r \in Requests, req[r].pc \in Held
  PROVE  /\ Launched(r) \in TestRows
         /\ Launched(r).pair = tests[req[r].test].pair /\ Launched(r).winner = None
         /\ Launched(r).status = "RUNNING" /\ Launched(r).study = req[r].study
<1>1. /\ req[r].test \in Tests /\ tests[req[r].test] \in TestRows
      /\ tests[req[r].test].winner = None
  BY DecidingTest, Serving DEF Held, Deciding, Checked
<1>2. Launched(r) \in TestRows
  BY LaunchedType DEF SerialInvariant, LaunchInvariant
<1> QED BY <1>1, <1>2 DEF Launched, TestRows

LEMMA LaunchCommitRows ==
  ASSUME OneRequest, SerialInvariant, NEW r \in Requests, LaunchCommit(r)
  PROVE  RowsInOrder'
<1>1. req[r].pc = "commit" /\ req[r].pc \in Deciding /\ req[r].pc \in Held
  BY DEF LaunchCommit, At, Deciding, Checked, Held
<1>2. CASE Goto(r, "compensate") /\ UNCHANGED rows
  <2>1. req'[r].pc = "compensate" /\ req'[r].study = req[r].study
    BY <1>2, Serving DEF Goto, Become, Slots
  <2> QED BY <1>2, <2>1, RowsUntouched DEF LaunchCommit, Launching
<1>3. CASE /\ approvals' = [approvals EXCEPT ![req[r].approval].status = "CONSUMED"]
           /\ tests' = [tests EXCEPT ![req[r].test] = Launched(r)]
  <2>1. "CONSUMED" \in ApprovalStatus \ {"PENDING"} /\ UNCHANGED <<studies, abandoned>>
    BY StatusValues DEF LaunchCommit
  <2> QED BY <1>1, <1>3, <2>1, LaunchedRow, SettledRows
<1> QED BY <1>2, <1>3 DEF LaunchCommit

LEMMA LaunchCleanupRows ==
  ASSUME OneRequest, SerialInvariant, NEW r \in Requests, LaunchCleanup(r)
  PROVE  RowsInOrder'
<1>1. /\ req[r].pc = "cleanup" /\ req[r].pc \in Deciding /\ req[r].pc \in Held
  BY DEF LaunchCleanup, At, Deciding, Checked, Held
<1>2. CASE abandoned' = abandoned \cup {req[r].study} /\ UNCHANGED rows
  BY <1>2, RowsUntouched DEF LaunchCleanup
<1>3. CASE /\ approvals' = [approvals EXCEPT ![req[r].approval].status = "EXPIRED"]
           /\ tests' = [tests EXCEPT ![req[r].test] = AfterFailure(r)]
           /\ UNCHANGED abandoned
  <2>1. "EXPIRED" \in ApprovalStatus \ {"PENDING"} /\ UNCHANGED <<studies, abandoned>>
    BY <1>3, StatusValues DEF LaunchCleanup
  <2>2. CASE ~req[r].flag
    BY <1>1, <1>3, <2>1, <2>2, LaunchedRow, SettledRows DEF AfterFailure
  <2>3. CASE req[r].flag
    <3>1. /\ tests[req[r].test] \in TestRows /\ ~studies[req[r].study].live
          /\ tests[req[r].test].study = None /\ tests[req[r].test].winner = None
      BY <1>1, <2>3, DecidingTest, Serving DEF SlotHolds
    <3> DEFINE new == [tests[req[r].test] EXCEPT !.status = "DRAFT"]
    <3>2. /\ new \in TestRows /\ new.pair = tests[req[r].test].pair /\ new.winner = None
          /\ new.status = "DRAFT" /\ new.study = None
      BY <3>1, TestFields, StatusValues DEF TestRows
    <3>3. tests' = [tests EXCEPT ![req[r].test] = new]
      BY <1>3, <2>3 DEF AfterFailure
    <3> HIDE DEF new
    <3> QED BY <1>1, <1>3, <2>1, <3>1, <3>2, <3>3, SettledRows
  <2> QED BY <2>2, <2>3
<1> QED BY <1>2, <1>3 DEF LaunchCleanup

\* Asking for a launch expires what was asked before, for the same test only.
LEMMA LaunchRequestRows ==
  ASSUME OneRequest, SerialInvariant, NEW r \in Requests, LaunchRequest(r)
  PROVE  RowsInOrder'
<1> DEFINE t == req[r].test
           new == [tests[t] EXCEPT !.status = "PENDING_APPROVAL"]
<1>1. /\ t \in Tests /\ req[r].approval \in Approvals /\ tests[t] \in TestRows
      /\ tests \in [Tests -> TestRows] /\ approvals \in [Approvals -> ApprovalRows]
      /\ tests[t].status = "DRAFT" /\ \A a \in req[r].seen : approvals[a].test = t
      /\ approvals[req[r].approval].status = "ABSENT"
  BY Serving DEF LaunchRequest, At, WellFormed, SlotHolds, SlotMatches, Asking
<1>2. tests[t].study = None /\ tests[t].winner = None
  BY <1>1 DEF SerialInvariant, RowsInOrder, LaunchedOnce, Terminal
<1>3. /\ new.status = "PENDING_APPROVAL" /\ new.study = None /\ new.winner = None
      /\ new.pair = tests[t].pair
  BY <1>1, <1>2 DEF TestRows
<1>4. tests' = [tests EXCEPT ![t] = new] /\ UNCHANGED <<studies, abandoned>>
  BY DEF LaunchRequest
<1>5. ~Launching(r)
  BY DEF LaunchRequest, At, Launching
<1>6. \A a \in Approvals : approvals[a].test = t => approvals[a].status # "PENDING"
  BY <1>1 DEF SerialInvariant, RowsInOrder, TestsInOrder, WaitsIffRequested, PendingFor
<1>7. ASSUME NEW a \in Approvals
      PROVE  IF a = req[r].approval
             THEN approvals'[a].status = "PENDING" /\ approvals'[a].test = t
             ELSE approvals'[a] = approvals[a]
  BY <1>1, <1>6, <1>7 DEF LaunchRequest, Expired
<1> HIDE DEF new, t
<1>8. /\ \A u \in Tests : LaunchedOnce(tests'[u])
      /\ CancelledIsStopped' /\ WinnerLeads' /\ OneTestPerPair'
  BY <1>1, <1>2, <1>3, <1>4, RowWrite DEF LaunchedOnce, Active
<1>9. OneOpenRequest'
  BY <1>6, <1>7 DEF SerialInvariant, RowsInOrder, OneOpenRequest
<1>10. ASSUME NEW u \in Tests
       PROVE  tests'[u].status = "PENDING_APPROVAL" <=> PendingFor(u)' # {}
  <2>1. CASE u = t
    BY <1>1, <1>3, <1>4, <1>7, <2>1 DEF PendingFor
  <2>2. CASE u # t
    <3>1. PendingFor(u)' = PendingFor(u)
      BY <1>1, <1>7, <2>2 DEF PendingFor
    <3> QED BY <1>1, <1>4, <2>2, <3>1 DEF SerialInvariant, RowsInOrder, TestsInOrder, WaitsIffRequested
  <2> QED BY <2>1, <2>2
<1>11. LiveStudyTracked'
  BY <1>1, <1>4, <1>5, Tracks
<1> QED BY <1>8, <1>9, <1>10, <1>11 DEF RowsInOrder, TestsInOrder, WaitsIffRequested

LEMMA CancelWriteRows ==
  ASSUME OneRequest, SerialInvariant, NEW r \in Requests, CancelWrite(r)
  PROVE  RowsInOrder'
<1> DEFINE t == req[r].test
           new == [tests[t] EXCEPT !.status = "CANCELLED"]
<1>1. /\ t \in Tests /\ tests[t] \in TestRows
      /\ tests \in [Tests -> TestRows] /\ approvals \in [Approvals -> ApprovalRows]
      /\ tests[t].study # None => ~studies[tests[t].study].live
  BY Serving DEF CancelWrite, At, WellFormed, SlotHolds
<1>2. /\ new.status = "CANCELLED" /\ new.study = tests[t].study /\ new.winner = tests[t].winner
      /\ new.pair = tests[t].pair /\ new.cells = tests[t].cells
  BY <1>1 DEF TestRows
<1>3. tests' = [tests EXCEPT ![t] = new] /\ UNCHANGED <<studies, abandoned>>
  BY DEF CancelWrite
<1>4. ~Launching(r)
  BY DEF CancelWrite, At, Launching
<1>5. ASSUME NEW a \in Approvals
      PROVE  /\ approvals'[a].test = approvals[a].test
             /\ approvals[a].test # t => approvals'[a].status = approvals[a].status
             /\ approvals[a].test = t => approvals'[a].status # "PENDING"
  <2>1. approvals[a] \in ApprovalRows
    BY <1>1
  <2> QED BY <2>1 DEF CancelWrite, Expired, PendingFor, ApprovalRows
<1>6. LaunchedOnce(tests[t]) /\ WinnerLeads
  BY <1>1 DEF SerialInvariant, RowsInOrder
<1> HIDE DEF new, t
<1>7. /\ \A u \in Tests : LaunchedOnce(tests'[u])
      /\ CancelledIsStopped' /\ WinnerLeads' /\ OneTestPerPair'
  BY <1>1, <1>2, <1>3, <1>6, RowWrite DEF LaunchedOnce, Active, Terminal, WinnerLeads
<1>8. OneOpenRequest' /\ WaitsIffRequested'
  BY <1>2, <1>3, <1>5, <1>1, Closed
<1>9. LiveStudyTracked'
  <2>1. \A u \in Tests :
          /\ tests[u].status = "RUNNING" /\ tests[u].study # None
          /\ studies[tests[u].study].live
          => tests'[u].status = "RUNNING" /\ tests'[u].study = tests[u].study
    BY <1>1, <1>3
  <2> QED BY <1>3, <1>4, <2>1, Tracks
<1> QED BY <1>7, <1>8, <1>9 DEF RowsInOrder, TestsInOrder

LEMMA RefreshRecordRows ==
  ASSUME OneRequest, SerialInvariant, NEW r \in Requests, RefreshRecord(r)
  PROVE  RowsInOrder'
<1> DEFINE t == req[r].test
           new == Recorded(r)
<1>1. /\ t \in Tests /\ req[r].study \in Studies /\ tests[t] \in TestRows
      /\ tests \in [Tests -> TestRows]
      /\ tests[t].study = req[r].study /\ tests[t].cells = req[r].cells
      /\ req[r].flag => ~studies[req[r].study].live
      /\ req[r].winner # None => req[r].cells[req[r].winner] = studies[req[r].study].leader
  BY Serving DEF RefreshRecord, At, WellFormed, SlotHolds, Reading
<1>2. /\ new.study = req[r].study /\ new.winner = req[r].winner
      /\ new.pair = tests[t].pair /\ new.cells = req[r].cells
      /\ new.status = IF req[r].flag THEN "CONCLUDED" ELSE tests[t].status
  BY <1>1 DEF TestRows, Recorded
<1>3. tests' = [tests EXCEPT ![t] = new] /\ UNCHANGED <<approvals, studies, abandoned>>
  BY DEF RefreshRecord
<1>4. ~Launching(r)
  BY DEF RefreshRecord, At, Launching
<1>5. /\ LaunchedOnce(tests[t]) /\ req[r].study # None
      /\ tests[t].status \in {"RUNNING"} \cup Terminal
      /\ tests[t].status = "CANCELLED" => ~studies[req[r].study].live
  BY <1>1, NoneAssumption DEF SerialInvariant, RowsInOrder, CancelledIsStopped, LaunchedOnce
<1> HIDE DEF new, t
<1>6. /\ \A u \in Tests : LaunchedOnce(tests'[u])
      /\ CancelledIsStopped' /\ WinnerLeads' /\ OneTestPerPair'
  BY <1>1, <1>2, <1>3, <1>5, RowWrite DEF LaunchedOnce, Active, Terminal
<1>7. OneOpenRequest' /\ WaitsIffRequested'
  <2>1. tests[t].status # "PENDING_APPROVAL" /\ new.status # "PENDING_APPROVAL"
    BY <1>2, <1>5 DEF Terminal
  <2>2. \A a \in Approvals : approvals[a].test = t => approvals[a].status # "PENDING"
    BY <1>1, <2>1 DEF SerialInvariant, RowsInOrder, TestsInOrder, WaitsIffRequested, PendingFor
  <2> QED BY <1>1, <1>3, <2>1, <2>2, Closed
<1>8. LiveStudyTracked'
  <2>1. \A u \in Tests : tests[u].status = "RUNNING" /\ studies[tests[u].study].live =>
          tests'[u].status = "RUNNING" /\ tests'[u].study = tests[u].study
    BY <1>1, <1>2, <1>3
  <2> QED BY <1>3, <1>4, <2>1, Tracks
<1> QED BY <1>6, <1>7, <1>8 DEF RowsInOrder, TestsInOrder

\* The new study has a handler that holds it, or is given up.
LEMMA LaunchCallRows ==
  ASSUME OneRequest, SerialInvariant, NEW r \in Requests, LaunchCall(r)
  PROVE  RowsInOrder'
<1>1. /\ req \in [Requests -> Slots] /\ req[r] \in Slots /\ studies \in [Studies -> StudyObjects]
      /\ UNCHANGED rows /\ ~Launching(r)
  BY Serving DEF LaunchCall, At, Launching
<1>2. CASE UNCHANGED <<studies, abandoned>>
  BY <1>1, <1>2, RowsUntouched
<1>3. ASSUME NEW s \in Studies, NEW leader, FreshStudy(s),
             studies' = [studies EXCEPT ![s] =
               [approval |-> req[r].approval, cells |-> SentCells(r), leader |-> leader,
                live |-> TRUE, by |-> req[r].user]],
             \/ Become(r, [req[r] EXCEPT !.pc = "commit", !.study = s]) /\ UNCHANGED abandoned
             \/ abandoned' = abandoned \cup {s}
      PROVE  RowsInOrder'
  <2>1. \A x \in Studies : x # s => studies'[x] = studies[x]
    BY <1>1, <1>3
  <2>2. LiveStudyTracked'
    <3>1. ASSUME NEW x \in Studies, studies'[x].live, x # s
          PROVE  \/ \E t \in Tests : tests'[t].status = "RUNNING" /\ tests'[t].study = x
                 \/ x \in abandoned'
      <4>1. studies[x].live /\ \A q \in Requests : ~Launching(q)
        BY <1>1, <2>1, <3>1 DEF OneRequest
      <4>2. \/ \E t \in Tests : tests[t].status = "RUNNING" /\ tests[t].study = x
            \/ x \in abandoned
        BY <4>1 DEF SerialInvariant, RowsInOrder, LiveStudyTracked
      <4> QED BY <1>1, <1>3, <4>2 DEF rows
    <3>2. \/ req'[r].study = s /\ Launching(r)'
          \/ s \in abandoned'
      BY <1>1, <1>3 DEF Become, Launching, Slots
    <3> QED BY <3>1, <3>2 DEF LiveStudyTracked
  <2>3. ASSUME NEW t \in Tests, tests[t].study # None
        PROVE  tests[t].study \in Studies /\ tests[t].study # s
    <3>1. tests[t].study \in Studies /\ TestSound(tests[t], studies)
      BY <2>3 DEF SerialInvariant, LaunchInvariant, Typed, TypeOK, TestRows
    <3> QED BY <1>3, <2>3, <3>1 DEF TestSound, FreshStudy, NoStudy
  <2> QED BY <1>1, <2>1, <2>2, <2>3, StudyWrite
<1> QED BY <1>2, <1>3 DEF LaunchCall

\* What stopping a study leaves of it.
LEMMA Stopped ==
  ASSUME studies \in [Studies -> StudyObjects], NEW x \in Studies,
         studies' = [studies EXCEPT ![x].live = FALSE]
  PROVE  /\ ~studies'[x].live
         /\ \A s \in Studies : /\ studies'[s].live => studies[s].live
                               /\ studies'[s].leader = studies[s].leader
BY DEF StudyObjects

LEMMA StopRows ==
  ASSUME OneRequest, SerialInvariant, NEW r \in Requests, LaunchCompensate(r) \/ CancelStop(r)
  PROVE  RowsInOrder'
<1>1. /\ req \in [Requests -> Slots] /\ req[r] \in Slots /\ studies \in [Studies -> StudyObjects]
      /\ req[r].study \in Studies
  BY Serving DEF LaunchCompensate, CancelStop, At, WellFormed, Held, Stopping
<1>2. UNCHANGED <<rows, abandoned>>
  BY DEF LaunchCompensate, CancelStop
<1>3. \A s \in Studies : /\ studies'[s].live => studies[s].live
                         /\ studies'[s].leader = studies[s].leader
  <2>1. studies' = studies \/ studies' = [studies EXCEPT ![req[r].study].live = FALSE]
    BY DEF LaunchCompensate, CancelStop
  <2> QED BY <1>1, <2>1, Stopped
<1>4. Launching(r) => req'[r].study = req[r].study /\ Launching(r)'
  <2>1. CASE CancelStop(r)
    BY <2>1 DEF CancelStop, At, Launching
  <2>2. CASE LaunchCompensate(r)
    <3>1. \/ Goto(r, "cleanup")
          \/ \E told : Become(r, [req[r] EXCEPT !.pc = "cleanup", !.flag = told])
      BY <2>2 DEF LaunchCompensate
    <3> QED BY <1>1, <3>1 DEF Goto, Become, Launching, Slots
  <2> QED BY <2>1, <2>2
<1> QED BY <1>2, <1>3, <1>4, RowsUntouched

\* What the rows promise of each other survives every step.
LEMMA RowsNext ==
  ASSUME OneRequest, SerialInvariant, [Next]_vars
  PROVE  RowsInOrder'
<1>1. ASSUME NEW r \in Requests, UserRequest(r)
      PROVE  RowsInOrder'
  <2>1. ~Launching(r) /\ UNCHANGED <<rows, studies, abandoned>>
    BY <1>1 DEF UserRequest, Create, RequestLaunch, Decide, Cancel, Refresh, Start, At, Launching
  <2> QED BY <2>1, RowsUntouched
<1>2. ASSUME NEW r \in Requests, Serve(r)
      PROVE  RowsInOrder'
  <2>1. CASE \/ CreateDuplicate(r) \/ LaunchResolve(r) \/ LaunchSupersede(r) \/ DecideCount(r)
             \/ LaunchDrift(r) \/ CancelPause(r, "A", "pauseA", "pauseB")
             \/ CancelPause(r, "B", "pauseB", "cancel") \/ RefreshPull(r)
    <3>1. ~Launching(r) /\ UNCHANGED <<rows, studies, abandoned>>
      BY <2>1 DEF CreateDuplicate, LaunchResolve, LaunchSupersede, DecideCount, LaunchDrift,
         CancelPause, RefreshPull, At, Launching
    <3> QED BY <3>1, RowsUntouched
  <2>2. CASE CreateInsert(r)
    BY <2>2, CreateInsertRows
  <2>3. CASE LaunchRequest(r)
    BY <2>3, LaunchRequestRows
  <2>4. CASE DecideReject(r)
    BY <2>4, DecideRejectRows
  <2>5. CASE LaunchCall(r)
    BY <2>5, LaunchCallRows
  <2>6. CASE LaunchCommit(r)
    BY <2>6, LaunchCommitRows
  <2>7. CASE LaunchCompensate(r) \/ CancelStop(r)
    BY <2>7, StopRows
  <2>8. CASE LaunchCleanup(r)
    BY <2>8, LaunchCleanupRows
  <2>9. CASE CancelWrite(r)
    BY <2>9, CancelWriteRows
  <2>10. CASE RefreshRecord(r)
    BY <2>10, RefreshRecordRows
  <2> QED BY <1>2, <2>1, <2>2, <2>3, <2>4, <2>5, <2>6, <2>7, <2>8, <2>9, <2>10 DEF Serve
<1>3. ASSUME NEW r \in Requests, Crash(r)
      PROVE  RowsInOrder'
  <2>1. abandoned \subseteq abandoned' /\ (Launching(r) => req[r].study \in abandoned')
    BY <1>3 DEF Crash
  <2> QED BY <1>3, <2>1, RowsUntouched DEF Crash
<1>4. ASSUME UNCHANGED <<rows, req, abandoned>>,
             \A s \in Studies : /\ studies'[s].live => studies[s].live
                                /\ studies'[s].leader = studies[s].leader
      PROVE  RowsInOrder'
  <2>1. LiveStudyTracked'
    BY <1>4 DEF SerialInvariant, RowsInOrder, LiveStudyTracked, Launching, rows
  <2>2. \A t \in Tests : tests[t].study # None => tests[t].study \in Studies
    BY DEF SerialInvariant, LaunchInvariant, Typed, TypeOK, TestRows
  <2> QED BY <1>4, <2>1, <2>2, StudyWrite
<1>5. ASSUME NEW s \in Studies, StudyEnds(s)
      PROVE  RowsInOrder'
  <2>1. studies \in [Studies -> StudyObjects]
    BY DEF SerialInvariant, LaunchInvariant, Typed, TypeOK
  <2> QED BY <1>4, <1>5, <2>1, Stopped DEF StudyEnds
<1>6. CASE (\E x \in Ads : PublishAd(x)) \/ UNCHANGED vars
  BY <1>4, <1>6 DEF PublishAd, vars
<1> QED BY <1>1, <1>2, <1>3, <1>5, <1>6 DEF Next

-----------------------------------------------------------------------------
(* One request at a time: what the handlers know.                          *)

LEMMA IdleHolds ==
  ASSUME NEW ts, NEW as, NEW ss
  PROVE  SlotHolds(Idle, ts, as, ss)
BY DEF Idle, SlotHolds, Asking, Deciding, Checked, Held, Stopping, Reading

\* The environment ends studies, and changes nothing else a handler relies on.
LEMMA HoldsKept ==
  ASSUME SerialInvariant, NEW r \in Requests, UNCHANGED <<rows, req>>,
         \A s \in Studies : /\ studies'[s].live => studies[s].live
                            /\ studies'[s].leader = studies[s].leader
  PROVE  SlotHolds(req'[r], tests', approvals', studies')
<1>1. /\ req'[r] = req[r] /\ tests' = tests /\ approvals' = approvals
      /\ SlotHolds(req[r], tests, approvals, studies) /\ WellFormed(req[r])
      /\ tests \in [Tests -> TestRows]
  BY Serving DEF rows
<1>2. req[r].pc \in {"cleanup", "record"} \cup Stopping \cup Reading => req[r].study \in Studies
  BY <1>1 DEF WellFormed, Held, Stopping, Reading
<1>3. req[r].pc = "cancel" /\ tests[req[r].test].study # None =>
        tests[req[r].test].study \in Studies
  BY <1>1 DEF WellFormed, TestRows
<1> QED BY <1>1, <1>2, <1>3 DEF SlotHolds, Stopping

\* Starting to serve a request.
LEMMA UserRequestHolds ==
  ASSUME OneRequest, SerialInvariant, NEW r \in Requests, UserRequest(r)
  PROVE  SlotHolds(req'[r], tests', approvals', studies')
<1>1. /\ req \in [Requests -> Slots] /\ tests \in [Tests -> TestRows]
      /\ tests' = tests /\ approvals' = approvals /\ studies' = studies
  BY Serving DEF UserRequest, Create, RequestLaunch, Decide, Cancel, Refresh, rows
<1>2. ASSUME NEW s, Start(r, s), SlotHolds(s, tests, approvals, studies)
      PROVE  SlotHolds(req'[r], tests', approvals', studies')
  BY <1>1, <1>2 DEF Start, Become
<1> USE DEF SlotHolds, Idle, Asking, Deciding, Checked, Held, Stopping, Reading
<1>3. ASSUME NEW t \in Tests, NEW p \in Pairs, Create(r, t, p)
      PROVE  SlotHolds(req'[r], tests', approvals', studies')
  <2>1. SlotHolds([Idle EXCEPT !.pc = "duplicate", !.test = t, !.pair = p],
                  tests, approvals, studies)
    OBVIOUS
  <2> QED BY <1>2, <1>3, <2>1 DEF Create
<1>4. ASSUME NEW u \in Writers, NEW t \in Tests, NEW a \in Approvals, RequestLaunch(r, u, t, a)
      PROVE  SlotHolds(req'[r], tests', approvals', studies')
  <2>1. SlotHolds([Idle EXCEPT !.pc = "resolve", !.user = u, !.test = t, !.approval = a,
                               !.pair = tests[t].pair], tests, approvals, studies)
    BY <1>4 DEF RequestLaunch, Launchable
  <2> QED BY <1>2, <1>4, <2>1 DEF RequestLaunch
<1>5. ASSUME NEW u \in Approvers, NEW a \in Approvals, NEW v \in Verdicts, Decide(r, u, a, v)
      PROVE  SlotHolds(req'[r], tests', approvals', studies')
  <2>1. ASSUME NEW pc \in {"count", "reject", "drift"}
        PROVE  SlotHolds([Idle EXCEPT !.pc = pc, !.user = u, !.approval = a,
                                      !.test = approvals[a].test, !.cells = approvals[a].cells],
                         tests, approvals, studies)
    BY <1>5, <2>1 DEF Decide
  <2> DEFINE slot(pc) == [Idle EXCEPT !.pc = pc, !.user = u, !.approval = a,
                                      !.test = approvals[a].test, !.cells = approvals[a].cells]
  <2>2. Start(r, slot("count")) \/ Start(r, slot("reject")) \/ Start(r, slot("drift"))
    <3>1. CASE v = "APPROVED" /\ approvals[a].requester = u
      BY <1>5, <3>1 DEF Decide
    <3>2. CASE v = "REJECTED"
      BY <1>5, <3>2 DEF Decide
    <3>3. CASE v # "REJECTED" /\ ~(v = "APPROVED" /\ approvals[a].requester = u)
      BY <1>5, <3>3 DEF Decide
    <3> QED BY <3>1, <3>2, <3>3
  <2> HIDE DEF SlotHolds
  <2> QED BY <1>2, <2>1, <2>2
<1>6. ASSUME NEW t \in Tests, Cancel(r, t)
      PROVE  SlotHolds(req'[r], tests', approvals', studies')
  <2> DEFINE slot(pc) == [Idle EXCEPT !.pc = pc, !.test = t, !.study = tests[t].study,
                                      !.cells = tests[t].cells]
  <2>1. SlotHolds(slot("stop"), tests, approvals, studies)
    OBVIOUS
  <2>2. ~Spending(t) => tests[t].study = None
    BY <1>6 DEF Cancel, Spending, SerialInvariant, RowsInOrder, LaunchedOnce, Active, Terminal
  <2>3. ~Spending(t) => SlotHolds(slot("cancel"), tests, approvals, studies)
    BY <2>2
  <2>4. Start(r, slot(IF Spending(t) THEN "stop" ELSE "cancel"))
    BY <1>6 DEF Cancel
  <2> HIDE DEF slot, SlotHolds
  <2> QED BY <1>2, <2>1, <2>3, <2>4
<1>7. ASSUME NEW t \in Tests, Refresh(r, t)
      PROVE  SlotHolds(req'[r], tests', approvals', studies')
  <2>1. SlotHolds([Idle EXCEPT !.pc = "pull", !.test = t, !.study = tests[t].study,
                               !.cells = tests[t].cells], tests, approvals, studies)
    OBVIOUS
  <2> QED BY <1>2, <1>7, <2>1 DEF Refresh
<1> QED BY <1>3, <1>4, <1>5, <1>6, <1>7 DEF UserRequest

\* Steps that read, or end the request.
LEMMA ReadHolds ==
  ASSUME OneRequest, SerialInvariant, NEW r \in Requests,
         \/ CreateDuplicate(r) \/ LaunchResolve(r) \/ LaunchSupersede(r) \/ DecideCount(r)
         \/ LaunchDrift(r) \/ CancelPause(r, "A", "pauseA", "pauseB")
         \/ CancelPause(r, "B", "pauseB", "cancel")
  PROVE  SlotHolds(req'[r], tests', approvals', studies')
<1>1. /\ req \in [Requests -> Slots] /\ req[r] \in Slots
      /\ tests' = tests /\ approvals' = approvals /\ studies' = studies
      /\ SlotHolds(req[r], tests, approvals, studies)
  BY Serving DEF CreateDuplicate, LaunchResolve, LaunchSupersede, DecideCount, LaunchDrift,
     CancelPause, rows
<1>2. ASSUME NEW s, Become(r, s), SlotHolds(s, tests, approvals, studies)
      PROVE  SlotHolds(req'[r], tests', approvals', studies')
  BY <1>1, <1>2 DEF Become
<1>3. ASSUME Return(r)
      PROVE  SlotHolds(req'[r], tests', approvals', studies')
  BY <1>2, <1>3, IdleHolds DEF Return
<1> USE DEF At, Goto, Asking, Deciding, Checked, Held, Stopping, Reading
<1>4. ASSUME CreateDuplicate(r), Goto(r, "insert")
      PROVE  SlotHolds(req'[r], tests', approvals', studies')
  <2>1. \/ Return(r)
        \/ \A t \in Tests : tests[t].status \in Active => ~SamePair(tests[t].pair, req[r].pair)
    BY <1>4 DEF CreateDuplicate
  <2>2. ASSUME \A t \in Tests : tests[t].status \in Active => ~SamePair(tests[t].pair, req[r].pair)
        PROVE  SlotHolds([req[r] EXCEPT !.pc = "insert"], tests, approvals, studies)
    BY <1>1, <2>2 DEF Slots, SlotHolds
  <2> QED BY <1>2, <1>3, <1>4, <2>1, <2>2
<1>5. ASSUME LaunchResolve(r)
      PROVE  SlotHolds(req'[r], tests', approvals', studies')
  <2>1. ASSUME NEW cells
        PROVE  SlotHolds([req[r] EXCEPT !.pc = "supersede", !.cells = cells],
                         tests, approvals, studies)
    BY <1>1, <1>5 DEF LaunchResolve, Slots, SlotHolds
  <2> QED BY <1>2, <1>3, <1>5, <2>1 DEF LaunchResolve
<1>6. ASSUME LaunchSupersede(r)
      PROVE  SlotHolds(req'[r], tests', approvals', studies')
  <2>1. SlotHolds([req[r] EXCEPT !.pc = "request", !.seen = PendingFor(req[r].test)],
                  tests, approvals, studies)
    BY <1>1, <1>6 DEF LaunchSupersede, Slots, SlotHolds, PendingFor
  <2> QED BY <1>2, <1>6, <2>1 DEF LaunchSupersede
<1>7. ASSUME NEW pc \in {"drift", "launch"}, req[r].pc \in {"count", "drift"}, Goto(r, pc)
      PROVE  SlotHolds(req'[r], tests', approvals', studies')
  <2>1. SlotHolds([req[r] EXCEPT !.pc = pc], tests, approvals, studies)
    BY <1>1, <1>7 DEF Slots, SlotHolds
  <2> QED BY <1>2, <1>7, <2>1
<1>8. ASSUME \/ req[r].pc = "pauseA" /\ Goto(r, "pauseB")
             \/ req[r].pc = "pauseB" /\ Goto(r, "cancel")
      PROVE  SlotHolds(req'[r], tests', approvals', studies')
  <2>1. /\ req[r].pc = "pauseA" => SlotHolds([req[r] EXCEPT !.pc = "pauseB"], tests, approvals, studies)
        /\ req[r].pc = "pauseB" => SlotHolds([req[r] EXCEPT !.pc = "cancel"], tests, approvals, studies)
    BY <1>1 DEF Slots, SlotHolds
  <2> QED BY <1>2, <1>8, <2>1
<1>9. CASE CreateDuplicate(r)
  BY <1>3, <1>4, <1>9 DEF CreateDuplicate
<1>10. CASE DecideCount(r) \/ LaunchDrift(r)
  BY <1>3, <1>7, <1>10 DEF DecideCount, LaunchDrift
<1>11. CASE CancelPause(r, "A", "pauseA", "pauseB") \/ CancelPause(r, "B", "pauseB", "cancel")
  BY <1>8, <1>11 DEF CancelPause
<1> QED BY <1>5, <1>6, <1>9, <1>10, <1>11

\* Steps that act on a study at Meta.
LEMMA CallHolds ==
  ASSUME OneRequest, SerialInvariant, NEW r \in Requests,
         LaunchCall(r) \/ LaunchCompensate(r) \/ CancelStop(r)
  PROVE  SlotHolds(req'[r], tests', approvals', studies')
<1>1. /\ req \in [Requests -> Slots] /\ req[r] \in Slots /\ studies \in [Studies -> StudyObjects]
      /\ tests' = tests /\ approvals' = approvals
      /\ SlotHolds(req[r], tests, approvals, studies) /\ WellFormed(req[r])
  BY Serving DEF LaunchCall, LaunchCompensate, CancelStop, rows
<1>2. ASSUME NEW s, Become(r, s), SlotHolds(s, tests, approvals, studies')
      PROVE  SlotHolds(req'[r], tests', approvals', studies')
  BY <1>1, <1>2 DEF Become
<1>3. ASSUME Return(r)
      PROVE  SlotHolds(req'[r], tests', approvals', studies')
  BY <1>2, <1>3, IdleHolds DEF Return
<1> USE DEF At, Goto, Asking, Deciding, Checked, Held, Stopping, Reading
<1>4. CASE LaunchCall(r)
  <2>1. ASSUME NEW x
        PROVE  SlotHolds([req[r] EXCEPT !.pc = "commit", !.study = x], tests, approvals, studies')
    BY <1>1, <1>4 DEF LaunchCall, Slots, SlotHolds
  <2> QED BY <1>2, <1>3, <1>4, <2>1 DEF LaunchCall
<1>5. CASE LaunchCompensate(r)
  <2>1. CASE Goto(r, "cleanup")
    <3>1. SlotHolds([req[r] EXCEPT !.pc = "cleanup"], tests, approvals, studies')
      BY <1>1, <1>5 DEF LaunchCompensate, Slots, SlotHolds
    <3> QED BY <1>2, <2>1, <3>1
  <2>2. CASE studies' = [studies EXCEPT ![req[r].study].live = FALSE]
    <3>1. req[r].study \in Studies
      BY <1>1, <1>5 DEF LaunchCompensate, WellFormed
    <3>2. ~studies'[req[r].study].live
      BY <1>1, <2>2, <3>1, Stopped
    <3>3. ASSUME NEW told
          PROVE  SlotHolds([req[r] EXCEPT !.pc = "cleanup", !.flag = told], tests, approvals, studies')
      BY <1>1, <1>5, <3>2 DEF LaunchCompensate, Slots, SlotHolds
    <3> QED BY <1>2, <1>5, <3>3 DEF LaunchCompensate
  <2> QED BY <1>5, <2>1, <2>2 DEF LaunchCompensate
<1>6. CASE CancelStop(r)
  <2>1. CASE /\ studies' = [studies EXCEPT ![req[r].study].live = FALSE]
             /\ Goto(r, "pauseA")
    <3>1. req[r].study \in Studies
      BY <1>1, <1>6 DEF CancelStop, WellFormed
    <3>2. ~studies'[req[r].study].live
      BY <1>1, <2>1, <3>1, Stopped
    <3>3. SlotHolds([req[r] EXCEPT !.pc = "pauseA"], tests, approvals, studies')
      BY <1>1, <1>6, <3>2 DEF CancelStop, Slots, SlotHolds
    <3> QED BY <1>2, <2>1, <3>3
  <2> QED BY <1>3, <1>6, <2>1 DEF CancelStop
<1> QED BY <1>4, <1>5, <1>6

\* Whichever cells Meta lists first and whichever ids it leaves out, the winner
\* that is read is the cell that leads.
LEMMA WinnerRead ==
  ASSUME NEW s \in Studies, NEW cells \in Cells, NEW answer \in Answers(s),
         Winner(answer, cells) # None
  PROVE  cells[Winner(answer, cells)] = studies[s].leader
<1> DEFINE w == Winner(answer, cells)
<1>1. w \in Sides /\ \E i \in FindByEntity(answer, cells, w) : answer[i].leads
  BY DEF Winner
<1>2. PICK i \in {1, 2} : answer[i].ad = cells[w] /\ answer[i].leads
  BY <1>1 DEF FindByEntity
<1>3. cells[w] # None
  BY <1>1, NoneAssumption DEF Cells
<1>4. PICK first \in {1, 2}, labelled \in SUBSET Sides :
        answer = [j \in {1, 2} |->
                    LET side == IF j = first THEN "A" ELSE "B"
                    IN [ad |-> IF side \in labelled THEN studies[s].cells[side] ELSE None,
                        leads |-> studies[s].leader = studies[s].cells[side]]]
  BY DEF Answers
<1>5. PICK side \in Sides :
        /\ answer[i].ad = IF side \in labelled THEN studies[s].cells[side] ELSE None
        /\ answer[i].leads = (studies[s].leader = studies[s].cells[side])
  BY <1>2, <1>4 DEF Sides
<1> QED BY <1>2, <1>3, <1>5

LEMMA PullHolds ==
  ASSUME OneRequest, SerialInvariant, NEW r \in Requests, RefreshPull(r)
  PROVE  SlotHolds(req'[r], tests', approvals', studies')
<1>1. /\ req \in [Requests -> Slots] /\ req[r] \in Slots /\ req[r].pc = "pull"
      /\ tests' = tests /\ approvals' = approvals /\ studies' = studies
      /\ SlotHolds(req[r], tests, approvals, studies)
      /\ req[r].study \in Studies /\ req[r].cells \in Cells
  BY Serving DEF RefreshPull, At, WellFormed, Reading, rows
<1>2. CASE Return(r)
  BY <1>1, <1>2, IdleHolds DEF Return, Become
<1>3. ASSUME NEW answer \in Answers(req[r].study),
             Become(r, [req[r] EXCEPT !.pc = "record", !.winner = Winner(answer, req[r].cells),
                                      !.flag = ~studies[req[r].study].live])
      PROVE  SlotHolds(req'[r], tests', approvals', studies')
  <2> DEFINE w == Winner(answer, req[r].cells)
             new == [req[r] EXCEPT !.pc = "record", !.winner = w,
                                   !.flag = ~studies[req[r].study].live]
  <2>1. w # None => req[r].cells[w] = studies[req[r].study].leader
    BY <1>1, WinnerRead
  <2> HIDE DEF w
  <2>2. SlotHolds(new, tests, approvals, studies)
    BY <1>1, <2>1 DEF Slots, SlotHolds, Asking, Deciding, Checked, Held, Stopping, Reading
  <2>3. req'[r] = new
    BY <1>1, <1>3 DEF Become, w
  <2> QED BY <1>1, <2>2, <2>3
<1> QED BY <1>2, <1>3 DEF RefreshPull

\* Steps that write rows end the request, unless the launch cannot be stored.
LEMMA WriteHolds ==
  ASSUME OneRequest, SerialInvariant, NEW r \in Requests,
         \/ CreateInsert(r) \/ LaunchRequest(r) \/ DecideReject(r) \/ LaunchCommit(r)
         \/ LaunchCleanup(r) \/ CancelWrite(r) \/ RefreshRecord(r) \/ Crash(r)
  PROVE  SlotHolds(req'[r], tests', approvals', studies')
<1>1. /\ req \in [Requests -> Slots] /\ req[r] \in Slots
      /\ SlotHolds(req[r], tests, approvals, studies)
  BY Serving
<1>2. CASE Return(r)
  BY <1>1, <1>2, IdleHolds DEF Return, Become
<1>3. CASE At(r, "commit") /\ Goto(r, "compensate") /\ UNCHANGED <<rows, studies>>
  <2>1. SlotHolds([req[r] EXCEPT !.pc = "compensate"], tests, approvals, studies)
    BY <1>1, <1>3 DEF At, Slots, SlotHolds, Asking, Deciding, Checked, Held, Stopping, Reading
  <2>2. tests' = tests /\ approvals' = approvals /\ studies' = studies
    BY <1>3 DEF rows
  <2> QED BY <1>1, <1>3, <2>1, <2>2 DEF Goto, Become
<1> QED BY <1>2, <1>3 DEF CreateInsert, LaunchRequest, DecideReject, LaunchCommit, LaunchCleanup,
     CancelWrite, RefreshRecord, Crash

-----------------------------------------------------------------------------
(* What holds when requests are served one after the other.                *)

LEMMA SerialNext == OneRequest /\ SerialInvariant /\ [Next]_vars => SerialInvariant'
<1> SUFFICES ASSUME OneRequest, SerialInvariant, [Next]_vars PROVE SerialInvariant'
  OBVIOUS
<1>1. LaunchInvariant'
  BY LaunchNext DEF SerialInvariant
<1>2. RowsInOrder'
  BY RowsNext
<1>3. ASSUME NEW r \in Requests
      PROVE  SlotHolds(req'[r], tests', approvals', studies')
  <2>1. CASE UserRequest(r)
    BY <2>1, UserRequestHolds
  <2>2. CASE Serve(r) \/ Crash(r)
    BY <2>2, ReadHolds, CallHolds, PullHolds, WriteHolds DEF Serve
  <2>3. CASE (\E x \in Ads : PublishAd(x)) \/ UNCHANGED vars
    BY <2>3, HoldsKept DEF PublishAd, vars
  <2>4. ASSUME NEW s \in Studies, StudyEnds(s)
        PROVE  SlotHolds(req'[r], tests', approvals', studies')
    BY <2>4, Serving, Stopped, HoldsKept DEF StudyEnds
  <2> QED BY <2>1, <2>2, <2>3, <2>4 DEF Next, OneRequest
<1> QED BY <1>1, <1>2, <1>3 DEF SerialInvariant

LEMMA SerialInit == Init => SerialInvariant
<1> SUFFICES ASSUME Init PROVE SerialInvariant
  OBVIOUS
<1>1. /\ \A t \in Tests : tests[t].status = "ABSENT" /\ tests[t].study = None /\ tests[t].winner = None
      /\ \A a \in Approvals : approvals[a].status = "ABSENT"
      /\ \A s \in Studies : studies[s].live = FALSE
      /\ \A r \in Requests : req[r] = Idle
  BY DEF Init, NoTest, NoApproval, NoStudy
<1>2. \A r \in Requests : SlotHolds(req[r], tests, approvals, studies)
  BY <1>1, IdleHolds
<1>3. /\ \A t \in Tests : LaunchedOnce(tests[t])
      /\ OneOpenRequest /\ LiveStudyTracked /\ CancelledIsStopped /\ WinnerLeads
  BY <1>1 DEF LaunchedOnce, OneOpenRequest, LiveStudyTracked, CancelledIsStopped, WinnerLeads
<1>4. OneTestPerPair /\ WaitsIffRequested
  BY <1>1 DEF OneTestPerPair, WaitsIffRequested, PendingFor, Active
<1> QED BY <1>2, <1>3, <1>4, LaunchInit DEF SerialInvariant, RowsInOrder, TestsInOrder

LEMMA SerialAlways == OneRequest /\ Spec => []SerialInvariant
<1>1. CASE OneRequest
  <2>1. SerialInvariant /\ [Next]_vars => SerialInvariant'
    BY <1>1, SerialNext
  <2>2. Spec => []SerialInvariant
    BY <2>1, SerialInit, PTL DEF Spec
  <2> QED BY <2>2
<1>2. CASE ~OneRequest
  BY <1>2
<1> QED BY <1>1, <1>2

\* Served one at a time, every request leaves each live study with a RUNNING
\* test that can be cancelled, or with the handler that is launching it, also
\* when storing the launch and stopping the study both fail (the compensation
\* of decideAbTestLaunch); what is left out is named in the property.
THEOREM LiveStudyTrackedAlways == OneRequest /\ Spec => []LiveStudyTracked
<1>1. SerialInvariant => LiveStudyTracked
  BY DEF SerialInvariant, RowsInOrder
<1> QED BY <1>1, SerialAlways, PTL

\* Served one at a time, a test that says CANCELLED has no study spending:
\* cancel stops before it writes, and a study is never given to a closed test.
THEOREM CancelledIsStoppedAlways == OneRequest /\ Spec => []CancelledIsStopped
<1>1. SerialInvariant => CancelledIsStopped
  BY DEF SerialInvariant, RowsInOrder
<1> QED BY <1>1, SerialAlways, PTL

\* The winner refreshResults stores is the ad that leads at Meta, in whatever
\* order and with whatever ids missing Meta lists the cells.
THEOREM WinnerLeadsAlways == OneRequest /\ Spec => []WinnerLeads
<1>1. SerialInvariant => WinnerLeads
  BY DEF SerialInvariant, RowsInOrder
<1> QED BY <1>1, SerialAlways, PTL

\* Served one at a time, no two active tests compare the same two ads, and a
\* test waits for approval exactly as long as a request for it is open.
THEOREM TestsInOrderAlways == OneRequest /\ Spec => []TestsInOrder
<1>1. SerialInvariant => TestsInOrder
  BY DEF SerialInvariant, RowsInOrder
<1> QED BY <1>1, SerialAlways, PTL
=============================================================================
