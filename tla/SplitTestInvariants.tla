------------------------- MODULE SplitTestInvariants -------------------------
(***************************************************************************)
(* Why SplitTest keeps its promises: what a slot may rely on at each       *)
(* program counter, and how test rows, approval rows and studies hang      *)
(* together.  LaunchInvariant is inductive for any interleaving,           *)
(* SerialInvariant when requests are served one after the other.           *)
(***************************************************************************)
EXTENDS SplitTest

Creating == {"duplicate", "insert"}
Asking == {"resolve", "supersede", "request"}
Held == {"commit", "compensate", "cleanup"}
Checked == {"drift", "launch"} \cup Held
Deciding == {"count", "reject"} \cup Checked
Stopping == {"stop", "pauseA", "pauseB"}
Reading == {"pull", "record"}

WellFormed(s) ==
  /\ s.pc \in Creating => s.test \in Tests /\ s.pair \in Pairs
  /\ s.pc \in Asking => /\ s.user \in Writers /\ s.approval \in Approvals
                        /\ s.test \in Tests /\ s.pair \in Pairs
  /\ s.pc \in {"supersede", "request"} => s.cells \in Cells
  /\ s.pc \in Deciding => /\ s.user \in Approvers /\ s.approval \in Approvals
                          /\ s.test \in Tests /\ s.cells \in Cells
  /\ s.pc \in Held \cup Stopping \cup Reading => s.study \in Studies
  /\ s.pc \in Stopping \cup Reading => s.cells \in Cells
  /\ s.pc \in Stopping \cup Reading \cup {"cancel"} => s.test \in Tests

GoodSlots == {s \in Slots : WellFormed(s)}

Typed == TypeOK /\ req \in [Requests -> GoodSlots]

-----------------------------------------------------------------------------
\* What a handler knows of the rows and the studies while it runs.
SlotMatches(s, ts, as, ss) ==
  /\ s.pc \in Creating => ts[s.test].pair = None
  /\ s.pc \in Asking \cup Deciding \cup Stopping \cup Reading \cup {"cancel"} =>
       ts[s.test].pair # None
  /\ s.pc \in Asking => as[s.approval].status = "ABSENT"
  /\ s.pc \in Deciding => /\ as[s.approval].status # "ABSENT"
                          /\ s.cells = as[s.approval].cells
  /\ s.pc \in Checked /\ as[s.approval].requester = s.user => Approvers = {s.user}
  /\ s.pc \in Held => ss[s.study].approval # None /\ ss[s.study].cells = s.cells

\* A row that exists says what it is about; a launched test has its study's cells.
TestSound(row, ss) ==
  /\ row.status # "ABSENT" => row.pair # None
  /\ row.study # None => /\ row.pair # None /\ row.cells # None
                         /\ ss[row.study].approval # None
                         /\ row.cells = ss[row.study].cells

ApprovalSound(row, ts) ==
  row.status # "ABSENT" => /\ row.test # None /\ row.cells # None
                           /\ ts[row.test].pair # None

\* A study is the one its approval showed, launched by somebody else or by the
\* sole approver.
StudySound(s, as) ==
  /\ s.approval = None => s = NoStudy
  /\ s.approval # None => /\ as[s.approval].status # "ABSENT"
                          /\ s.cells = as[s.approval].cells
                          /\ as[s.approval].requester = s.by => Approvers = {s.by}

\* The id a handler will insert belongs to no other handler.
TestIdsReserved ==
  \A r, q \in Requests :
    req[r].pc \in Creating /\ q # r => req[q].test # req[r].test
ApprovalIdsReserved ==
  \A r, q \in Requests :
    req[r].pc \in Asking /\ q # r => req[q].approval # req[r].approval

LaunchInvariant ==
  /\ Typed
  /\ \A r \in Requests : SlotMatches(req[r], tests, approvals, studies)
  /\ \A t \in Tests : TestSound(tests[t], studies)
  /\ \A a \in Approvals : ApprovalSound(approvals[a], tests)
  /\ \A s \in Studies : StudySound(studies[s], approvals)
  /\ TestIdsReserved
  /\ ApprovalIdsReserved

-----------------------------------------------------------------------------
(* One request at a time.                                                  *)

OneRequest == \A r, q \in Requests : r = q

\* What a handler read is still so when it acts on it.
SlotHolds(s, ts, as, ss) ==
  /\ s.pc = "insert" =>
       \A t \in Tests : ts[t].status \in Active => ~SamePair(ts[t].pair, s.pair)
  /\ s.pc \in Asking => ts[s.test].status = "DRAFT"
  /\ s.pc = "request" => \A a \in s.seen : as[a].test = s.test
  /\ s.pc \in Deciding => as[s.approval].status = "PENDING" /\ as[s.approval].test = s.test
  /\ s.pc \in Deciding \ {"cleanup"} => ~s.flag
  /\ s.pc \in {"cleanup", "record"} /\ s.flag => ~ss[s.study].live
  /\ s.pc \in Stopping \cup Reading => ts[s.test].study = s.study
  /\ s.pc \in {"pauseA", "pauseB"} => ~ss[s.study].live
  /\ s.pc = "cancel" /\ ts[s.test].study # None => ~ss[ts[s.test].study].live
  /\ s.pc \in Reading => s.cells = ts[s.test].cells
  /\ s.pc = "record" /\ s.winner # None => s.cells[s.winner] = ss[s.study].leader

\* A test gets its study once, and a winner only with it.
LaunchedOnce(row) ==
  /\ row.study # None => row.status \in {"RUNNING"} \cup Terminal
  /\ row.study = None => row.winner = None

OneOpenRequest ==
  \A a, b \in Approvals :
    /\ approvals[a].status = "PENDING" /\ approvals[b].status = "PENDING"
    /\ approvals[a].test = approvals[b].test
    => a = b

RowsInOrder ==
  /\ \A t \in Tests : LaunchedOnce(tests[t])
  /\ OneOpenRequest
  /\ LiveStudyTracked
  /\ CancelledIsStopped
  /\ WinnerLeads
  /\ TestsInOrder

SerialInvariant ==
  /\ LaunchInvariant
  /\ \A r \in Requests : SlotHolds(req[r], tests, approvals, studies)
  /\ RowsInOrder
=============================================================================
