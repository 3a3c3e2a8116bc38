------------------------------ MODULE ReviewProofs ------------------------------
(***************************************************************************)
(* Theorems about ReportReview, for any number of requests and any bodies, *)
(* and about Dashboard, for any number of tabs and other clients.          *)
(*                                                                         *)
(* What is proved of ReportReview carries over to Dashboard, because every *)
(* step of the dashboard is one of ReportReview or leaves the server alone.*)
(***************************************************************************)
EXTENDS Dashboard, TLAPS

-----------------------------------------------------------------------------
(* The review *)

\* The request inside a transaction is the one that holds the lock, and what
\* it read is still true.
LockProtects ==
  /\ \A q \in Requests : pc[q] = "locked" <=> lock = q
  /\ \A q \in Requests : pc[q] = "locked" => seen[q] = report.status

\* A request has a body from the moment it is sent until it fails.
BodyIsSent ==
  \A q \in Requests : pc[q] \in {"unsent", "conflict", "lost"} <=> asked[q] = NoBody

IInv == TypeOK /\ LockProtects /\ BodyIsSent /\ HistoryIsTrue /\ AnsweredIsRecorded

-----------------------------------------------------------------------------
LEMMA BodyHasVerdict ==
  ASSUME NEW b \in Bodies
  PROVE  b # NoBody /\ b.status \in Verdicts
BY DEF Bodies, NoBody, Verdicts, None

\* A report that says pending is the pending report.
LEMMA PendingIsPending ==
  ASSUME TypeOK, HistoryIsTrue, report.status = "pending_review"
  PROVE  events = <<>> /\ report = Pending
<1>1. SUFFICES ASSUME events # <<>> PROVE FALSE  BY DEF HistoryIsTrue
<1>2. events[1] \in ReviewEvents  BY <1>1 DEF TypeOK
<1>3. report.status = events[1].new  BY <1>1 DEF HistoryIsTrue
<1>. QED  BY <1>2, <1>3 DEF ReviewEvents, Verdicts

LEMMA InitEstablishesIInv == Init => IInv
<1>. SUFFICES ASSUME Init PROVE IInv  OBVIOUS
<1>. USE DEF Init
<1>1. TypeOK
  BY ReviewAssumption DEF TypeOK, Reports, Statuses, Pending, None
<1>2. LockProtects /\ BodyIsSent /\ AnsweredIsRecorded
  BY ReviewAssumption DEF LockProtects, BodyIsSent, AnsweredIsRecorded, None
<1>3. HistoryIsTrue  BY DEF HistoryIsTrue
<1>. QED  BY <1>1, <1>2, <1>3 DEF IInv

\* A step that leaves the report alone, and whose request is not answered.
LEMMA QuietStepsKeepIInv ==
  ASSUME IInv, NEW q \in Requests,
         \/ \E body \in Bodies : SendReview(q, body)
         \/ LockReport(q) \/ RefuseReview(q) \/ AbortReview(q)
  PROVE  IInv'
<1>. USE DEF IInv, Moves
<1>1. UNCHANGED <<report, events>>
  BY DEF SendReview, LockReport, RefuseReview, AbortReview
<1>2. /\ pc' \in [Requests -> {"unsent", "sent", "locked", "reviewed", "conflict", "lost"}]
      /\ \A r \in Requests : pc'[r] = "reviewed" => pc[r] = "reviewed"
      /\ \A r \in Requests : pc[r] = "reviewed" => pc'[r] = "reviewed" /\ asked'[r] = asked[r]
      /\ \A r \in Requests : asked'[r] # asked[r] => pc'[r] # "reviewed"
  BY DEF SendReview, LockReport, RefuseReview, AbortReview, TypeOK
<1>3. TypeOK'
  <2>1. asked' \in [Requests -> Bodies \union {NoBody}]
    BY DEF SendReview, LockReport, RefuseReview, AbortReview, TypeOK
  <2>2. seen' \in [Requests -> Statuses \union {None}]
    BY DEF SendReview, LockReport, RefuseReview, AbortReview, TypeOK, Reports
  <2>3. lock' \in Requests \union {None}
    BY DEF SendReview, LockReport, RefuseReview, AbortReview, TypeOK
  <2>. QED  BY <1>1, <1>2, <2>1, <2>2, <2>3 DEF TypeOK
<1>4. LockProtects'
  <2>1. CASE \E body \in Bodies : SendReview(q, body)
    BY <1>1, <2>1 DEF LockProtects, SendReview, TypeOK
  <2>2. CASE LockReport(q)
    BY <1>1, <2>2, ReviewAssumption DEF LockProtects, LockReport, TypeOK
  <2>3. CASE RefuseReview(q)
    BY <1>1, <2>3, ReviewAssumption DEF LockProtects, RefuseReview, TypeOK
  <2>4. CASE AbortReview(q)
    BY <1>1, <2>4, ReviewAssumption DEF LockProtects, AbortReview, TypeOK
  <2>. QED  BY <2>1, <2>2, <2>3, <2>4
<1>5. BodyIsSent'
  <2>1. CASE \E body \in Bodies : SendReview(q, body)
    BY <2>1, BodyHasVerdict DEF BodyIsSent, SendReview, TypeOK
  <2>2. CASE LockReport(q) \/ RefuseReview(q) \/ AbortReview(q)
    BY <2>2 DEF BodyIsSent, LockReport, RefuseReview, AbortReview, TypeOK
  <2>. QED  BY <2>1, <2>2
<1>6. AnsweredIsRecorded'
  BY <1>1, <1>2 DEF AnsweredIsRecorded, Reviewed, Reviewer
<1>7. HistoryIsTrue'
  <2>1. SUFFICES ASSUME events # <<>>, AuthEnabled
                 PROVE  \E r \in Requests :
                          /\ pc'[r] = "reviewed"
                          /\ SubjectOf[r] = events[1].by
                          /\ asked'[r] = [status |-> events[1].new, feedback |-> events[1].feedback]
    BY <1>1 DEF HistoryIsTrue
  <2>2. PICK r \in Requests :
          /\ pc[r] = "reviewed"
          /\ SubjectOf[r] = events[1].by
          /\ asked[r] = [status |-> events[1].new, feedback |-> events[1].feedback]
    BY <2>1 DEF HistoryIsTrue
  <2>. QED  BY <1>2, <2>2
<1>. QED  BY <1>3, <1>4, <1>5, <1>6, <1>7

LEMMA CommitKeepsIInv ==
  ASSUME IInv, NEW q \in Requests, CommitReview(q)
  PROVE  IInv'
<1>. USE DEF IInv, Moves
<1>1. pc[q] = "locked" /\ lock = q /\ report = Pending /\ events = <<>>
  BY PendingIsPending DEF CommitReview, LockProtects
<1>2. asked[q] \in Bodies /\ asked[q].status \in Verdicts
  <2>1. asked[q] # NoBody  BY <1>1 DEF BodyIsSent
  <2>. QED  BY <2>1, BodyHasVerdict DEF TypeOK
<1>3. Reviewer(q) \in Subjects
  BY ReviewAssumption DEF Reviewer
<1>4. ReviewEvent(q) =
        [previous |-> "pending_review", new |-> asked[q].status, by |-> Reviewer(q),
         feedback |-> asked[q].feedback]
  BY DEF CommitReview, ReviewEvent
<1>5. ReviewEvent(q) \in ReviewEvents /\ Reviewed(q) \in Reports
  BY <1>2, <1>3, <1>4 DEF ReviewEvents, Reports, Reviewed, Statuses, Bodies
<1>6. /\ events' = <<ReviewEvent(q)>> /\ report' = Reviewed(q)
      /\ lock' = None /\ UNCHANGED asked
      /\ pc' = [pc EXCEPT ![q] = "reviewed"] /\ seen' = [seen EXCEPT ![q] = None]
  BY <1>1 DEF CommitReview
<1>7. TypeOK'
  BY <1>5, <1>6 DEF TypeOK
<1>8. LockProtects'
  BY <1>1, <1>6, ReviewAssumption DEF LockProtects, TypeOK
<1>9. BodyIsSent'
  BY <1>1, <1>6 DEF BodyIsSent, TypeOK
<1>10. AnsweredIsRecorded'
  <2>1. SUFFICES ASSUME NEW r \in Requests, pc'[r] = "reviewed", r # q
                 PROVE  FALSE
    BY <1>6 DEF AnsweredIsRecorded, Reviewed, Reviewer
  <2>2. pc[r] = "reviewed"  BY <1>6, <2>1 DEF TypeOK
  <2>3. asked[r] # NoBody  BY <2>1, <2>2 DEF BodyIsSent
  <2>4. asked[r].status \in Verdicts  BY <2>1, <2>3, BodyHasVerdict DEF TypeOK
  <2>5. report.status = asked[r].status
    BY <2>1, <2>2 DEF AnsweredIsRecorded, Reviewed
  <2>. QED  BY <1>1, <2>4, <2>5 DEF Pending, Verdicts
<1>11. HistoryIsTrue'
  <2>1. Len(events') = 1 /\ events'[1] = ReviewEvent(q) /\ events' # <<>>  BY <1>6
  <2>2. report' # Pending
    BY <1>2, <1>6 DEF Reviewed, Pending, Verdicts
  <2>3. report' = [status |-> events'[1].new, by |-> events'[1].by,
                   feedback |-> events'[1].feedback]
    BY <1>4, <1>6, <2>1 DEF Reviewed
  <2>4. AuthEnabled => SubjectOf[q] = events'[1].by
    BY <1>4, <2>1 DEF Reviewer
  <2>5. pc'[q] = "reviewed" /\ asked'[q] = [status |-> events'[1].new, feedback |-> events'[1].feedback]
    BY <1>2, <1>4, <1>6, <2>1 DEF Bodies, TypeOK
  <2>. QED  BY <1>4, <2>1, <2>2, <2>3, <2>4, <2>5 DEF HistoryIsTrue
<1>. QED  BY <1>7, <1>8, <1>9, <1>10, <1>11

LEMMA NextKeepsIInv == IInv /\ [Next]_vars => IInv'
<1>. SUFFICES ASSUME IInv, [Next]_vars PROVE IInv'  OBVIOUS
<1>1. CASE Next
  BY <1>1, QuietStepsKeepIInv, CommitKeepsIInv DEF Next, Serve
<1>2. CASE UNCHANGED vars
  BY <1>2 DEF IInv, vars, TypeOK, LockProtects, BodyIsSent, HistoryIsTrue,
              AnsweredIsRecorded, Reviewed, Reviewer
<1>. QED  BY <1>1, <1>2

\* The inductive invariant: locks protect what was read, bodies are sent, and
\* the three properties below.
THEOREM ReviewInvariant == Spec => []IInv
BY InitEstablishesIInv, NextKeepsIInv, PTL DEF Spec

\* Every variable keeps its type.
THEOREM ReviewTypeCorrect == Spec => []TypeOK
BY ReviewInvariant, PTL DEF IInv

\* The audit history tells the one transition of the report.
THEOREM HistoryIsAlwaysTrue == Spec => []HistoryIsTrue
BY ReviewInvariant, PTL DEF IInv

\* What a reviewer was told is recorded stays recorded.
THEOREM AnswersAreRecorded == Spec => []AnsweredIsRecorded
BY ReviewInvariant, PTL DEF IInv

-----------------------------------------------------------------------------
(* The dashboard *)

TabTypeOK ==
  /\ list \in [Tabs -> Statuses \union {None}]
  /\ drawer \in [Tabs -> Statuses \union {None}]
  /\ feedback \in [Tabs -> Feedbacks \union {None}]
  /\ awaited \in [Tabs -> Requests \union {None}]
  /\ refresh \in [Tabs -> [Slots -> Answers \union {"idle", "asked"}]]

\* A verdict under way to a tab is the recorded one, and review() refreshes
\* only after its request was answered.
ArrivesTrue ==
  \A t \in Tabs :
    /\ \A s \in Slots : refresh[t][s] \in Verdicts => refresh[t][s] = report.status
    /\ Refreshing(t) => awaited[t] \in Requests /\ pc[awaited[t]] = "reviewed"

TabInv == TabTypeOK /\ ArrivesTrue /\ ShownIsRecorded

-----------------------------------------------------------------------------
\* A step of a tab sends a request, or does nothing to the server.
LEMMA TabStepsAreReviews ==
  ASSUME TabTypeOK, NEW t \in Tabs, TabStep(t)
  PROVE  \/ UNCHANGED vars
         \/ \E q \in Requests, body \in Bodies : SendReview(q, body)
<1>1. CASE \E status \in Verdicts : Decide(t, status)
  <2>1. PICK status \in Verdicts : Decide(t, status)  BY <1>1
  <2>2. NewRequest(t) \in Requests
    BY <2>1, DashboardAssumption DEF Decide, NewRequest
  <2>3. SendReview(NewRequest(t), [status |-> status, feedback |-> feedback[t]])
    BY <2>1 DEF Decide
  <2>4. [status |-> status, feedback |-> feedback[t]] \in Bodies
    BY <2>1 DEF Decide, Bodies, TabTypeOK
  <2>. QED  BY <2>2, <2>3, <2>4
<1>2. CASE \/ StartRefresh(t) \/ OpenReport(t) \/ CloseReport(t) \/ TypeFeedback(t)
           \/ ReviewRecorded(t) \/ ReviewFails(t)
           \/ \E s \in Slots : ReadReports(t, s) \/ FinishRefresh(t, s) \/ FailRefresh(t, s)
  BY <1>2 DEF StartRefresh, OpenReport, CloseReport, TypeFeedback, ReviewRecorded,
              ReviewFails, ReadReports, FinishRefresh, FailRefresh
<1>. QED  BY <1>1, <1>2 DEF TabStep

LEMMA StepsAreReviews ==
  ASSUME TabTypeOK, [DashboardNext]_dashboardVars
  PROVE  [Next]_vars
<1>1. CASE ServerStep
  BY <1>1, DashboardAssumption DEF ServerStep, OtherReview, Next
<1>2. CASE \E t \in Tabs : TabStep(t)
  <2>1. PICK t \in Tabs : TabStep(t)  BY <1>2
  <2>. QED  BY <2>1, TabStepsAreReviews DEF Next
<1>3. CASE LeaveList \/ UNCHANGED dashboardVars
  BY <1>3 DEF LeaveList, dashboardVars, vars
<1>. QED  BY <1>1, <1>2, <1>3 DEF DashboardNext

\* A verdict, once recorded, and the answer to a review are final.
LEMMA ServerIsFinal ==
  ASSUME IInv, [Next]_vars
  PROVE  /\ report.status \in Verdicts => report' = report
         /\ \A q \in Requests : pc[q] = "reviewed" => pc'[q] = "reviewed" /\ asked'[q] = asked[q]
<1>. USE DEF IInv, TypeOK, Moves
<1>1. ASSUME NEW q \in Requests, NEW body \in Bodies, SendReview(q, body)
      PROVE  /\ report' = report
             /\ \A r \in Requests : pc[r] = "reviewed" => pc'[r] = "reviewed" /\ asked'[r] = asked[r]
  BY <1>1 DEF SendReview
<1>2. ASSUME NEW q \in Requests, Serve(q) \/ AbortReview(q)
      PROVE  /\ report.status \in Verdicts => report' = report
             /\ \A r \in Requests : pc[r] = "reviewed" => pc'[r] = "reviewed" /\ asked'[r] = asked[r]
  BY <1>2 DEF Serve, LockReport, RefuseReview, CommitReview, AbortReview, LockProtects, Verdicts
<1>3. CASE UNCHANGED vars  BY <1>3 DEF vars
<1>. QED  BY <1>1, <1>2, <1>3 DEF Next

\* Steps of tabs do not touch the report.
LEMMA TabStepsKeepReport ==
  ASSUME NEW t \in Tabs, TabStep(t)
  PROVE  report' = report
BY DEF TabStep, Decide, SendReview, StartRefresh, OpenReport, CloseReport, TypeFeedback,
       ReviewRecorded, ReviewFails, ReadReports, FinishRefresh, FailRefresh, vars

\* What a tab shows, and what is under way to it, becomes what the server says.
LEMMA TabStepKeepsTabInv ==
  ASSUME IInv, TabInv, [Next]_vars, NEW t \in Tabs, TabStep(t)
  PROVE  TabInv'
<1>. USE DEF TabInv, SetRefresh
<1>1. report' = report  BY TabStepsKeepReport
<1>2. \A q \in Requests : pc[q] = "reviewed" => pc'[q] = "reviewed" /\ asked'[q] = asked[q]
  BY ServerIsFinal
<1>3. report.status \in Statuses  BY DEF IInv, TypeOK, Reports
<1>4. ASSUME awaited[t] \in Requests, pc[awaited[t]] = "reviewed"
      PROVE  /\ asked[awaited[t]].status = report.status
             /\ report.status \in Statuses
  BY <1>3, <1>4 DEF IInv, AnsweredIsRecorded, Reviewed
<1>5. CASE StartRefresh(t)
  BY <1>1, <1>2, <1>5 DEF StartRefresh, TabTypeOK, ArrivesTrue, ShownIsRecorded, Refreshing,
                          Slots, Verdicts, vars
<1>6. ASSUME NEW s \in Slots, ReadReports(t, s)  PROVE TabInv'
  BY <1>1, <1>2, <1>3, <1>6 DEF ReadReports, TabTypeOK, ArrivesTrue, ShownIsRecorded, Refreshing,
                          Answers, Slots, Verdicts, vars
<1>7. ASSUME NEW s \in Slots, FinishRefresh(t, s) \/ FailRefresh(t, s)  PROVE TabInv'
  <2>. USE DEF FinishRefresh, FailRefresh, Reopen
  <2>1. s = "review" => Refreshing(t)
    BY <1>7 DEF Refreshing, Answers, Statuses, Verdicts
  <2>2. s = "review" => /\ asked[awaited[t]].status = report.status
                        /\ awaited[t] \in Requests
    BY <2>1, <1>4 DEF ArrivesTrue
  <2>3. TabTypeOK'
    <3>1. drawer' \in [Tabs -> Statuses \union {None}] /\ awaited' \in [Tabs -> Requests \union {None}]
      BY <1>3, <1>7, <2>2 DEF TabTypeOK, Selection, Answers
    <3>2. list' \in [Tabs -> Statuses \union {None}] /\ feedback' = feedback
      BY <1>7 DEF TabTypeOK, Entry, Answers
    <3>3. refresh' \in [Tabs -> [Slots -> Answers \union {"idle", "asked"}]]
      <4>1. refresh' = [refresh EXCEPT ![t][s] = "idle"]  BY <1>7
      <4>. HIDE DEF FinishRefresh, FailRefresh, SetRefresh, TabInv
      <4>. QED  BY <4>1 DEF TabInv, TabTypeOK
    <3>. QED  BY <3>1, <3>2, <3>3 DEF TabTypeOK
  <2>4. ArrivesTrue'
    BY <1>1, <1>2, <1>7 DEF TabTypeOK, ArrivesTrue, Refreshing, Slots, Verdicts, vars
  <2>5. ShownIsRecorded'
    BY <1>1, <1>7, <2>2 DEF TabTypeOK, ArrivesTrue, ShownIsRecorded, Entry, Selection, Answers,
                            Statuses, Verdicts, None
  <2>. QED  BY <2>3, <2>4, <2>5
<1>8. CASE OpenReport(t) \/ CloseReport(t) \/ TypeFeedback(t)
  <2>1. /\ UNCHANGED <<vars, list, awaited, refresh>>
        /\ drawer' \in [Tabs -> Statuses \union {None}]
        /\ \A u \in Tabs : drawer'[u] \in {drawer[u], list[u], None}
        /\ feedback' \in [Tabs -> Feedbacks \union {None}]
    BY <1>8 DEF OpenReport, CloseReport, TypeFeedback, TabTypeOK
  <2>2. TabTypeOK' /\ ArrivesTrue'
    BY <2>1 DEF TabTypeOK, ArrivesTrue, Refreshing, vars
  <2>3. ShownIsRecorded'
    BY <1>1, <2>1 DEF ShownIsRecorded, Verdicts, None
  <2>. QED  BY <2>2, <2>3
<1>9. ASSUME NEW status \in Verdicts, Decide(t, status)  PROVE TabInv'
  <2>1. NewRequest(t) \in Requests
    BY <1>9, DashboardAssumption DEF Decide, NewRequest
  <2>2. ~ Refreshing(t)
    BY <1>9, ReviewAssumption DEF Decide, Busy, ArrivesTrue
  <2>. QED
    BY <1>1, <1>2, <1>9, <2>1, <2>2 DEF Decide, TabTypeOK, ArrivesTrue, ShownIsRecorded, Refreshing
<1>10. CASE ReviewRecorded(t)
  <2>1. awaited[t] \in Requests /\ pc[awaited[t]] = "reviewed"
    BY <1>10 DEF ReviewRecorded, Busy, TabTypeOK
  <2>. QED
    BY <1>1, <1>2, <1>4, <1>10, <2>1 DEF ReviewRecorded, TabTypeOK, ArrivesTrue, ShownIsRecorded,
                           Refreshing, Slots, Verdicts, vars
<1>11. CASE ReviewFails(t)
  BY <1>1, <1>2, <1>11 DEF ReviewFails, TabTypeOK, ArrivesTrue, ShownIsRecorded, Refreshing, vars
<1>. QED  BY <1>5, <1>6, <1>7, <1>8, <1>9, <1>10, <1>11 DEF TabStep

LEMMA NextKeepsTabInv ==
  ASSUME IInv, TabInv, [DashboardNext]_dashboardVars
  PROVE  TabInv'
<1>1. [Next]_vars  BY StepsAreReviews DEF TabInv
<1>2. CASE ServerStep \/ LeaveList \/ UNCHANGED dashboardVars
  <2>1. UNCHANGED tabVars  BY <1>2 DEF ServerStep, LeaveList, dashboardVars, tabVars
  <2>2. report.status \in Verdicts => report' = report  BY <1>1, ServerIsFinal
  <2>3. \A q \in Requests : pc[q] = "reviewed" => pc'[q] = "reviewed"  BY <1>1, ServerIsFinal
  <2>4. TabTypeOK'  BY <2>1 DEF TabInv, TabTypeOK, tabVars
  <2>5. ArrivesTrue'
    BY <2>1, <2>2, <2>3 DEF TabInv, ArrivesTrue, Refreshing, tabVars
  <2>6. ShownIsRecorded'
    BY <2>1, <2>2 DEF TabInv, ShownIsRecorded, tabVars
  <2>. QED  BY <2>4, <2>5, <2>6 DEF TabInv
<1>3. CASE \E t \in Tabs : TabStep(t)
  BY <1>1, <1>3, TabStepKeepsTabInv
<1>. QED  BY <1>2, <1>3 DEF DashboardNext

LEMMA InitEstablishesTabInv == DashboardInit => TabInv
BY DEF DashboardInit, TabInv, TabTypeOK, ArrivesTrue, ShownIsRecorded, Refreshing, Slots,
       Verdicts, Statuses, None

\* The invariants of the server and of the tabs, together: those of the server
\* hold whatever tabs do.
THEOREM DashboardInvariant == DashboardSpec => [](IInv /\ TabInv)
<1>1. DashboardInit => IInv /\ TabInv
  BY InitEstablishesIInv, InitEstablishesTabInv DEF DashboardInit
<1>2. IInv /\ TabInv /\ [DashboardNext]_dashboardVars => (IInv /\ TabInv)'
  BY StepsAreReviews, NextKeepsIInv, NextKeepsTabInv DEF TabInv
<1>. QED  BY <1>1, <1>2, PTL DEF DashboardSpec

\* Tabs and other clients do with the server what ReportReview allows.
THEOREM DashboardImplementsReview == DashboardSpec => Spec
<1>1. DashboardInit => Init  BY DEF DashboardInit
<1>2. TabInv /\ [DashboardNext]_dashboardVars => [Next]_vars
  BY StepsAreReviews DEF TabInv
<1>. QED  BY <1>1, <1>2, DashboardInvariant, PTL DEF DashboardSpec, Spec

\* No tab ever shows a verdict that is not the recorded one.
THEOREM ShownIsAlwaysRecorded == DashboardSpec => []ShownIsRecorded
BY DashboardInvariant, PTL DEF TabInv
=================================================================================
