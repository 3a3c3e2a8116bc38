------------------------------ MODULE Dashboard ------------------------------
(***************************************************************************)
(* Tabs of the operator dashboard (src/dashboard/app/page.tsx) in front of *)
(* ReportReview, for one report.  A tab shows the status of the report     *)
(* twice, in its list and in its drawer, each from the last answer it      *)
(* handled.  Refreshes, by the timer, by a button and after a review, are  *)
(* read by the API and arrive in any order; a review that fails on the     *)
(* network may still be served.  Requests of no tab come from other        *)
(* clients.  A refresh asks for the hundred newest reports, and as others  *)
(* are written this one leaves them.                                       *)
(***************************************************************************)
EXTENDS ReportReview

CONSTANTS
  Tabs,
  RequestsOf   \* tab -> the requests it may send

ASSUME DashboardAssumption ==
  /\ RequestsOf \in [Tabs -> SUBSET Requests]
  /\ \A s, t \in Tabs : s # t => RequestsOf[s] \intersect RequestsOf[t] = {}

\* The two refreshes of a tab that may overlap: one by the timer or by the
\* button, and the one that a review waits for.
Slots == {"timer", "review"}

VARIABLES
  listed,    \* is the report among the newest that a refresh asks for?
  list,      \* the status in reports, None while it is not among them
  drawer,    \* the status in selectedReport, None while it is closed
  feedback,  \* the text in the drawer, None while blank
  awaited,   \* the request whose answer review() awaits
  refresh    \* a refresh: "idle", "asked", or the answer under way

tabVars == <<list, drawer, feedback, awaited, refresh>>

dashboardVars == <<report, events, lock, pc, asked, seen, listed,
                   list, drawer, feedback, awaited, refresh>>

DashboardInit ==
  /\ Init
  /\ listed = TRUE
  /\ list = [t \in Tabs |-> None]
  /\ drawer = [t \in Tabs |-> None]
  /\ feedback = [t \in Tabs |-> None]
  /\ awaited = [t \in Tabs |-> None]
  /\ refresh = [t \in Tabs |-> [s \in Slots |-> "idle"]]

\* Between the click on a decision and its outcome, buttons are disabled.
Busy(t) == awaited[t] # None

\* review() has its answer, and waits for refresh() before it opens the report.
Refreshing(t) == refresh[t]["review"] # "idle"

\* A request that the tab has not sent yet: they are all alike.
NewRequest(t) == CHOOSE q \in RequestsOf[t] : pc[q] = "unsent"

\* What the list of the newest reports says of this one.
Answers == Statuses \union {"unlisted"}

SetRefresh(t, s, value) == refresh' = [refresh EXCEPT ![t][s] = value]

-----------------------------------------------------------------------------
\* Every fifteen seconds, or by the button.
StartRefresh(t) ==
  /\ refresh[t]["timer"] = "idle"
  /\ SetRefresh(t, "timer", "asked")
  /\ UNCHANGED <<vars, listed, list, drawer, feedback, awaited>>

\* GET /investigation-reports reads what is committed, locked or not.
ReadReports(t, s) ==
  /\ refresh[t][s] = "asked"
  /\ SetRefresh(t, s, IF listed THEN report.status ELSE "unlisted")
  /\ UNCHANGED <<vars, listed, list, drawer, feedback, awaited>>

\* The report in a list of reports.
Entry(answer) == IF answer = "unlisted" THEN None ELSE answer

\* review() goes on after its refresh, failed or not: openReport(updated).
Reopen(t) ==
  /\ drawer' = [drawer EXCEPT ![t] = asked[awaited[t]].status]
  /\ awaited' = [awaited EXCEPT ![t] = None]

\* Mutant: an open drawer keeps the report as it was opened.
FinishRefreshOfList(t, s) ==
  /\ refresh[t][s] \in Answers
  /\ list' = [list EXCEPT ![t] = Entry(refresh[t][s])]
  /\ IF s = "review" THEN Reopen(t) ELSE UNCHANGED <<drawer, awaited>>
  /\ SetRefresh(t, s, "idle")
  /\ UNCHANGED <<vars, listed, feedback>>

\* The report in the drawer, if one is open: a list without it leaves it alone.
Selection(shown, answer) ==
  IF shown = None \/ answer = "unlisted" THEN shown ELSE answer

\* The answer replaces the list, and the report in an open drawer.
FinishRefresh(t, s) ==
  /\ refresh[t][s] \in Answers
  /\ list' = [list EXCEPT ![t] = Entry(refresh[t][s])]
  /\ IF s = "review" THEN Reopen(t)
     ELSE /\ drawer' = [drawer EXCEPT ![t] = Selection(@, refresh[t][s])]
          /\ UNCHANGED awaited
  /\ SetRefresh(t, s, "idle")
  /\ UNCHANGED <<vars, listed, feedback>>

\* One of the three answers is an error or does not come.
FailRefresh(t, s) ==
  /\ refresh[t][s] # "idle"
  /\ IF s = "review" THEN Reopen(t) ELSE UNCHANGED <<drawer, awaited>>
  /\ SetRefresh(t, s, "idle")
  /\ UNCHANGED <<vars, listed, list, feedback>>

OpenReport(t) ==
  /\ list[t] # None
  /\ drawer' = [drawer EXCEPT ![t] = list[t]]
  /\ UNCHANGED <<vars, listed, list, feedback, awaited, refresh>>

CloseReport(t) ==
  /\ drawer[t] # None
  /\ drawer' = [drawer EXCEPT ![t] = None]
  /\ UNCHANGED <<vars, listed, list, feedback, awaited, refresh>>

TypeFeedback(t) ==
  /\ drawer[t] = "pending_review"
  /\ \E text \in Feedbacks \union {None} : feedback' = [feedback EXCEPT ![t] = text]
  /\ UNCHANGED <<vars, listed, list, drawer, awaited, refresh>>

\* Mutant: the drawer shows the decision before it is recorded.
DecideOptimistically(t, status) ==
  /\ drawer[t] = "pending_review"
  /\ ~Busy(t)
  /\ \E q \in RequestsOf[t] : pc[q] = "unsent"
  /\ status = "rejected" => feedback[t] # None
  /\ SendReview(NewRequest(t), [status |-> status, feedback |-> feedback[t]])
  /\ awaited' = [awaited EXCEPT ![t] = NewRequest(t)]
  /\ drawer' = [drawer EXCEPT ![t] = status]
  /\ UNCHANGED <<listed, list, feedback, refresh>>

\* A click on one of the two buttons of a report shown as pending.
Decide(t, status) ==
  /\ drawer[t] = "pending_review"
  /\ ~Busy(t)
  /\ \E q \in RequestsOf[t] : pc[q] = "unsent"
  /\ status = "rejected" => feedback[t] # None
  /\ SendReview(NewRequest(t), [status |-> status, feedback |-> feedback[t]])
  /\ awaited' = [awaited EXCEPT ![t] = NewRequest(t)]
  /\ UNCHANGED <<listed, list, drawer, feedback, refresh>>

\* The answer to a review opens the report, whatever the tab shows by now.
ReviewRecorded(t) ==
  /\ Busy(t) /\ ~Refreshing(t)
  /\ pc[awaited[t]] = "reviewed"
  /\ drawer' = [drawer EXCEPT ![t] = asked[awaited[t]].status]
  /\ feedback' = [feedback EXCEPT ![t] = None]
  /\ SetRefresh(t, "review", "asked")
  /\ UNCHANGED <<vars, listed, list, awaited>>

\* A conflict, an error, or no answer, though the review may be served still.
ReviewFails(t) ==
  /\ Busy(t) /\ ~Refreshing(t)
  /\ awaited' = [awaited EXCEPT ![t] = None]
  /\ UNCHANGED <<vars, listed, list, drawer, feedback, refresh>>

\* Another client of the API.
OtherReview ==
  \E q \in Requests \ UNION {RequestsOf[t] : t \in Tabs}, body \in Bodies : SendReview(q, body)

ServerStep ==
  /\ OtherReview \/ \E q \in Requests : Serve(q) \/ AbortReview(q)
  /\ UNCHANGED <<listed, tabVars>>

\* So many reports are newer that a refresh does not ask for this one.
LeaveList ==
  /\ listed
  /\ listed' = FALSE
  /\ UNCHANGED <<vars, tabVars>>

TabStep(t) ==
  \/ StartRefresh(t)
  \/ \E s \in Slots : ReadReports(t, s) \/ FinishRefresh(t, s) \/ FailRefresh(t, s)
  \/ OpenReport(t)
  \/ CloseReport(t)
  \/ TypeFeedback(t)
  \/ \E status \in Verdicts : Decide(t, status)
  \/ ReviewRecorded(t)
  \/ ReviewFails(t)

DashboardNext == ServerStep \/ LeaveList \/ \E t \in Tabs : TabStep(t)

\* The database answers; the timer ticks; a request ends, and of the refreshes by
\* the timer some reach the API and some answers arrive.  No operator is obliged to anything.
DashboardFairness ==
  /\ \A q \in Requests : WF_dashboardVars(Serve(q) /\ UNCHANGED <<listed, tabVars>>)
  /\ \A t \in Tabs :
       /\ WF_dashboardVars(StartRefresh(t))
       /\ WF_dashboardVars(ReviewRecorded(t) \/ ReviewFails(t))
       /\ \A s \in Slots :
            WF_dashboardVars(ReadReports(t, s) \/ FinishRefresh(t, s) \/ FailRefresh(t, s))
       /\ SF_dashboardVars(ReadReports(t, "timer"))
       /\ SF_dashboardVars(FinishRefresh(t, "timer"))

DashboardSpec == DashboardInit /\ [][DashboardNext]_dashboardVars

DashboardFairSpec == DashboardSpec /\ DashboardFairness

-----------------------------------------------------------------------------
\* What a tab shows as decided has been decided so: no answer that comes late
\* or out of order, and no decision of its own, makes it show a verdict that is
\* not the recorded one.
ShownIsRecorded ==
  \A t \in Tabs : {list[t], drawer[t]} \intersect Verdicts \subseteq {report.status}

\* Every tab shows the recorded status in the end, in its list and in its
\* drawer, though an older answer may have put back the status before.  Of a
\* report that is not among the newest it drops the entry, for good; an open
\* drawer may then go on showing what it showed.
TabsCatchUp ==
  \A t \in Tabs :
    <>[](IF listed THEN list[t] = report.status /\ drawer[t] \in {None, report.status}
         ELSE list[t] = None)
==============================================================================
