---------------------------- MODULE ReportReview ----------------------------
(***************************************************************************)
(* The human review of one investigation report: review_investigation_     *)
(* report (services/investigation_reports.py) under PATCH /investigation-  *)
(* reports/{id}/review (api/investigation_reports.py).                     *)
(*                                                                         *)
(* A review is one transaction of three steps: it locks and reads the      *)
(* report, decides, and commits report and audit event together.  A        *)
(* request can die at any of them, its connection with it.  Whoever does   *)
(* not hear of a request may send the same decision, or another, in a new  *)
(* request, while the first one is still served.                           *)
(***************************************************************************)
EXTENDS Naturals, Sequences

CONSTANTS
  Requests,      \* requests, each served by a session of its own
  Subjects,      \* identities: of tokens, and named in request bodies
  SubjectOf,     \* request -> the subject of its token
  ClaimedBy,     \* request -> reviewed_by in its body
  Feedbacks,     \* texts a reviewer may write
  AuthEnabled    \* settings.auth_enabled

None == "none"

Verdicts == {"approved", "rejected"}

ASSUME ReviewAssumption ==
  /\ SubjectOf \in [Requests -> Subjects] /\ ClaimedBy \in [Requests -> Subjects]
  /\ None \notin Requests \union Subjects \union Feedbacks
  /\ AuthEnabled \in BOOLEAN

\* InvestigationReportReview: a rejection gives its reason.
Bodies ==
  {b \in [status : Verdicts, feedback : Feedbacks \union {None}] :
     b.status = "rejected" => b.feedback # None}

VARIABLES
  report,    \* the row of investigation_reports
  events,    \* investigation_review_events, in the order of their commits
  lock,      \* the request whose transaction has locked the report
  pc,        \* where a request is
  asked,     \* its body, none before it is sent and after it failed
  seen       \* the status its open transaction read

vars == <<report, events, lock, pc, asked, seen>>

NoBody == [status |-> None, feedback |-> None]

Pending == [status |-> "pending_review", by |-> None, feedback |-> None]

Reviewer(q) == IF AuthEnabled THEN SubjectOf[q] ELSE ClaimedBy[q]

Reviewed(q) ==
  [status |-> asked[q].status, by |-> Reviewer(q), feedback |-> asked[q].feedback]

Init ==
  /\ report = Pending
  /\ events = <<>>
  /\ lock = None
  /\ pc = [q \in Requests |-> "unsent"]
  /\ asked = [q \in Requests |-> NoBody]
  /\ seen = [q \in Requests |-> None]

-----------------------------------------------------------------------------
Moves(q, next) == pc' = [pc EXCEPT ![q] = next]

SendReview(q, body) ==
  /\ pc[q] = "unsent"
  /\ asked' = [asked EXCEPT ![q] = body]
  /\ Moves(q, "sent")
  /\ UNCHANGED <<report, events, lock, seen>>

\* Mutant: the report is read without a lock.
ReadReport(q) ==
  /\ pc[q] = "sent"
  /\ seen' = [seen EXCEPT ![q] = report.status]
  /\ Moves(q, "locked")
  /\ UNCHANGED <<report, events, lock, asked>>

\* SELECT .. FOR UPDATE: waits for the lock, then reads.
LockReport(q) ==
  /\ pc[q] = "sent"
  /\ lock = None
  /\ lock' = q
  /\ seen' = [seen EXCEPT ![q] = report.status]
  /\ Moves(q, "locked")
  /\ UNCHANGED <<report, events, asked>>

\* A report that is not pending any more: rollback, and 409.
RefuseReview(q) ==
  /\ pc[q] = "locked"
  /\ seen[q] # "pending_review"
  /\ lock' = None
  /\ Moves(q, "conflict")
  /\ seen' = [seen EXCEPT ![q] = None]
  /\ asked' = [asked EXCEPT ![q] = NoBody]
  /\ UNCHANGED <<report, events>>

\* Mutant: the event is built from the row before the review.
ReviewEventOfOldRow(q) ==
  [previous |-> seen[q], new |-> asked[q].status, by |-> report.by,
   feedback |-> asked[q].feedback]

ReviewEvent(q) ==
  [previous |-> seen[q], new |-> asked[q].status, by |-> Reviewer(q),
   feedback |-> asked[q].feedback]

\* Mutant: the answer precedes the commit, which may fail.
AnswerFirst(q) ==
  /\ pc[q] = "locked"
  /\ seen[q] = "pending_review"
  /\ \/ UNCHANGED <<report, events>>
     \/ report' = Reviewed(q) /\ events' = Append(events, ReviewEvent(q))
  /\ lock' = None
  /\ Moves(q, "reviewed")
  /\ seen' = [seen EXCEPT ![q] = None]
  /\ UNCHANGED asked

\* Report and event are committed together, then the request is answered.
CommitReview(q) ==
  /\ pc[q] = "locked"
  /\ seen[q] = "pending_review"
  /\ report' = Reviewed(q)
  /\ events' = Append(events, ReviewEvent(q))
  /\ lock' = None
  /\ Moves(q, "reviewed")
  /\ seen' = [seen EXCEPT ![q] = None]
  /\ UNCHANGED asked

\* Mutant: the lock outlives the request.
AbortKeepsLock(q) ==
  /\ pc[q] \in {"sent", "locked"}
  /\ Moves(q, "lost")
  /\ seen' = [seen EXCEPT ![q] = None]
  /\ asked' = [asked EXCEPT ![q] = NoBody]
  /\ UNCHANGED <<report, events, lock>>

\* The transaction fails, or the process and its session die: rollback.
AbortReview(q) ==
  /\ pc[q] \in {"sent", "locked"}
  /\ lock' = IF lock = q THEN None ELSE lock
  /\ Moves(q, "lost")
  /\ seen' = [seen EXCEPT ![q] = None]
  /\ asked' = [asked EXCEPT ![q] = NoBody]
  /\ UNCHANGED <<report, events>>

Serve(q) == LockReport(q) \/ RefuseReview(q) \/ CommitReview(q)

Next ==
  \E q \in Requests :
    \/ \E body \in Bodies : SendReview(q, body)
    \/ Serve(q)
    \/ AbortReview(q)

Spec == Init /\ [][Next]_vars

-----------------------------------------------------------------------------
Statuses == Verdicts \union {"pending_review"}

Reports ==
  [status : Statuses, by : Subjects \union {None}, feedback : Feedbacks \union {None}]

ReviewEvents ==
  [previous : Statuses, new : Verdicts, by : Subjects, feedback : Feedbacks \union {None}]

TypeOK ==
  /\ report \in Reports
  /\ events \in Seq(ReviewEvents)
  /\ lock \in Requests \union {None}
  /\ pc \in [Requests -> {"unsent", "sent", "locked", "reviewed", "conflict", "lost"}]
  /\ asked \in [Requests -> Bodies \union {NoBody}]
  /\ seen \in [Requests -> Statuses \union {None}]

\* The audit history tells the report's one transition: no event before it,
\* one after it, which agrees with the report in verdict, reviewer and
\* feedback, and, under authentication, names the holder of a token who asked
\* for it in a request that was committed.
HistoryIsTrue ==
  /\ Len(events) <= 1
  /\ report = Pending <=> events = <<>>
  /\ events # <<>> =>
       LET e == events[1] IN
         /\ e.previous = "pending_review"
         /\ report = [status |-> e.new, by |-> e.by, feedback |-> e.feedback]
         /\ AuthEnabled =>
              \E q \in Requests :
                /\ pc[q] = "reviewed"
                /\ SubjectOf[q] = e.by
                /\ asked[q] = [status |-> e.new, feedback |-> e.feedback]

\* A reviewer who was told that a review is recorded finds it so for ever: a
\* concurrent or a repeated request gets a conflict and overwrites nothing.
AnsweredIsRecorded ==
  \A q \in Requests : pc[q] = "reviewed" => report = Reviewed(q)

\* Every request that is sent comes to an answer or is lost: no lock outlives
\* its request.
RequestsEnd ==
  \A q \in Requests : pc[q] = "sent" ~> pc[q] \in {"reviewed", "conflict", "lost"}
=============================================================================
