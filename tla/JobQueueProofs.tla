--------------------------- MODULE JobQueueProofs ---------------------------
(***************************************************************************)
(* Theorems about JobQueue, for any jobs, workers and command lines, any   *)
(* limits on attempts, and any number of faults.                           *)
(*                                                                         *)
(* Whatever a step does, it moves each row of the jobs table in one of the *)
(* ways of RowMove; what the properties say of rows follows from RowMove   *)
(* alone, and what they say of workers from the shape of a worker's state. *)
(***************************************************************************)
EXTENDS JobQueue, TLAPS

\* The states of the asyncio tasks fit the place where the worker is.
WorkerShape ==
  /\ \A w \in Workers :
       /\ pc[w] = "running" <=> op[w] # None
       /\ pc[w] = "running" <=> hb[w] # None
       /\ pc[w] \in {"running", "fail", "requeue"} <=> task[w] # None
  /\ \A c \in Clis : cli[c] # "idle" => cliJob[c] # None

\* The ways a row, and the report that goes with it, can move in one step.
Written(r, s) ==
  \/ r.status = "absent" /\ s = NewRow("pending")
  \/ r.status = "pending"
     /\ s = [r EXCEPT !.status = "processing", !.error = None, !.completed = FALSE]
  \/ r.status = "pending" /\ s = StartRow(r)
  \/ r.status = "pending" /\ s = [r EXCEPT !.due = TRUE]
  \/ r.status = "processing" /\ s = CompleteRow(r)
  \/ r.status = "processing" /\ \E e \in Errors \ {None} : s = FailRow(r, e)
  \/ r.lease # None /\ \E l \in Leases \ {None} : s = [r EXCEPT !.lease = l]

Claimed(j, r, s) ==
  /\ r.status = "pending" \/ (r.status = "processing" /\ r.lease = "expired")
  /\ r.attempts < MaxAttempts[j]
  /\ \E w \in Workers : s = ClaimRow(r, w)

Retried(j, r, s) ==
  /\ r.status = "processing"
  /\ r.attempts < MaxAttempts[j]
  /\ s = RetryRow(r)

RowMove(j, r, s) ==
  \/ s = r
  \/ Written(r, s)
  \/ Claimed(j, r, s)
  \/ Retried(j, r, s)

ReportMove(j) ==
  \/ report'[j] = report[j]
  \/ /\ Processing(j) /\ report[j] = None
     /\ report'[j] # None
     /\ job'[j] = CompleteRow(job[j])

-----------------------------------------------------------------------------
(* Rows *)

LEMMA RowOperators ==
  ASSUME NEW r \in Row
  PROVE  /\ NewRow("pending") \in Row
         /\ \A w \in Workers : ClaimRow(r, w) \in Row
         /\ StartRow(r) \in Row
         /\ CompleteRow(r) \in Row
         /\ \A e \in Errors : FailRow(r, e) \in Row
         /\ RetryRow(r) \in Row
  <1>1. NewRow("pending") \in Row
    BY DEF Row, NewRow, Status, Leases, Errors
  <1>2. ASSUME NEW w \in Workers PROVE ClaimRow(r, w) \in Row
    <2>1. r.attempts \in Nat /\ r.attempts + 1 \in Nat
      BY DEF Row
    <2> QED
      BY <2>1 DEF Row, ClaimRow, Status, Leases, Errors
  <1>3. StartRow(r) \in Row
    BY DEF Row, StartRow, Status, Leases, Errors
  <1>4. CompleteRow(r) \in Row
    BY DEF Row, CompleteRow, Status, Terminal, Leases, Errors
  <1>5. ASSUME NEW e \in Errors PROVE FailRow(r, e) \in Row
    BY DEF Row, FailRow, Status, Terminal, Leases, Errors
  <1>6. RetryRow(r) \in Row
    BY DEF Row, RetryRow, Status, Leases, Errors
  <1> QED
    BY <1>1, <1>2, <1>3, <1>4, <1>5, <1>6

LEMMA MovedRow ==
  ASSUME NEW j \in Jobs, NEW r \in Row, NEW s, RowMove(j, r, s)
  PROVE  s \in Row
  <1>1. CASE s = [r EXCEPT !.status = "processing", !.error = None, !.completed = FALSE]
    BY <1>1 DEF Row, Status, Errors
  <1>2. CASE s = [r EXCEPT !.due = TRUE]
    BY <1>2 DEF Row
  <1>3. CASE \E l \in Leases \ {None} : s = [r EXCEPT !.lease = l]
    BY <1>3 DEF Row
  <1> QED
    BY <1>1, <1>2, <1>3, RowOperators DEF RowMove, Written, Claimed, Retried

\* The columns of a row agree again after any move, and a row that is over
\* does not move.
Agrees(r) ==
  /\ r.owner \in Workers <=> r.lease # None
  /\ r.owner # None => r.status = "processing"
  /\ r.completed <=> r.status \in Terminal
  /\ r.status = "failed" => r.error # None
  /\ r.status \in {"absent", "processing", "completed"} => r.error = None

LEMMA MovedRowAgrees ==
  ASSUME NEW j \in Jobs, NEW r \in Row, NEW s, Agrees(r), RowMove(j, r, s)
  PROVE  Agrees(s)
  <1> USE DEF Agrees, Row, Terminal, None
  <1>1. CASE r.status = "absent" /\ s = NewRow("pending")
    BY <1>1, QueueAssumption DEF NewRow
  <1>2. CASE r.status = "pending"
             /\ s = [r EXCEPT !.status = "processing", !.error = None, !.completed = FALSE]
    BY <1>2
  <1>3. CASE r.status = "pending" /\ s = StartRow(r)
    BY <1>3, QueueAssumption DEF StartRow, Direct
  <1>4. CASE r.status = "pending" /\ s = [r EXCEPT !.due = TRUE]
    BY <1>4
  <1>5. CASE s = CompleteRow(r)
    BY <1>5, QueueAssumption DEF CompleteRow
  <1>6. CASE \E e \in Errors \ {None} : s = FailRow(r, e)
    BY <1>6, QueueAssumption DEF FailRow
  <1>7. CASE r.lease # None /\ \E l \in Leases \ {None} : s = [r EXCEPT !.lease = l]
    BY <1>7
  <1>8. CASE Claimed(j, r, s)
    BY <1>8, QueueAssumption DEF Claimed, ClaimRow
  <1>9. CASE Retried(j, r, s)
    BY <1>9, QueueAssumption DEF Retried, RetryRow
  <1> QED
    BY <1>1, <1>2, <1>3, <1>4, <1>5, <1>6, <1>7, <1>8, <1>9 DEF RowMove, Written

-----------------------------------------------------------------------------
(* Every step moves rows and reports as RowMove and ReportMove say. *)

Moves ==
  /\ job' = [j \in Jobs |-> job'[j]]
  /\ \A j \in Jobs : RowMove(j, job[j], job'[j]) /\ ReportMove(j)

LEMMA OneRowMoves ==
  ASSUME TypeOK, NEW i \in Jobs, NEW s, RowMove(i, job[i], s),
         job' = [job EXCEPT ![i] = s], report' = report
  PROVE  Moves
  BY DEF TypeOK, Moves, RowMove, ReportMove

LEMMA NoRowMoves ==
  ASSUME TypeOK, UNCHANGED <<job, report>>
  PROVE  Moves
  BY DEF TypeOK, Moves, RowMove, ReportMove

LEMMA ReportedRowMoves ==
  ASSUME TypeOK, NEW i \in Jobs, CanPersist(i), NEW p \in Workers \union Clis,
         job' = [job EXCEPT ![i] = CompleteRow(job[i])],
         report' = [report EXCEPT ![i] = p]
  PROVE  Moves
  <1>1. p # None
    BY QueueAssumption
  <1>2. \A j \in Jobs : j # i => job'[j] = job[j] /\ report'[j] = report[j]
    BY DEF TypeOK
  <1>3. job'[i] = CompleteRow(job[i]) /\ report'[i] = p
    BY DEF TypeOK
  <1>4. ReportMove(i)
    BY <1>1, <1>3 DEF ReportMove, CanPersist
  <1>5. RowMove(i, job[i], job'[i])
    BY <1>3 DEF RowMove, Written, CanPersist, Processing
  <1>6. job' = [j \in Jobs |-> job'[j]]
    BY DEF TypeOK
  <1> QED
    BY <1>2, <1>4, <1>5, <1>6 DEF Moves, RowMove, ReportMove

\* The sweep at the head of a claim, and the claim itself.
LEMMA SweptRows ==
  ASSUME TypeOK, NEW j \in Jobs
  PROVE  /\ RowMove(j, job[j], Swept[j])
         /\ Available(j) => Swept[j] = job[j]
  <1>1. Available(j) => ~ Exhausted(j)
    <2>1. job[j].attempts \in Nat /\ MaxAttempts[j] \in Nat
      BY QueueAssumption DEF TypeOK, Row
    <2> QED
      BY <2>1 DEF Available, Exhausted
  <1>2. Swept[j] = IF Exhausted(j) THEN FailRow(job[j], "exhausted") ELSE job[j]
    BY DEF Swept
  <1>3. "exhausted" \in Errors \ {None}
    BY DEF Errors, None
  <1> QED
    BY <1>1, <1>2, <1>3 DEF RowMove, Written, Exhausted, Processing

LEMMA ClaimMoves ==
  ASSUME TypeOK, NEW w \in Workers, NEW i \in Jobs, NEW acked \in BOOLEAN,
         ClaimJob(w, i, acked)
  PROVE  Moves
  <1>1. /\ job' = [Swept EXCEPT ![i] = ClaimRow(job[i], w)]
        /\ Available(i)
        /\ report' = report
    BY SweptRows DEF ClaimJob
  <1>2. job' = [j \in Jobs |-> job'[j]]
    BY <1>1 DEF Swept
  <1>3. job'[i] = ClaimRow(job[i], w)
    BY <1>1 DEF Swept
  <1>4. RowMove(i, job[i], job'[i])
    BY <1>1, <1>3 DEF RowMove, Claimed, Available, Processing
  <1>5. \A j \in Jobs \ {i} : job'[j] = Swept[j]
    BY <1>1 DEF Swept
  <1> QED
    BY <1>1, <1>2, <1>4, <1>5, SweptRows DEF Moves, ReportMove

LEMMA ClaimNothingMoves ==
  ASSUME TypeOK, NEW w \in Workers, NEW acked \in BOOLEAN, ClaimNothing(w, acked)
  PROVE  Moves
  <1>1. job' = Swept /\ report' = report
    BY DEF ClaimNothing
  <1>2. job' = [j \in Jobs |-> job'[j]]
    BY <1>1 DEF Swept
  <1> QED
    BY <1>1, <1>2, SweptRows DEF Moves, ReportMove

\* A handler's transaction: it fails the row, or puts it back in the queue.
LEMMA SettleMoves ==
  ASSUME TypeOK, NEW w \in Workers, NEW acked \in BOOLEAN, task[w] \in Jobs,
         \/ Settle(w, FailRow(job[task[w]], "failure"), acked)
         \/ Settle(w, RequeueRow(task[w], job[task[w]]), acked)
  PROVE  Moves
  <1> DEFINE i == task[w]
  <1>1. CASE ~ Processing(i)
    <2>1. UNCHANGED <<job, report>>
      BY <1>1 DEF Settle
    <2> QED
      BY <2>1, NoRowMoves
  <1>2. CASE Processing(i)
    <2>1. PICK s : /\ job' = [job EXCEPT ![i] = s]
                   /\ report' = report
                   /\ s = FailRow(job[i], "failure") \/ s = RequeueRow(i, job[i])
      BY <1>2 DEF Settle
    <2>2. job[i].attempts \in Nat /\ MaxAttempts[i] \in Nat
      BY QueueAssumption DEF TypeOK, Row
    <2>3. {"failure", "transient"} \subseteq Errors \ {None}
      BY DEF Errors, None
    <2>4. RowMove(i, job[i], s)
      BY <1>2, <2>1, <2>2, <2>3
         DEF RequeueRow, RowMove, Written, Retried, Processing
    <2> QED
      BY <2>1, <2>4, OneRowMoves
  <1> QED
    BY <1>1, <1>2

LEMMA OperatorMoves ==
  ASSUME TypeOK, NEW i \in Jobs, OperatorStep(i)
  PROVE  Moves
  <1>1. CASE CreateJob(i)
    <2>1. RowMove(i, job[i], NewRow("pending"))
      BY <1>1 DEF CreateJob, RowMove, Written
    <2> QED
      BY <1>1, <2>1, OneRowMoves DEF CreateJob
  <1>2. ASSUME NEW target \in OperatorTargets, UpdateJobStatus(i, target)
        PROVE  Moves
    <2>1. job[i].status \in Status \ {"absent"}
      BY <1>2 DEF UpdateJobStatus, TypeOK, Row
    <2>2. \/ job[i].status = "pending" /\ target = "processing"
          \/ job[i].status = "processing" /\ target \in Terminal
      BY <1>2, <2>1 DEF UpdateJobStatus, ALLOWED_STATUS_TRANSITIONS
    <2>3. PICK s :
            /\ job' = [job EXCEPT ![i] = s]
            /\ s = CASE target = "processing" ->
                          [job[i] EXCEPT !.status = target, !.error = None,
                                         !.completed = FALSE]
                     [] target = "completed" -> CompleteRow(job[i])
                     [] target = "failed"    -> FailRow(job[i], "operator")
            /\ report' = report
      BY <1>2 DEF UpdateJobStatus
    <2>4. "operator" \in Errors \ {None}
      BY DEF Errors, None
    <2>5. RowMove(i, job[i], s)
      BY <2>2, <2>3, <2>4 DEF RowMove, Written, Terminal
    <2> QED
      BY <2>3, <2>5, OneRowMoves
  <1> QED
    BY <1>1, <1>2 DEF OperatorStep

LEMMA TimeMoves ==
  ASSUME TypeOK, NEW i \in Jobs, TimeStep(i)
  PROVE  Moves
  <1>1. CASE ExpireLease(i)
    <2>1. RowMove(i, job[i], [job[i] EXCEPT !.lease = "expired"])
      BY <1>1 DEF ExpireLease, RowMove, Written, Leases, None
    <2> QED
      BY <1>1, <2>1, OneRowMoves DEF ExpireLease
  <1>2. CASE BecomeDue(i)
    <2>1. RowMove(i, job[i], [job[i] EXCEPT !.due = TRUE])
      BY <1>2 DEF BecomeDue, RowMove, Written
    <2> QED
      BY <1>2, <2>1, OneRowMoves DEF BecomeDue
  <1> QED
    BY <1>1, <1>2 DEF TimeStep

LEMMA WorkerMoves ==
  ASSUME TypeOK, WorkerShape, RowsAgree, NEW w \in Workers, WorkerStep(w)
  PROVE  Moves
  <1>1. task[w] # None => task[w] \in Jobs
    BY DEF TypeOK
  <1>2. ASSUME NEW acked \in BOOLEAN, Persist(w, acked) PROVE Moves
    <2>1. task[w] \in Jobs
      BY <1>1, <1>2 DEF Persist, WorkerShape
    <2>2. CASE CanPersist(task[w])
      BY <1>2, <2>1, <2>2, ReportedRowMoves DEF Persist
    <2>3. CASE ~ CanPersist(task[w])
      BY <1>2, <2>3, NoRowMoves DEF Persist
    <2> QED
      BY <2>2, <2>3
  <1>3. ASSUME NEW acked \in BOOLEAN, Heartbeat(w, acked) PROVE Moves
    <2> DEFINE i == task[w]
    <2>1. i \in Jobs
      BY <1>1, <1>3 DEF Heartbeat, WorkerShape
    <2>2. CASE Renewable(w, i)
      <3>1. job[i].lease # None
        BY <2>1, <2>2 DEF Renewable, RowsAgree
      <3>2. RowMove(i, job[i], [job[i] EXCEPT !.lease = "live"])
        BY <3>1 DEF RowMove, Written, Leases, None
      <3> QED
        BY <1>3, <2>1, <2>2, <3>2, OneRowMoves DEF Heartbeat
    <2>3. CASE ~ Renewable(w, i)
      BY <1>3, <2>3, NoRowMoves DEF Heartbeat
    <2> QED
      BY <2>2, <2>3
  <1>4. ASSUME NEW acked \in BOOLEAN, MarkFailed(w, acked) \/ Requeue(w, acked)
        PROVE  Moves
    BY <1>1, <1>4, SettleMoves DEF MarkFailed, Requeue, WorkerShape
  <1>5. ASSUME \/ \E result \in {"persist", "transient", "error"} : WorkflowEnds(w, result)
               \/ HeartbeatLost(w) \/ OperationReturns(w) \/ OperationRaises(w)
               \/ TransactionFails(w) \/ Crash(w) \/ Restart(w)
        PROVE  Moves
    BY <1>5, NoRowMoves
       DEF WorkflowEnds, HeartbeatLost, OperationReturns, OperationRaises,
           TransactionFails, Crash, Restart
  <1> QED
    BY <1>2, <1>3, <1>4, <1>5, ClaimMoves, ClaimNothingMoves DEF WorkerStep

LEMMA CliMoves ==
  ASSUME TypeOK, WorkerShape, NEW c \in Clis, CliStep(c)
  PROVE  Moves
  <1>1. ASSUME NEW i \in Jobs, CliStart(c, i) PROVE Moves
    <2>1. RowMove(i, job[i], StartRow(job[i]))
      BY <1>1 DEF CliStart, RowMove, Written
    <2> QED
      BY <1>1, <2>1, OneRowMoves DEF CliStart
  <1>2. cli[c] # "idle" => cliJob[c] \in Jobs
    BY DEF TypeOK, WorkerShape
  <1>3. CASE CliPersist(c)
    <2>1. cliJob[c] \in Jobs
      BY <1>2, <1>3 DEF CliPersist
    <2>2. CASE CanPersist(cliJob[c])
      BY <1>3, <2>1, <2>2, ReportedRowMoves DEF CliPersist
    <2>3. CASE ~ CanPersist(cliJob[c])
      BY <1>3, <2>3, NoRowMoves DEF CliPersist
    <2> QED
      BY <2>2, <2>3
  <1>4. CASE CliMarkFailed(c)
    <2> DEFINE i == cliJob[c]
    <2>1. i \in Jobs
      BY <1>2, <1>4 DEF CliMarkFailed
    <2>2. CASE Processing(i)
      <3>1. "failure" \in Errors \ {None}
        BY DEF Errors, None
      <3>2. RowMove(i, job[i], FailRow(job[i], "failure"))
        BY <2>2, <3>1 DEF RowMove, Written, Processing
      <3> QED
        BY <1>4, <2>1, <2>2, <3>2, OneRowMoves DEF CliMarkFailed
    <2>3. CASE ~ Processing(i)
      BY <1>4, <2>3, NoRowMoves DEF CliMarkFailed
    <2> QED
      BY <2>2, <2>3
  <1>5. ASSUME \/ \E next \in {"persist", "fail"} : CliWorkflowEnds(c, next)
               \/ CliAborts(c)
        PROVE  Moves
    BY <1>5, NoRowMoves DEF CliWorkflowEnds, CliAborts
  <1> QED
    BY <1>1, <1>3, <1>4, <1>5 DEF CliStep

LEMMA NextMoves ==
  ASSUME TypeOK, WorkerShape, RowsAgree, [Next]_vars
  PROVE  Moves
  <1>1. CASE Next
    BY <1>1, OperatorMoves, TimeMoves, WorkerMoves, CliMoves DEF Next
  <1>2. CASE UNCHANGED vars
    BY <1>2, NoRowMoves DEF vars
  <1> QED
    BY <1>1, <1>2
-----------------------------------------------------------------------------
(* The state of the processes keeps its type and shape. *)

WorkersOK ==
  /\ pc   \in [Workers -> {"polling", "running", "fail", "requeue", "stopped"}]
  /\ task \in [Workers -> Jobs \union {None}]
  /\ op   \in [Workers -> {None, "workflow", "persist", "transient", "error",
                           "committed"}]
  /\ hb   \in [Workers -> {None, "beating", "lost"}]
  /\ \A v \in Workers :
       /\ pc[v] = "running" <=> op[v] # None
       /\ pc[v] = "running" <=> hb[v] # None
       /\ pc[v] \in {"running", "fail", "requeue"} <=> task[v] # None

LEMMA LeavingKeepsShape ==
  ASSUME TypeOK, WorkerShape, NEW w \in Workers, NEW next,
         \/ LeaveJob(w, next) /\ next \in {"polling", "stopped"}
         \/ LeaveTasks(w, next) /\ next \in {"fail", "requeue"} /\ pc[w] = "running"
  PROVE  WorkersOK'
  BY DEF LeaveJob, LeaveTasks, TypeOK, WorkerShape, WorkersOK, None

LEMMA WorkerStepKeepsWorkers ==
  ASSUME TypeOK, WorkerShape, NEW w \in Workers, WorkerStep(w)
  PROVE  WorkersOK'
  <1> USE DEF WorkersOK
  <1>1. ASSUME NEW j \in Jobs, NEW acked \in BOOLEAN, ClaimJob(w, j, acked)
        PROVE  WorkersOK'
    <2>1. CASE ~ acked
      BY <1>1, <2>1, LeavingKeepsShape DEF ClaimJob
    <2>2. CASE acked /\ j \in KnownJobs
      BY <1>1, <2>2, QueueAssumption DEF ClaimJob, TypeOK, WorkerShape, None
    <2>3. CASE acked /\ j \notin KnownJobs
      BY <1>1, <2>3, QueueAssumption DEF ClaimJob, TypeOK, WorkerShape, None
    <2> QED
      BY <2>1, <2>2, <2>3
  <1>2. ASSUME NEW acked \in BOOLEAN, ClaimNothing(w, acked) PROVE WorkersOK'
    BY <1>2, LeavingKeepsShape DEF ClaimNothing, TypeOK, WorkerShape, workerVars
  <1>3. ASSUME NEW acked \in BOOLEAN, Persist(w, acked) PROVE WorkersOK'
    BY <1>3 DEF Persist, TypeOK, WorkerShape, None
  <1>4. ASSUME NEW acked \in BOOLEAN, Heartbeat(w, acked) PROVE WorkersOK'
    BY <1>4 DEF Heartbeat, TypeOK, WorkerShape, None
  <1>5. ASSUME NEW acked \in BOOLEAN, MarkFailed(w, acked) \/ Requeue(w, acked)
        PROVE  WorkersOK'
    BY <1>5, LeavingKeepsShape DEF MarkFailed, Requeue, Settle
  <1>6. ASSUME NEW result \in {"persist", "transient", "error"}, WorkflowEnds(w, result)
        PROVE  WorkersOK'
    BY <1>6 DEF WorkflowEnds, TypeOK, WorkerShape, None
  <1>7. CASE HeartbeatLost(w) \/ OperationReturns(w) \/ OperationRaises(w) \/ Crash(w)
    BY <1>7, LeavingKeepsShape
       DEF HeartbeatLost, OperationReturns, OperationRaises, Crash
  <1>8. CASE TransactionFails(w)
    <2>1. CASE LeaveJob(w, "stopped")
      BY <2>1, LeavingKeepsShape
    <2>2. CASE ~ LeaveJob(w, "stopped")
      BY <1>8, <2>2 DEF TransactionFails, TypeOK, WorkerShape, None
    <2> QED
      BY <2>1, <2>2
  <1>9. CASE Restart(w)
    BY <1>9 DEF Restart, TypeOK, WorkerShape
  <1> QED
    BY <1>1, <1>2, <1>3, <1>4, <1>5, <1>6, <1>7, <1>8, <1>9 DEF WorkerStep

LEMMA NextKeepsTypes ==
  ASSUME TypeOK, WorkerShape, RowsAgree, [Next]_vars
  PROVE  TypeOK' /\ WorkerShape'
  <1>1. Moves
    BY NextMoves
  <1>2. job' \in [Jobs -> Row]
    <2>1. \A j \in Jobs : job'[j] \in Row
      BY <1>1, MovedRow DEF Moves, TypeOK
    <2> QED
      BY <1>1, <2>1 DEF Moves
  <1>3. CASE \E w \in Workers : WorkerStep(w)
    <2>1. PICK w \in Workers : WorkerStep(w)
      BY <1>3
    <2>2. report' \in [Jobs -> Workers \union Clis \union {None}]
      BY <2>1
         DEF WorkerStep, TypeOK, ClaimJob, ClaimNothing, Persist, Heartbeat,
             MarkFailed, Requeue, Settle, WorkflowEnds, HeartbeatLost,
             OperationReturns, OperationRaises, TransactionFails, Crash, Restart
    <2>3. faults' \in 0..MaxFaults
      BY <2>1, QueueAssumption
         DEF WorkerStep, TypeOK, ClaimJob, ClaimNothing, Persist, Heartbeat,
             MarkFailed, Requeue, Settle, WorkflowEnds, HeartbeatLost, Ack, Fault,
             OperationReturns, OperationRaises, TransactionFails, Crash, Restart
    <2>4. UNCHANGED cliVars
      BY <2>1
         DEF WorkerStep, ClaimJob, ClaimNothing, Persist, Heartbeat,
             MarkFailed, Requeue, Settle, WorkflowEnds, HeartbeatLost,
             OperationReturns, OperationRaises, TransactionFails, Crash, Restart
    <2> QED
      BY <1>2, <2>1, <2>2, <2>3, <2>4, WorkerStepKeepsWorkers
         DEF TypeOK, WorkerShape, WorkersOK, cliVars
  <1>4. CASE \E c \in Clis : CliStep(c)
    <2>1. PICK c \in Clis : CliStep(c)
      BY <1>4
    <2>2. report' \in [Jobs -> Workers \union Clis \union {None}]
      BY <2>1 DEF CliStep, TypeOK, CliStart, CliWorkflowEnds, CliPersist,
                  CliMarkFailed, CliAborts
    <2>3. /\ cli' \in [Clis -> {"idle", "workflow", "persist", "fail", "exited"}]
          /\ cliJob' \in [Clis -> Jobs \union {None}]
          /\ \A d \in Clis : cli'[d] # "idle" => cliJob'[d] # None
      BY <2>1, QueueAssumption
         DEF CliStep, TypeOK, WorkerShape, CliStart, CliWorkflowEnds, CliPersist,
             CliMarkFailed, CliAborts, CliExits
    <2>4. faults' \in 0..MaxFaults
      BY <2>1, QueueAssumption
         DEF CliStep, TypeOK, CliStart, CliWorkflowEnds, CliPersist,
             CliMarkFailed, CliAborts, Fault
    <2>5. UNCHANGED workerVars
      BY <2>1 DEF CliStep, CliStart, CliWorkflowEnds, CliPersist, CliMarkFailed,
                  CliAborts
    <2> QED
      BY <1>2, <2>2, <2>3, <2>4, <2>5 DEF TypeOK, WorkerShape, workerVars
  <1>5. CASE \/ \E j \in Jobs : OperatorStep(j) \/ TimeStep(j)
             \/ UNCHANGED vars
    <2>1. UNCHANGED <<report, workerVars, cliVars, faults>>
      BY <1>5 DEF OperatorStep, TimeStep, CreateJob, UpdateJobStatus, ExpireLease,
                  BecomeDue, vars
    <2> QED
      BY <1>2, <2>1 DEF TypeOK, WorkerShape, workerVars, cliVars
  <1> QED
    BY <1>3, <1>4, <1>5 DEF Next

-----------------------------------------------------------------------------
(* The inductive invariant *)

\* A row that was never inserted has spent no attempts.
AbsentIsNew ==
  \A j \in Jobs : job[j].status = "absent" => job[j].attempts = 0

IInv ==
  /\ TypeOK
  /\ WorkerShape
  /\ RowsAgree
  /\ QueuedHasAttempts
  /\ ReportedIsCompleted
  /\ CommittedIsDurable
  /\ AbsentIsNew

LEMMA WrittenAttempts ==
  ASSUME NEW r \in Row, NEW s, Written(r, s), r.status = "absent" => r.attempts = 0
  PROVE  /\ s.attempts = r.attempts
         /\ s.owner = r.owner \/ s.owner \in {None, Direct}
         /\ s.status = "absent" => r.status = "absent"
         /\ s.status = "pending" => r.status = "pending" \/ s.attempts = 0
  <1> USE DEF Row, Terminal
  <1>1. CASE r.status = "absent" /\ s = NewRow("pending")
    BY <1>1 DEF NewRow
  <1>2. CASE s = [r EXCEPT !.status = "processing", !.error = None, !.completed = FALSE]
    BY <1>2
  <1>3. CASE s = StartRow(r)
    BY <1>3 DEF StartRow
  <1>4. CASE s = [r EXCEPT !.due = TRUE]
    BY <1>4
  <1>5. CASE s = CompleteRow(r)
    BY <1>5 DEF CompleteRow
  <1>6. CASE \E e \in Errors \ {None} : s = FailRow(r, e)
    BY <1>6 DEF FailRow
  <1>7. CASE \E l \in Leases \ {None} : s = [r EXCEPT !.lease = l]
    BY <1>7
  <1> QED
    BY <1>1, <1>2, <1>3, <1>4, <1>5, <1>6, <1>7 DEF Written

LEMMA InitIInv == ASSUME Init PROVE IInv
  <1>1. TypeOK /\ WorkerShape
    BY QueueAssumption
       DEF Init, TypeOK, WorkerShape, Row, NewRow, Status, Leases, Errors, None
  <1>2. RowsAgree /\ QueuedHasAttempts /\ AbsentIsNew
    BY QueueAssumption
       DEF Init, RowsAgree, QueuedHasAttempts, AbsentIsNew, NewRow, Terminal, None
  <1>3. ReportedIsCompleted /\ CommittedIsDurable
    BY DEF Init, ReportedIsCompleted, CommittedIsDurable, None
  <1> QED
    BY <1>1, <1>2, <1>3 DEF IInv

\* A worker comes to "committed" by persisting its report, and a report stays.
LEMMA NextKeepsCommitted ==
  ASSUME IInv, [Next]_vars
  PROVE  CommittedIsDurable'
  <1> SUFFICES ASSUME NEW w \in Workers, op'[w] = "committed"
               PROVE  report'[task'[w]] = w
    BY DEF CommittedIsDurable
  <1>1. Moves
    BY NextMoves DEF IInv
  <1>2. w # None
    BY QueueAssumption
  <1>3. CASE op[w] = "committed" /\ task'[w] = task[w]
    <2>1. task[w] \in Jobs
      BY <1>3 DEF IInv, TypeOK, WorkerShape, None
    <2>2. report[task[w]] = w
      BY <1>3 DEF IInv, CommittedIsDurable
    <2> QED
      BY <1>1, <1>2, <1>3, <2>1, <2>2 DEF Moves, ReportMove
  <1>4. CASE \E acked \in BOOLEAN : Persist(w, acked)
    <2>1. task[w] \in Jobs
      BY <1>4 DEF Persist, IInv, TypeOK, WorkerShape, None
    <2> QED
      BY <1>4, <2>1 DEF Persist, IInv, TypeOK
  <1>5. op[w] # "committed" \/ task'[w] # task[w]
        => \E acked \in BOOLEAN : Persist(w, acked)
    <2>1. CASE UNCHANGED workerVars
      BY <2>1 DEF workerVars
    <2>2. ASSUME NEW v \in Workers, WorkerStep(v), v # w
          PROVE  op'[w] = op[w] /\ task'[w] = task[w]
      BY <2>2 DEF IInv, TypeOK, WorkerStep, ClaimJob, ClaimNothing, Persist, Heartbeat,
             MarkFailed, Requeue, Settle, WorkflowEnds, HeartbeatLost, LeaveJob,
             LeaveTasks, workerVars, OperationReturns, OperationRaises,
             TransactionFails, Crash, Restart
    <2>3. ASSUME WorkerStep(w)
          PROVE  \/ op[w] = "committed" /\ task'[w] = task[w]
                 \/ \E acked \in BOOLEAN : Persist(w, acked)
      BY <2>3 DEF IInv, TypeOK, WorkerStep, ClaimJob, ClaimNothing, Heartbeat,
             MarkFailed, Requeue, Settle, WorkflowEnds, HeartbeatLost, LeaveJob,
             LeaveTasks, workerVars, OperationReturns, OperationRaises,
             TransactionFails, Crash, Restart, None, WorkerShape
    <2>4. ~ (\E v \in Workers : WorkerStep(v)) => UNCHANGED workerVars
      BY DEF Next, OperatorStep, TimeStep, CreateJob, UpdateJobStatus, ExpireLease,
             BecomeDue, vars, CliStep, CliStart, CliWorkflowEnds, CliPersist,
             CliMarkFailed, CliAborts
    <2> QED
      BY <2>1, <2>2, <2>3, <2>4
  <1> QED
    BY <1>3, <1>4, <1>5

LEMMA NextIInv == ASSUME IInv, [Next]_vars PROVE IInv'
  <1>1. Moves
    BY NextMoves DEF IInv
  <1>2. TypeOK' /\ WorkerShape'
    BY NextKeepsTypes DEF IInv
  <1>3. RowsAgree'
    <2>1. \A j \in Jobs : Agrees(job'[j])
      BY <1>1, MovedRowAgrees DEF IInv, Moves, RowsAgree, Agrees, TypeOK
    <2> QED
      BY <2>1 DEF RowsAgree, Agrees
  <1>4. QueuedHasAttempts'
    <2> SUFFICES ASSUME NEW j \in Jobs
                 PROVE  /\ job'[j].attempts <= MaxAttempts[j]
                        /\ job'[j].status = "pending"
                           => job'[j].attempts < MaxAttempts[j]
      BY DEF QueuedHasAttempts
    <2> DEFINE r == job[j]
               s == job'[j]
    <2>1. /\ r \in Row
          /\ r.attempts \in Nat /\ MaxAttempts[j] \in 1..10
          /\ r.attempts <= MaxAttempts[j]
          /\ r.status = "pending" => r.attempts < MaxAttempts[j]
          /\ r.status = "absent" => r.attempts = 0
      BY QueueAssumption DEF IInv, TypeOK, Row, QueuedHasAttempts, AbsentIsNew
    <2>2. RowMove(j, r, s)
      BY <1>1 DEF Moves
    <2>3. CASE Written(r, s)
      BY <2>1, <2>3, WrittenAttempts
    <2>4. CASE Claimed(j, r, s)
      BY <2>1, <2>4 DEF Claimed, Row, ClaimRow
    <2>5. CASE Retried(j, r, s)
      BY <2>1, <2>5 DEF Retried, Row, RetryRow
    <2> QED
      BY <2>1, <2>2, <2>3, <2>4, <2>5 DEF RowMove
  <1>5. ReportedIsCompleted'
    <2> SUFFICES ASSUME NEW j \in Jobs, report'[j] # None
                 PROVE  job'[j].status = "completed"
      BY DEF ReportedIsCompleted
    <2>1. job[j] \in Row
      BY DEF IInv, TypeOK
    <2>2. CASE report'[j] = report[j]
      <3>1. job[j].status = "completed" /\ job[j].lease = None
        BY <2>1, <2>2, QueueAssumption
           DEF IInv, ReportedIsCompleted, RowsAgree, Row
      <3>2. job'[j] = job[j]
        BY <1>1, <3>1 DEF Moves, RowMove, Written, Claimed, Retried
      <3> QED
        BY <3>1, <3>2
    <2>3. CASE job'[j] = CompleteRow(job[j])
      BY <2>1, <2>3 DEF CompleteRow, Row
    <2> QED
      BY <1>1, <2>2, <2>3 DEF Moves, ReportMove
  <1>6. AbsentIsNew'
    <2> SUFFICES ASSUME NEW j \in Jobs, job'[j].status = "absent"
                 PROVE  job'[j].attempts = 0
      BY DEF AbsentIsNew
    <2> DEFINE r == job[j]
               s == job'[j]
    <2>1. r \in Row /\ (r.status = "absent" => r.attempts = 0)
      BY DEF IInv, TypeOK, AbsentIsNew
    <2>2. CASE Written(r, s)
      BY <2>1, <2>2, WrittenAttempts
    <2>3. CASE Claimed(j, r, s) \/ Retried(j, r, s)
      BY <2>1, <2>3 DEF Claimed, ClaimRow, Retried, RetryRow, Row
    <2> QED
      BY <1>1, <2>1, <2>2, <2>3 DEF Moves, RowMove
  <1> QED
    BY <1>2, <1>3, <1>4, <1>5, <1>6, NextKeepsCommitted DEF IInv

-----------------------------------------------------------------------------
(* Theorems *)

\* The inductive invariant holds, and with it the safety invariants of rows,
\* attempts, reports and acknowledged commits.
THEOREM QueueInvariant == Spec => []IInv
  <1>1. Init => IInv
    BY InitIInv
  <1>2. IInv /\ [Next]_vars => IInv'
    BY NextIInv
  <1> QED
    BY <1>1, <1>2, PTL DEF Spec

\* The variables of the queue keep their types.
THEOREM TypeCorrect == Spec => []TypeOK
  <1>1. IInv => TypeOK
    BY DEF IInv
  <1> QED
    BY <1>1, QueueInvariant, PTL

\* Owner, lease, status, completion time and message of a row always agree.
THEOREM RowsAlwaysAgree == Spec => []RowsAgree
  <1>1. IInv => RowsAgree
    BY DEF IInv
  <1> QED
    BY <1>1, QueueInvariant, PTL

\* No path puts a job in the queue with its attempts used up.
THEOREM QueuedJobsHaveAttempts == Spec => []QueuedHasAttempts
  <1>1. IInv => QueuedHasAttempts
    BY DEF IInv
  <1> QED
    BY <1>1, QueueInvariant, PTL

\* A report exists for completed jobs only.
THEOREM ReportsAreOfCompletedJobs == Spec => []ReportedIsCompleted
  <1>1. IInv => ReportedIsCompleted
    BY DEF IInv
  <1> QED
    BY <1>1, QueueInvariant, PTL

\* A report whose commit was acknowledged stays, with its author.
THEOREM CommittedReportsAreDurable == Spec => []CommittedIsDurable
  <1>1. IInv => CommittedIsDurable
    BY DEF IInv
  <1> QED
    BY <1>1, QueueInvariant, PTL

\* Nothing touches a finished job or its report.
THEOREM FinishedJobsAreFrozen == Spec => FinishedIsFrozen
  <1>1. ASSUME IInv, [Next]_vars
        PROVE  \A j \in Jobs :
                 /\ job[j].status \in Terminal => job'[j] = job[j]
                 /\ report[j] # None => report'[j] = report[j]
    <2> SUFFICES ASSUME NEW j \in Jobs
                 PROVE  /\ job[j].status \in Terminal => job'[j] = job[j]
                        /\ report[j] # None => report'[j] = report[j]
      OBVIOUS
    <2>1. RowMove(j, job[j], job'[j]) /\ ReportMove(j)
      BY <1>1, NextMoves DEF IInv, Moves
    <2>2. job[j].status \in Terminal => job[j].lease = None
      BY <1>1, QueueAssumption DEF IInv, TypeOK, RowsAgree, Row, Terminal
    <2> QED
      BY <2>1, <2>2 DEF RowMove, ReportMove, Written, Claimed, Retried, Terminal
  <1> QED
    BY <1>1, QueueInvariant, PTL DEF Spec, FinishedIsFrozen

\* A worker gets a row only where no live lease protects it, for one attempt.
THEOREM NoDoubleClaims == Spec => ClaimsAreExclusive
  <1> DEFINE Exclusive(j) ==
        /\ job'[j].owner \in Workers /\ job'[j].owner # job[j].owner =>
             /\ job[j].owner \in Workers => job[j].lease = "expired"
             /\ job'[j].attempts = job[j].attempts + 1
        /\ job'[j].attempts # job[j].attempts =>
             /\ job'[j].attempts = job[j].attempts + 1
             /\ job'[j].owner \in Workers /\ job'[j].lease = "live"
  <1>1. ASSUME IInv, [Next]_vars
        PROVE  \A j \in Jobs : Exclusive(j)
    <2> SUFFICES ASSUME NEW j \in Jobs PROVE Exclusive(j)
      OBVIOUS
    <2> DEFINE r == job[j]
               s == job'[j]
    <2>1. RowMove(j, r, s)
      BY <1>1, NextMoves DEF IInv, Moves
    <2>2. /\ r \in Row /\ r.attempts \in Nat /\ r.attempts + 1 # r.attempts
          /\ r.status = "absent" => r.attempts = 0
      BY <1>1 DEF IInv, TypeOK, Row, AbsentIsNew
    <2>3. r.status = "pending" => r.owner = None
      BY <1>1 DEF IInv, RowsAgree
    <2>4. CASE Claimed(j, r, s)
      <3>1. /\ s.attempts = r.attempts + 1
            /\ s.owner \in Workers /\ s.lease = "live"
        BY <2>2, <2>4 DEF Claimed, ClaimRow, Row
      <3>2. r.owner \in Workers => r.lease = "expired"
        BY <2>3, <2>4, QueueAssumption DEF Claimed
      <3> QED
        BY <3>1, <3>2
    <2>5. CASE Written(r, s)
      BY <2>2, <2>5, WrittenAttempts, QueueAssumption
    <2>6. CASE Retried(j, r, s)
      BY <2>2, <2>6, QueueAssumption DEF Retried, RetryRow, Row
    <2> QED
      BY <2>1, <2>4, <2>5, <2>6 DEF RowMove
  <1> QED
    BY <1>1, QueueInvariant, PTL DEF Spec, ClaimsAreExclusive

-----------------------------------------------------------------------------
(* Mutual exclusion, where no lease runs out under a working holder and no *)
(* operator ends a running job                                             *)

NoInterference == ~ StallPossible /\ OperatorTargets \subseteq {"processing"}

\* A row in use: held by a worker, or executed from the command line.
Held(w, j) == Processing(j) /\ job[j].owner = w /\ job[j].lease = "live"

InUse(j) ==
  \/ \E w \in Workers : Works(w, j) /\ Held(w, j)
  \/ \E c \in Clis : Executes(c, j)

\* A step of a worker leaves the other processes where they are.
LEMMA OthersStay ==
  ASSUME TypeOK, NEW w \in Workers, WorkerStep(w)
  PROVE  /\ \A v \in Workers \ {w} : pc'[v] = pc[v] /\ task'[v] = task[v]
         /\ UNCHANGED cliVars
  BY DEF TypeOK, WorkerStep, ClaimJob, ClaimNothing, Persist, Heartbeat,
         MarkFailed, Requeue, Settle, WorkflowEnds, HeartbeatLost, LeaveJob,
         LeaveTasks, workerVars, OperationReturns, OperationRaises,
         TransactionFails, Crash, Restart

\* A row in use is neither queued nor up for a claim, and has no report.
LEMMA InUseRows ==
  ASSUME TypeOK, RowsAgree, ReportedIsCompleted, HoldsItsJob, NEW j \in Jobs, InUse(j)
  PROVE  /\ Processing(j)
         /\ report[j] = None
         /\ ~ Available(j) /\ ~ Exhausted(j)
         /\ \A w \in Workers : Works(w, j) => Held(w, j)
         /\ \A c \in Clis : Executes(c, j) => job[j].owner = Direct /\ job[j].lease = None
  <1>1. Processing(j) /\ job[j].lease # "expired"
    BY QueueAssumption DEF InUse, Held, HoldsItsJob, RowsAgree, None
  <1>2. report[j] = None
    BY <1>1 DEF ReportedIsCompleted, Processing
  <1>3. ~ Available(j) /\ ~ Exhausted(j)
    BY <1>1 DEF Available, Exhausted, Processing
  <1>4. \A w \in Workers : Works(w, j) => Held(w, j)
    BY <1>2, QueueAssumption DEF HoldsItsJob, Held
  <1>5. \A c \in Clis : Executes(c, j) => job[j].owner = Direct /\ job[j].lease = None
    BY QueueAssumption DEF HoldsItsJob, RowsAgree
  <1> QED
    BY <1>1, <1>2, <1>3, <1>4, <1>5

\* A worker's step writes rows in use only if they are its own.
LEMMA WorkerSparesOthers ==
  ASSUME TypeOK, WorkerShape, RowsAgree, ReportedIsCompleted, HoldsItsJob,
         NEW w \in Workers, WorkerStep(w), NEW j \in Jobs, InUse(j), ~ Works(w, j)
  PROVE  job'[j] = job[j]
  <1>1. /\ Processing(j) /\ report[j] = None
        /\ ~ Available(j) /\ ~ Exhausted(j)
    BY InUseRows
  <1>2. ASSUME NEW i \in Jobs, NEW acked \in BOOLEAN,
               ClaimJob(w, i, acked) \/ ClaimNothing(w, acked)
        PROVE  job'[j] = job[j]
    BY <1>1, <1>2 DEF ClaimJob, ClaimNothing, Swept
  <1>3. CASE pc[w] \in {"running", "fail", "requeue"}
    <2>1. task[w] # j
      BY <1>3 DEF Works
    <2> QED
      BY <1>3, <2>1
         DEF TypeOK, WorkerStep, ClaimJob, ClaimNothing, Persist, Heartbeat,
             MarkFailed, Requeue, Settle, WorkflowEnds, HeartbeatLost,
             OperationReturns, OperationRaises, TransactionFails, Crash, Restart
  <1>4. CASE pc[w] \notin {"running", "fail", "requeue"}
    BY <1>2, <1>4
       DEF WorkerStep, Persist, Heartbeat, MarkFailed, Requeue, WorkflowEnds,
           HeartbeatLost, OperationReturns, OperationRaises, TransactionFails,
           Crash, Restart
  <1> QED
    BY <1>3, <1>4

\* A worker's step leaves it without a job, or with one that it holds.
LEMMA WorkerHolds ==
  ASSUME TypeOK, WorkerShape, ReportedIsCompleted, HoldsItsJob, Moves,
         NEW w \in Workers, WorkerStep(w), NEW j \in Jobs, Works(w, j)'
  PROVE  Held(w, j)' \/ report'[j] = w
  <1>1. ASSUME NEW i \in Jobs, NEW acked \in BOOLEAN, ClaimJob(w, i, acked)
        PROVE  Held(w, j)'
    <2>1. i = j /\ job'[i] = ClaimRow(Swept[i], w) /\ Swept[i] = job[i]
      BY <1>1, SweptRows DEF ClaimJob, Works, LeaveJob, TypeOK, Swept
    <2> QED
      BY <2>1 DEF Held, Processing, ClaimRow, TypeOK, Row
  <1>2. ASSUME ~ \E i \in Jobs, acked \in BOOLEAN : ClaimJob(w, i, acked)
        PROVE  Works(w, j)
    BY <1>2 DEF Works, TypeOK, WorkerStep, ClaimNothing, Persist, Heartbeat,
             MarkFailed, Requeue, Settle, WorkflowEnds, HeartbeatLost, LeaveJob,
             LeaveTasks, workerVars, OperationReturns, OperationRaises,
             TransactionFails, Crash, Restart
  <1>3. ASSUME Works(w, j), report[j] = w
        PROVE  report'[j] = w
    BY <1>3, QueueAssumption DEF Moves, ReportMove
  <1>4. ASSUME Works(w, j), Held(w, j), NEW acked \in BOOLEAN, Persist(w, acked)
        PROVE  report'[j] = w
    BY <1>4 DEF Persist, CanPersist, Held, Works, ReportedIsCompleted, Processing, TypeOK
  <1>5. ASSUME Works(w, j), Held(w, j), NEW acked \in BOOLEAN, Heartbeat(w, acked)
        PROVE  Held(w, j)'
    BY <1>5 DEF Heartbeat, Held, Works, Processing, TypeOK, Row
  <1>6. ASSUME Works(w, j), Held(w, j),
               ~ \E i \in Jobs, acked \in BOOLEAN : ClaimJob(w, i, acked),
               ~ \E acked \in BOOLEAN : Persist(w, acked) \/ Heartbeat(w, acked)
        PROVE  job'[j] = job[j]
    BY <1>6 DEF Works, TypeOK, WorkerStep, ClaimNothing,
             MarkFailed, Requeue, Settle, WorkflowEnds, HeartbeatLost, LeaveJob,
             LeaveTasks, workerVars, OperationReturns, OperationRaises,
             TransactionFails, Crash, Restart
  <1>7. Works(w, j) => Held(w, j) \/ report[j] = w
    BY DEF HoldsItsJob, Held
  <1> QED
    BY <1>1, <1>2, <1>3, <1>4, <1>5, <1>6, <1>7 DEF Held, Processing

\* Command lines, operators and time: what they write is in use by no worker,
\* and by no command line but the one that writes it.
LEMMA OtherStepsSpare ==
  ASSUME NoInterference, TypeOK, WorkerShape, RowsAgree, ReportedIsCompleted, HoldsItsJob,
         NEW j \in Jobs, InUse(j),
         \/ \E i \in Jobs : OperatorStep(i) \/ TimeStep(i)
         \/ \E c \in Clis : CliStep(c) /\ ~ Executes(c, j)
  PROVE  job'[j] = job[j]
  <1>1. /\ Processing(j)
        /\ \A w \in Workers : Works(w, j) => Held(w, j)
        /\ \A c \in Clis : Executes(c, j) => job[j].lease = None
    BY InUseRows
  <1>2. ASSUME NEW i \in Jobs, OperatorStep(i) PROVE job'[j] = job[j]
    <2>1. CASE CreateJob(i)
      BY <1>1, <2>1 DEF CreateJob, Processing, TypeOK
    <2>2. ASSUME NEW target \in OperatorTargets, UpdateJobStatus(i, target)
          PROVE  job'[j] = job[j]
      <3>1. target = "processing"
        BY DEF NoInterference
      <3>2. job[i].status = "pending"
        BY <2>2, <3>1
           DEF UpdateJobStatus, ALLOWED_STATUS_TRANSITIONS, TypeOK, Row, Terminal
      <3> QED
        BY <1>1, <2>2, <3>2 DEF UpdateJobStatus, Processing, TypeOK
    <2> QED
      BY <1>2, <2>1, <2>2 DEF OperatorStep
  <1>3. ASSUME NEW i \in Jobs, TimeStep(i) PROVE job'[j] = job[j]
    <2>1. CASE ExpireLease(i)
      <3>1. i # j
        BY <1>1, <2>1 DEF ExpireLease, InUse, Held, NoInterference, None
      <3> QED
        BY <2>1, <3>1 DEF ExpireLease, TypeOK
    <2>2. CASE BecomeDue(i)
      BY <1>1, <2>2 DEF BecomeDue, Processing, TypeOK
    <2> QED
      BY <1>3, <2>1, <2>2 DEF TimeStep
  <1>4. ASSUME NEW c \in Clis, CliStep(c), ~ Executes(c, j) PROVE job'[j] = job[j]
    <2>1. ASSUME NEW i \in Jobs, CliStart(c, i) PROVE job'[j] = job[j]
      BY <1>1, <2>1 DEF CliStart, Processing, TypeOK
    <2> QED
      BY <1>4, <2>1 DEF CliStep, CliWorkflowEnds, CliPersist, CliMarkFailed, CliAborts,
                        Executes, TypeOK
  <1> QED
    BY <1>2, <1>3, <1>4

\* A command line that executes a job goes on with it, or leaves it.
LEMMA CliStays ==
  ASSUME TypeOK, NEW c \in Clis, CliStep(c)
  PROVE  /\ UNCHANGED workerVars
         /\ \A d \in Clis \ {c} : cli'[d] = cli[d] /\ cliJob'[d] = cliJob[d]
         /\ \A j \in Jobs : Executes(c, j)' =>
              \/ Executes(c, j) /\ job'[j] = job[j]
              \/ CliStart(c, j)
  BY DEF TypeOK, CliStep, CliStart, CliWorkflowEnds, CliPersist, CliMarkFailed,
         CliAborts, CliExits, Executes

LEMMA NextKeepsHolders ==
  ASSUME NoInterference, IInv, HoldsItsJob, [Next]_vars
  PROVE  HoldsItsJob'
  <1> USE DEF IInv
  <1>1. Moves
    BY NextMoves
  <1>2. ASSUME NEW w \in Workers, NEW j \in Jobs, report[j] = w
        PROVE  report'[j] = w
    BY <1>1, <1>2, QueueAssumption DEF Moves, ReportMove
  <1> DEFINE WorkersHold == \A w \in Workers, j \in Jobs :
                              Works(w, j) => Held(w, j) \/ report[j] = w
             ClisHold == \A c \in Clis, j \in Jobs : Executes(c, j) =>
                           /\ Processing(j) /\ job[j].owner = Direct
                           /\ \A d \in Clis \ {c} : ~ Executes(d, j)
  <1>3. WorkersHold /\ ClisHold
    BY DEF HoldsItsJob, Held
  <1>4. ASSUME NEW v \in Workers, WorkerStep(v)
        PROVE  WorkersHold' /\ ClisHold'
    <2>1. ASSUME NEW w \in Workers, NEW j \in Jobs, Works(w, j)'
          PROVE  Held(w, j)' \/ report'[j] = w
      <3>1. CASE w = v
        BY <1>1, <1>4, <2>1, <3>1, WorkerHolds
      <3>2. CASE w # v
        <4>1. Works(w, j)
          BY <1>4, <2>1, <3>2, OthersStay DEF Works
        <4>2. CASE report[j] = w
          BY <1>2, <4>2
        <4>3. CASE Held(w, j)
          <5>1. InUse(j)
            BY <4>1, <4>3 DEF InUse
          <5>2. ~ Works(v, j)
            BY <3>2, <4>3, <5>1, InUseRows DEF Held
          <5>3. job'[j] = job[j]
            BY <1>4, <5>1, <5>2, WorkerSparesOthers
          <5> QED
            BY <4>3, <5>3 DEF Held, Processing
        <4> QED
          BY <1>3, <4>1, <4>2, <4>3
      <3> QED
        BY <3>1, <3>2
    <2>2. ASSUME NEW c \in Clis, NEW j \in Jobs, Executes(c, j)'
          PROVE  /\ Processing(j)' /\ job'[j].owner = Direct
                 /\ \A d \in Clis \ {c} : ~ Executes(d, j)'
      <3>1. \A d \in Clis : Executes(d, j)' = Executes(d, j)
        BY <1>4, OthersStay DEF Executes, cliVars
      <3>2. InUse(j)
        BY <2>2, <3>1 DEF InUse
      <3>3. ~ Works(v, j)
        BY <2>2, <3>1, <3>2, InUseRows, QueueAssumption DEF Held
      <3>4. job'[j] = job[j]
        BY <1>4, <3>2, <3>3, WorkerSparesOthers
      <3> QED
        BY <1>3, <2>2, <3>1, <3>4 DEF Processing
    <2> QED
      BY <2>1, <2>2
  <1>5. ASSUME NEW d \in Clis, CliStep(d)
        PROVE  WorkersHold' /\ ClisHold'
    <2>1. ASSUME NEW w \in Workers, NEW j \in Jobs, Works(w, j)'
          PROVE  Held(w, j)' \/ report'[j] = w
      <3>1. Works(w, j)
        BY <1>5, <2>1, CliStays DEF Works, workerVars
      <3>2. CASE report[j] = w
        BY <1>2, <3>2
      <3>3. CASE Held(w, j)
        <4>1. InUse(j)
          BY <3>1, <3>3 DEF InUse
        <4>2. ~ Executes(d, j)
          BY <3>3, <4>1, InUseRows, QueueAssumption DEF Held
        <4>3. job'[j] = job[j]
          BY <1>5, <4>1, <4>2, OtherStepsSpare
        <4> QED
          BY <3>3, <4>3 DEF Held, Processing
      <3> QED
        BY <1>3, <3>1, <3>2, <3>3
    <2>2. ASSUME NEW c \in Clis, NEW j \in Jobs, Executes(c, j)'
          PROVE  /\ Processing(j)' /\ job'[j].owner = Direct
                 /\ \A e \in Clis \ {c} : ~ Executes(e, j)'
      <3>1. CASE CliStart(c, j)
        <4>1. /\ job[j].status = "pending" /\ job[j].owner = None
              /\ job'[j] = StartRow(job[j]) /\ job[j] \in Row
          BY <3>1 DEF CliStart, RowsAgree, TypeOK
        <4>2. Processing(j)' /\ job'[j].owner = Direct
          BY <4>1 DEF StartRow, Row, Processing
        <4>3. \A e \in Clis \ {c} : ~ Executes(e, j)
          BY <1>3, <4>1 DEF Processing
        <4>4. \A e \in Clis \ {c} : cli'[e] = cli[e] /\ cliJob'[e] = cliJob[e]
          BY <3>1 DEF CliStart, TypeOK
        <4> QED
          BY <4>2, <4>3, <4>4 DEF Executes
      <3>2. CASE ~ CliStart(c, j)
        <4>1. Executes(c, j) /\ (c = d => job'[j] = job[j])
          BY <1>5, <2>2, <3>2, CliStays DEF Executes
        <4>2. \A e \in Clis \ {c} : ~ Executes(e, j)
          BY <1>3, <4>1
        <4>3. InUse(j)
          BY <4>1 DEF InUse
        <4>4. job'[j] = job[j]
          BY <1>5, <4>1, <4>2, <4>3, OtherStepsSpare
        <4>5. ASSUME NEW e \in Clis \ {c} PROVE ~ Executes(e, j)'
          <5>1. CASE e = d
            <6>1. ~ CliStart(d, j)
              BY <1>3, <4>1 DEF CliStart, Processing
            <6> QED
              BY <1>5, <4>2, <5>1, <6>1, CliStays
          <5>2. CASE e # d
            BY <1>5, <4>2, <5>2, CliStays DEF Executes
          <5> QED
            BY <5>1, <5>2
        <4> QED
          BY <1>3, <4>1, <4>4, <4>5 DEF Processing
      <3> QED
        BY <3>1, <3>2
    <2> QED
      BY <2>1, <2>2
  <1>6. ASSUME \/ \E i \in Jobs : OperatorStep(i) \/ TimeStep(i)
               \/ UNCHANGED vars
        PROVE  WorkersHold' /\ ClisHold'
    <2>1. UNCHANGED <<workerVars, cliVars, report>>
      BY <1>6 DEF OperatorStep, TimeStep, CreateJob, UpdateJobStatus, ExpireLease,
                  BecomeDue, vars
    <2>2. \A j \in Jobs : InUse(j) => job'[j] = job[j]
      BY <1>6, OtherStepsSpare DEF vars
    <2> QED
      BY <1>3, <2>1, <2>2 DEF InUse, Works, Executes, Held, Processing, workerVars, cliVars
  <1>7. WorkersHold' /\ ClisHold'
    BY <1>4, <1>5, <1>6 DEF Next
  <1> QED
    BY <1>7 DEF HoldsItsJob, Held

\* Whoever works on a job holds its row or has completed it: no two processes
\* work on one job.
THEOREM HoldersAreExclusive ==
  ASSUME NoInterference
  PROVE  Spec => []HoldsItsJob
  <1>1. Init => HoldsItsJob
    BY DEF Init, HoldsItsJob, Works, Executes
  <1>2. IInv /\ HoldsItsJob /\ [Next]_vars => HoldsItsJob'
    BY NextKeepsHolders
  <1> QED
    BY <1>1, <1>2, QueueInvariant, PTL DEF Spec

-----------------------------------------------------------------------------
(* The queue implements JobLifecycle. *)

LifeOf(r, reported) ==
  [phase |-> Phase(r), attempts |-> r.attempts, reported |-> reported]

\* A move of a row, with the report it may write, is a step of the job's life.
LEMMA MoveIsJobStep ==
  ASSUME NEW j \in Jobs, NEW r \in Row, NEW s \in Row, Agrees(r), Agrees(s),
         RowMove(j, r, s), r.status = "absent" => r.attempts = 0,
         NEW b \in BOOLEAN
  PROVE  \/ LifeOf(s, b) = LifeOf(r, b)
         \/ Lifecycle!JobStep(j, LifeOf(r, b), LifeOf(s, b))
  <1> DEFINE l == LifeOf(r, b)
             m == LifeOf(s, b)
  <1> USE DEF Row
  <1>1. CASE r.status = "absent" /\ s = NewRow("pending")
    <2>1. l.phase = "absent" /\ m = [l EXCEPT !.phase = "queued"]
      BY <1>1 DEF NewRow, LifeOf, Phase
    <2> QED
      BY <2>1 DEF Lifecycle!JobStep, Lifecycle!Submit
  <1>2. CASE r.status = "pending" /\ s.status = "processing" /\ s.lease = None
             /\ s.attempts = r.attempts
    <2>1. l.phase = "queued" /\ m = [l EXCEPT !.phase = "direct"]
      BY <1>2 DEF LifeOf, Phase
    <2> QED
      BY <2>1 DEF Lifecycle!JobStep, Lifecycle!TakeOut
  <1>3. CASE /\ s.status = r.status /\ s.attempts = r.attempts
             /\ (s.lease = None <=> r.lease = None)
    BY <1>3 DEF LifeOf, Phase
  <1>4. CASE r.status = "processing" /\ s.status \in Terminal /\ s.attempts = r.attempts
    <2>1. Lifecycle!Running(l)
      BY <1>4 DEF LifeOf, Phase, Lifecycle!Running
    <2>2. m = [l EXCEPT !.phase = s.status] /\ s.status \in {"completed", "failed"}
      BY <1>4 DEF LifeOf, Phase, Terminal
    <2> QED
      BY <2>1, <2>2 DEF Lifecycle!JobStep, Lifecycle!Close
  <1>5. CASE Claimed(j, r, s)
    <2>1. l.phase \in {"queued", "leased"} /\ l.attempts < MaxAttempts[j]
      BY <1>5 DEF Claimed, LifeOf, Phase, None
    <2>2. s.status = "processing" /\ s.lease # None /\ s.attempts = r.attempts + 1
      BY <1>5 DEF Claimed, ClaimRow, None
    <2>3. Phase(s) = "leased"
      BY <2>2 DEF Phase
    <2>4. m = [phase |-> "leased", attempts |-> l.attempts + 1, reported |-> l.reported]
      BY <2>2, <2>3 DEF LifeOf
    <2> QED
      BY <2>1, <2>4 DEF Lifecycle!JobStep, Lifecycle!Lease
  <1>6. CASE Retried(j, r, s)
    <2>1. Lifecycle!Running(l) /\ l.attempts < MaxAttempts[j]
      BY <1>6 DEF Retried, LifeOf, Phase, Lifecycle!Running
    <2>2. m = [l EXCEPT !.phase = "queued"]
      BY <1>6 DEF Retried, RetryRow, LifeOf, Phase
    <2> QED
      BY <2>1, <2>2 DEF Lifecycle!JobStep, Lifecycle!Retry
  <1>7. CASE Written(r, s)
    <2>1. r.status = "pending" => r.lease = None
      BY QueueAssumption DEF Agrees
    <2>2. CASE s = [r EXCEPT !.status = "processing", !.error = None, !.completed = FALSE]
               /\ r.status = "pending"
      BY <1>2, <2>1, <2>2
    <2>3. CASE s = StartRow(r) /\ r.status = "pending"
      BY <1>2, <2>3 DEF StartRow
    <2>4. CASE s = [r EXCEPT !.due = TRUE]
      BY <1>3, <2>4
    <2>5. CASE r.lease # None /\ \E k \in Leases \ {None} : s = [r EXCEPT !.lease = k]
      BY <1>3, <2>5
    <2>6. CASE r.status = "processing" /\ s = CompleteRow(r)
      BY <1>4, <2>6 DEF CompleteRow, Terminal
    <2>7. CASE r.status = "processing" /\ \E e \in Errors \ {None} : s = FailRow(r, e)
      BY <1>4, <2>7 DEF FailRow, Terminal
    <2> QED
      BY <1>1, <1>7, <2>2, <2>3, <2>4, <2>5, <2>6, <2>7 DEF Written
  <1> QED
    BY <1>5, <1>6, <1>7 DEF RowMove

LEMMA InitRefines == ASSUME Init PROVE Lifecycle!Init
  BY DEF Init, Lifecycle!Init, Lives, Phase, NewRow

LEMMA NextRefines == ASSUME IInv, [Next]_vars PROVE [Lifecycle!Next]_Lives
  <1>1. Moves /\ IInv'
    BY NextMoves, NextIInv DEF IInv
  <1>2. Lives' \in [Jobs -> Lifecycle!Life]
    <2> SUFFICES ASSUME NEW j \in Jobs
                 PROVE  LifeOf(job'[j], report'[j] # None) \in Lifecycle!Life
      BY DEF Lives, LifeOf, Phase, None
    <2>1. job'[j] \in Row
      BY <1>1 DEF IInv, TypeOK
    <2>2. Phase(job'[j]) \in Lifecycle!Phases /\ job'[j].attempts \in Nat
      BY <2>1 DEF Phase, Row, Status, Terminal, Lifecycle!Phases
    <2> QED
      BY <2>2 DEF LifeOf, Lifecycle!Life
  <1>3. ASSUME NEW j \in Jobs
        PROVE  \/ Lives'[j] = Lives[j]
               \/ Lifecycle!JobStep(j, Lives[j], Lives'[j])
    <2> DEFINE r == job[j]
               s == job'[j]
    <2>1. /\ r \in Row /\ s \in Row
          /\ r.status = "absent" => r.attempts = 0
          /\ Agrees(r) /\ Agrees(s)
          /\ RowMove(j, r, s) /\ ReportMove(j)
      BY <1>1 DEF IInv, TypeOK, AbsentIsNew, RowsAgree, Agrees, Moves
    <2>2. /\ Lives[j]  = LifeOf(r, report[j] # None)
          /\ Lives'[j] = LifeOf(s, report'[j] # None)
      BY DEF Lives, LifeOf, Phase, None
    <2>3. CASE report'[j] = report[j]
      BY <2>1, <2>2, <2>3, MoveIsJobStep
    <2>4. CASE report'[j] # report[j]
      <3>1. /\ r.status = "processing" /\ s = CompleteRow(r)
            /\ report[j] = None /\ report'[j] # None
        BY <2>1, <2>4 DEF ReportMove, Processing
      <3>2. Phase(s) = "completed" /\ s.attempts = r.attempts
        BY <2>1, <3>1 DEF CompleteRow, Phase, Row
      <3>3. Lifecycle!Running(LifeOf(r, FALSE))
        BY <3>1 DEF Lifecycle!Running, LifeOf, Phase
      <3>4. LifeOf(s, TRUE) = [phase |-> "completed", reported |-> TRUE,
                               attempts |-> LifeOf(r, FALSE).attempts]
        BY <3>2 DEF LifeOf
      <3>5. (report[j] # None) = FALSE /\ (report'[j] # None) = TRUE
        BY <3>1
      <3>6. Lives[j] = LifeOf(r, FALSE) /\ Lives'[j] = LifeOf(s, TRUE)
        BY <2>2, <3>5
      <3>7. Lifecycle!Report(Lives[j], Lives'[j])
        BY <3>3, <3>4, <3>6 DEF Lifecycle!Report
      <3> QED
        BY <3>7 DEF Lifecycle!JobStep
    <2> QED
      BY <2>3, <2>4
  <1> QED
    BY <1>2, <1>3 DEF Lifecycle!Next

\* The queue with its workers, command lines, operators and faults is an
\* implementation of the life of a job that clients see.
THEOREM QueueImplementsLifecycle == Spec => ImplementsLifecycle
  <1>1. Init => Lifecycle!Init
    BY InitRefines
  <1>2. IInv /\ [Next]_vars => [Lifecycle!Next]_Lives
    BY NextRefines
  <1> QED
    BY <1>1, <1>2, QueueInvariant, PTL DEF Spec, ImplementsLifecycle, Lifecycle!Spec
=============================================================================
