------------------------------ MODULE JobQueue ------------------------------
(***************************************************************************)
(* The durable job queue of RootPilot and everything that moves a row of   *)
(* the jobs table: queue workers (commands/run_worker.py on top of         *)
(* services/job_queue.py), direct executions from the command line         *)
(* (services/investigation_execution.py), and operators through the API    *)
(* (api/jobs.py).                                                          *)
(*                                                                         *)
(* Every database transaction of the code locks the one row it decides     *)
(* about (SELECT .. FOR UPDATE) and commits or rolls back, so a            *)
(* transaction is one step.  A step can fail in two ways: the transaction  *)
(* rolls back (TransactionFails), or it commits and the answer is lost     *)
(* (acked = FALSE).                                                        *)
(*                                                                         *)
(* Time is abstracted to what the queue tells apart: a lease is live or    *)
(* expired, a pending row is due or not.                                   *)
(***************************************************************************)
EXTENDS Naturals

CONSTANTS
  Jobs,             \* identifiers of the rows that may be created
  Workers,          \* queue worker processes
  Clis,             \* processes of investigate_incident --job-id
  MaxAttempts,      \* Jobs -> the immutable column max_attempts
  KnownJobs,        \* the jobs whose incident_id is in the workers' catalog
  LongIdWorkers,    \* workers whose identifier exceeds 255 characters
  OperatorTargets,  \* the statuses operators ask for through PATCH
  StallPossible,    \* may a lease run out while its holder is at work?
  MaxFaults         \* bound on crashes and failed transactions

None   == "none"
Direct == "direct-execution"

Terminal == {"completed", "failed"}
Status   == {"absent", "pending", "processing"} \union Terminal
Leases   == {None, "live", "expired"}
Errors   == {None, "exhausted", "transient", "failure", "operator"}

ASSUME QueueAssumption ==
  /\ MaxAttempts \in [Jobs -> 1..10]
  /\ KnownJobs \subseteq Jobs
  /\ LongIdWorkers \subseteq Workers
  /\ OperatorTargets \subseteq {"pending", "processing"} \union Terminal
  /\ StallPossible \in BOOLEAN
  /\ MaxFaults \in Nat
  /\ None \notin Jobs \union Workers \union Clis
  /\ Direct \notin Workers
  /\ Workers \intersect Clis = {}

VARIABLES
  job,      \* the jobs table
  report,   \* investigation_reports, by job_id: the process that persisted it
  pc,       \* where run_worker is
  task,     \* the job a worker is working on
  op,       \* the operation task of run_with_lease_heartbeat
  hb,       \* its heartbeat task
  cli,      \* where a direct execution is
  cliJob,   \* the job of a direct execution
  faults    \* crashes and failed transactions so far

workerVars == <<pc, task, op, hb>>
cliVars    == <<cli, cliJob>>
vars       == <<job, report, workerVars, cliVars, faults>>

-----------------------------------------------------------------------------
(* Rows of the jobs table *)

Row == [status    : Status,
        attempts  : Nat,
        owner     : Workers \union {None, Direct},  \* claimed_by
        lease     : Leases,                         \* lease_expires_at
        due       : BOOLEAN,                        \* scheduled_at <= now
        error     : Errors,                         \* error_message
        completed : BOOLEAN]                        \* completed_at

NewRow(status) ==
  [status |-> status, attempts |-> 0, owner |-> None, lease |-> None,
   due |-> TRUE, error |-> None, completed |-> FALSE]

ClaimRow(r, w) ==
  [r EXCEPT !.status = "processing", !.attempts = @ + 1, !.owner = w,
            !.lease = "live", !.error = None, !.completed = FALSE]

StartRow(r) ==
  [r EXCEPT !.status = "processing", !.lease = None, !.error = None,
            !.completed = FALSE,
            !.owner = IF @ = None THEN Direct ELSE @]

CompleteRow(r) ==
  [r EXCEPT !.status = "completed", !.owner = None, !.lease = None,
            !.error = None, !.completed = TRUE]

FailRow(r, e) ==
  [r EXCEPT !.status = "failed", !.owner = None, !.lease = None,
            !.error = e, !.completed = TRUE]

\* Mutant: the lease is not reset.
RetryRowKeepsLease(r) ==
  [r EXCEPT !.status = "pending", !.owner = None, !.due = FALSE,
            !.error = "transient", !.completed = FALSE]

\* Mutant: a status of its own for jobs that were tried before.
RetryRowQueued(r) ==
  [r EXCEPT !.status = "queued", !.owner = None, !.lease = None,
            !.due = FALSE, !.error = "transient", !.completed = FALSE]

RetryRow(r) ==
  [r EXCEPT !.status = "pending", !.owner = None, !.lease = None,
            !.due = FALSE, !.error = "transient", !.completed = FALSE]

\* Mutant: one attempt too many.
RequeueRowOffByOne(j, r) ==
  IF r.attempts > MaxAttempts[j] THEN FailRow(r, "transient") ELSE RetryRow(r)

RequeueRow(j, r) ==
  IF r.attempts >= MaxAttempts[j] THEN FailRow(r, "transient") ELSE RetryRow(r)

Processing(j) == job[j].status = "processing"

\* The first statement of a claim fails every job whose last lease ran out.
Exhausted(j) ==
  /\ Processing(j)
  /\ job[j].lease = "expired"
  /\ job[j].attempts >= MaxAttempts[j]

Swept == [j \in Jobs |-> IF Exhausted(j) THEN FailRow(job[j], "exhausted")
                                         ELSE job[j]]

\* Mutant: any processing row may be taken over.
AvailableIgnoresLease(j) ==
  /\ (job[j].status = "pending" /\ job[j].due) \/ Processing(j)
  /\ job[j].attempts < MaxAttempts[j]

\* Mutant: expired leases are not reclaimed.
AvailablePendingOnly(j) ==
  /\ job[j].status = "pending" /\ job[j].due
  /\ job[j].attempts < MaxAttempts[j]

\* The rows the second statement of a claim selects from.
Available(j) ==
  /\ \/ (job[j].status = "pending" /\ job[j].due)
     \/ (Processing(j) /\ job[j].lease = "expired")
  /\ job[j].attempts < MaxAttempts[j]

\* create_investigation_report needs a processing job, and job_id is unique.
CanPersist(j) == Processing(j) /\ report[j] = None

-----------------------------------------------------------------------------
Init ==
  /\ job    = [j \in Jobs |-> NewRow("absent")]
  /\ report = [j \in Jobs |-> None]
  /\ pc     = [w \in Workers |-> "polling"]
  /\ task   = [w \in Workers |-> None]
  /\ op     = [w \in Workers |-> None]
  /\ hb     = [w \in Workers |-> None]
  /\ cli    = [c \in Clis |-> "idle"]
  /\ cliJob = [c \in Clis |-> None]
  /\ faults = 0

Fault == faults < MaxFaults /\ faults' = faults + 1

\* The answer to a commit arrives, or is lost with the connection.
Ack(acked) == IF acked THEN UNCHANGED faults ELSE Fault

\* Worker w leaves its job behind: in the loop, or out of it.
LeaveJob(w, next) ==
  /\ pc'   = [pc EXCEPT ![w] = next]
  /\ task' = [task EXCEPT ![w] = None]
  /\ op'   = [op EXCEPT ![w] = None]
  /\ hb'   = [hb EXCEPT ![w] = None]

\* Both tasks of run_with_lease_heartbeat are over; next is the handler.
LeaveTasks(w, next) ==
  /\ pc' = [pc EXCEPT ![w] = next]
  /\ op' = [op EXCEPT ![w] = None]
  /\ hb' = [hb EXCEPT ![w] = None]
  /\ UNCHANGED task

Works(w, j)    == pc[w] \in {"running", "fail", "requeue"} /\ task[w] = j
Executes(c, j) == cli[c] \in {"workflow", "persist", "fail"} /\ cliJob[c] = j

-----------------------------------------------------------------------------
(* Operators, through the API *)

\* POST /jobs
CreateJob(j) ==
  /\ job[j].status = "absent"
  /\ job' = [job EXCEPT ![j] = NewRow("pending")]
  /\ UNCHANGED <<report, workerVars, cliVars, faults>>

ALLOWED_STATUS_TRANSITIONS ==
  [status \in Status \ {"absent"} |->
     CASE status = "pending"    -> {"processing"}
       [] status = "processing" -> Terminal
       [] OTHER                 -> {}]

\* PATCH /jobs/{job_id}/status; a refused request changes nothing.
UpdateJobStatus(j, target) ==
  /\ job[j].status # "absent"
  /\ target \in ALLOWED_STATUS_TRANSITIONS[job[j].status]
  /\ job' = [job EXCEPT ![j] =
       CASE target = "processing" ->
              [@ EXCEPT !.status = target, !.error = None, !.completed = FALSE]
         [] target = "completed" -> CompleteRow(@)
         [] target = "failed"    -> FailRow(@, "operator")]
  /\ UNCHANGED <<report, workerVars, cliVars, faults>>

-----------------------------------------------------------------------------
(* Time *)

\* Unless workers can stall, the heartbeat period (a third of a lease) keeps a
\* lease from running out under the worker that holds it.
ExpireLease(j) ==
  /\ job[j].lease = "live"
  /\ StallPossible \/ ~ Works(job[j].owner, j)
  /\ job' = [job EXCEPT ![j].lease = "expired"]
  /\ UNCHANGED <<report, workerVars, cliVars, faults>>

BecomeDue(j) ==
  /\ job[j].status = "pending" /\ ~ job[j].due
  /\ job' = [job EXCEPT ![j].due = TRUE]
  /\ UNCHANGED <<report, workerVars, cliVars, faults>>

-----------------------------------------------------------------------------
(* Queue workers: the loop of run_worker *)

\* Any available row may be the one: those before it in the order can be
\* locked by an operator's request, and SKIP LOCKED passes over them.
ClaimJob(w, j, acked) ==
  /\ pc[w] = "polling"
  /\ Available(j)
  /\ job' = [Swept EXCEPT ![j] = ClaimRow(@, w)]
  /\ IF ~ acked THEN LeaveJob(w, "stopped")
     ELSE /\ task' = [task EXCEPT ![w] = j]
          /\ IF j \in KnownJobs
             THEN /\ pc' = [pc EXCEPT ![w] = "running"]
                  /\ op' = [op EXCEPT ![w] = "workflow"]
                  /\ hb' = [hb EXCEPT ![w] = "beating"]
             ELSE /\ pc' = [pc EXCEPT ![w] = "fail"]
                  /\ UNCHANGED <<op, hb>>
  /\ Ack(acked)
  /\ UNCHANGED <<report, cliVars>>

\* No row, or none that is not locked; the sweep is committed all the same.
ClaimNothing(w, acked) ==
  /\ pc[w] = "polling"
  /\ job' = Swept
  /\ IF acked THEN UNCHANGED workerVars ELSE LeaveJob(w, "stopped")
  /\ Ack(acked)
  /\ UNCHANGED <<report, cliVars>>

\* The graph returns a validated assessment, or raises: "transient" stands
\* for TRANSIENT_OPENAI_ERRORS, "error" for every other exception.
WorkflowEnds(w, result) ==
  /\ pc[w] = "running" /\ op[w] = "workflow"
  /\ op' = [op EXCEPT ![w] = result]
  /\ UNCHANGED <<job, report, pc, task, hb, cliVars, faults>>

\* Mutant: a report of someone else is taken for success.
PersistTakesAnyReport(w, acked) ==
  /\ pc[w] = "running" /\ op[w] = "persist"
  /\ LET j == task[w] IN
       IF CanPersist(j)
       THEN /\ job'    = [job EXCEPT ![j] = CompleteRow(@)]
            /\ report' = [report EXCEPT ![j] = w]
       ELSE UNCHANGED <<job, report>>
  /\ op' = [op EXCEPT ![w] = IF acked THEN "committed" ELSE "error"]
  /\ Ack(acked)
  /\ UNCHANGED <<pc, task, hb, cliVars>>

\* Mutant: the report is committed before the job.
PersistReportFirst(w, acked) ==
  /\ pc[w] = "running" /\ op[w] = "persist"
  /\ acked /\ CanPersist(task[w])
  /\ report' = [report EXCEPT ![task[w]] = w]
  /\ op'     = [op EXCEPT ![w] = "committed"]
  /\ UNCHANGED <<job, pc, task, hb, cliVars, faults>>

\* create_investigation_report
Persist(w, acked) ==
  /\ pc[w] = "running" /\ op[w] = "persist"
  /\ LET j == task[w] IN
       IF CanPersist(j)
       THEN /\ job'    = [job EXCEPT ![j] = CompleteRow(@)]
            /\ report' = [report EXCEPT ![j] = w]
            /\ op'     = [op EXCEPT ![w] = IF acked THEN "committed" ELSE "error"]
            /\ Ack(acked)
       ELSE /\ acked
            /\ op' = [op EXCEPT ![w] = "error"]
            /\ UNCHANGED <<job, report, faults>>
  /\ UNCHANGED <<pc, task, hb, cliVars>>

\* renew_investigation_job_lease.  The comparison is with the full worker id,
\* the row holds its first 255 characters.
Renewable(w, j) ==
  /\ Processing(j)
  /\ job[j].owner = w
  /\ w \notin LongIdWorkers

Heartbeat(w, acked) ==
  /\ pc[w] = "running" /\ hb[w] = "beating"
  /\ LET j == task[w] IN
       IF Renewable(w, j)
       THEN /\ job' = [job EXCEPT ![j].lease = "live"]
            /\ hb'  = [hb EXCEPT ![w] = IF acked THEN "beating" ELSE "lost"]
            /\ Ack(acked)
       ELSE /\ acked
            /\ hb' = [hb EXCEPT ![w] = "lost"]
            /\ UNCHANGED <<job, faults>>
  /\ UNCHANGED <<report, pc, task, op, cliVars>>

\* The exception of the heartbeat is the one raised, whatever the operation
\* came to; the operation is cancelled.
HeartbeatLost(w) ==
  /\ pc[w] = "running" /\ hb[w] = "lost"
  /\ LeaveTasks(w, "fail")
  /\ UNCHANGED <<job, report, cliVars, faults>>

OperationReturns(w) ==
  /\ pc[w] = "running" /\ hb[w] = "beating" /\ op[w] = "committed"
  /\ LeaveJob(w, "polling")
  /\ UNCHANGED <<job, report, cliVars, faults>>

OperationRaises(w) ==
  /\ pc[w] = "running" /\ hb[w] = "beating"
  /\ \/ (op[w] = "transient" /\ LeaveTasks(w, "requeue"))
     \/ (op[w] = "error" /\ LeaveTasks(w, "fail"))
  /\ UNCHANGED <<job, report, cliVars, faults>>

\* Mutant: the status of the job is not looked at.
SettleUnchecked(w, row, acked) ==
  /\ job' = [job EXCEPT ![task[w]] = row]
  /\ LeaveJob(w, IF acked THEN "polling" ELSE "stopped")
  /\ Ack(acked)
  /\ UNCHANGED <<report, cliVars>>

\* The transaction of an exception handler: it writes `row', or raises
\* JobNotProcessingError out of run_worker.
Settle(w, row, acked) ==
  /\ IF Processing(task[w])
     THEN /\ job' = [job EXCEPT ![task[w]] = row]
          /\ LeaveJob(w, IF acked THEN "polling" ELSE "stopped")
          /\ Ack(acked)
     ELSE /\ acked
          /\ LeaveJob(w, "stopped")
          /\ UNCHANGED <<job, faults>>
  /\ UNCHANGED <<report, cliVars>>

\* mark_investigation_job_failed
MarkFailed(w, acked) ==
  /\ pc[w] = "fail"
  /\ Settle(w, FailRow(job[task[w]], "failure"), acked)

\* requeue_investigation_job
Requeue(w, acked) ==
  /\ pc[w] = "requeue"
  /\ Settle(w, RequeueRow(task[w], job[task[w]]), acked)

\* A transaction of the worker is rolled back.
TransactionFails(w) ==
  /\ \/ /\ pc[w] \in {"polling", "fail", "requeue"}
        /\ LeaveJob(w, "stopped")
     \/ /\ pc[w] = "running" /\ hb[w] = "beating"
        /\ hb' = [hb EXCEPT ![w] = "lost"]
        /\ UNCHANGED <<pc, task, op>>
     \/ /\ pc[w] = "running" /\ op[w] = "persist"
        /\ op' = [op EXCEPT ![w] = "error"]
        /\ UNCHANGED <<pc, task, hb>>
  /\ Fault
  /\ UNCHANGED <<job, report, cliVars>>

Crash(w) ==
  /\ pc[w] # "stopped"
  /\ LeaveJob(w, "stopped")
  /\ Fault
  /\ UNCHANGED <<job, report, cliVars>>

\* supervise_embedded_worker, or the restart policy of the container
Restart(w) ==
  /\ pc[w] = "stopped"
  /\ pc' = [pc EXCEPT ![w] = "polling"]
  /\ UNCHANGED <<job, report, task, op, hb, cliVars, faults>>

-----------------------------------------------------------------------------
(* Direct executions: investigate_incident --job-id *)

CliExits(c) == cli' = [cli EXCEPT ![c] = "exited"]

\* Mutant: a processing row is taken as well.
CliStartAny(c, j) ==
  /\ cli[c] = "idle"
  /\ job[j].status \in {"pending", "processing"}
  /\ job'    = [job EXCEPT ![j] = StartRow(@)]
  /\ cli'    = [cli EXCEPT ![c] = "workflow"]
  /\ cliJob' = [cliJob EXCEPT ![c] = j]
  /\ UNCHANGED <<report, workerVars, faults>>

\* start_investigation_job takes a pending row only.
CliStart(c, j) ==
  /\ cli[c] = "idle"
  /\ job[j].status = "pending"
  /\ job'    = [job EXCEPT ![j] = StartRow(@)]
  /\ cli'    = [cli EXCEPT ![c] = "workflow"]
  /\ cliJob' = [cliJob EXCEPT ![c] = j]
  /\ UNCHANGED <<report, workerVars, faults>>

CliWorkflowEnds(c, next) ==
  /\ cli[c] = "workflow"
  /\ cli' = [cli EXCEPT ![c] = next]
  /\ UNCHANGED <<job, report, workerVars, cliJob, faults>>

\* An exception of create_investigation_report is not handled.
CliPersist(c) ==
  /\ cli[c] = "persist"
  /\ LET j == cliJob[c] IN
       IF CanPersist(j)
       THEN /\ job'    = [job EXCEPT ![j] = CompleteRow(@)]
            /\ report' = [report EXCEPT ![j] = c]
       ELSE UNCHANGED <<job, report>>
  /\ CliExits(c)
  /\ UNCHANGED <<workerVars, cliJob, faults>>

\* Mutant: the status of the job is not looked at.
CliMarkFailedUnchecked(c) ==
  /\ cli[c] = "fail"
  /\ job' = [job EXCEPT ![cliJob[c]] = FailRow(@, "failure")]
  /\ CliExits(c)
  /\ UNCHANGED <<report, workerVars, cliJob, faults>>

CliMarkFailed(c) ==
  /\ cli[c] = "fail"
  /\ LET j == cliJob[c] IN
       IF Processing(j)
       THEN job' = [job EXCEPT ![j] = FailRow(@, "failure")]
       ELSE UNCHANGED job
  /\ CliExits(c)
  /\ UNCHANGED <<report, workerVars, cliJob, faults>>

\* A crash, Ctrl-C, or a transaction that rolls back: the row stays.
CliAborts(c) ==
  /\ cli[c] \in {"workflow", "persist", "fail"}
  /\ CliExits(c)
  /\ Fault
  /\ UNCHANGED <<job, report, workerVars, cliJob>>

-----------------------------------------------------------------------------
OperatorStep(j) ==
  \/ CreateJob(j)
  \/ \E target \in OperatorTargets : UpdateJobStatus(j, target)

TimeStep(j) == ExpireLease(j) \/ BecomeDue(j)

WorkerStep(w) ==
  \/ \E acked \in BOOLEAN :
       \/ \E j \in Jobs : ClaimJob(w, j, acked)
       \/ ClaimNothing(w, acked)
       \/ Persist(w, acked)
       \/ Heartbeat(w, acked)
       \/ MarkFailed(w, acked)
       \/ Requeue(w, acked)
  \/ \E result \in {"persist", "transient", "error"} : WorkflowEnds(w, result)
  \/ HeartbeatLost(w)
  \/ OperationReturns(w)
  \/ OperationRaises(w)
  \/ TransactionFails(w)
  \/ Crash(w)
  \/ Restart(w)

CliStep(c) ==
  \/ \E j \in Jobs : CliStart(c, j)
  \/ \E next \in {"persist", "fail"} : CliWorkflowEnds(c, next)
  \/ CliPersist(c)
  \/ CliMarkFailed(c)
  \/ CliAborts(c)

Next ==
  \/ \E j \in Jobs : OperatorStep(j) \/ TimeStep(j)
  \/ \E w \in Workers : WorkerStep(w)
  \/ \E c \in Clis : CliStep(c)

Spec == Init /\ [][Next]_vars

(***************************************************************************)
(* Fairness.  A worker that is up keeps running: model calls and database  *)
(* calls end, a stopped process is restarted.  Rows are locked for one     *)
(* short transaction at a time, so a worker does not find every available  *)
(* row locked for ever.  Heartbeats need not be fair, and no operator and  *)
(* no command line is obliged to act.  Clocks advance.                     *)
(***************************************************************************)
WorkerRuns(w) ==
  \/ \E result \in {"persist", "transient", "error"} : WorkflowEnds(w, result)
  \/ Persist(w, TRUE)
  \/ HeartbeatLost(w)
  \/ OperationReturns(w)
  \/ OperationRaises(w)
  \/ MarkFailed(w, TRUE)
  \/ Requeue(w, TRUE)
  \/ Restart(w)

CliRuns(c) ==
  \/ \E next \in {"persist", "fail"} : CliWorkflowEnds(c, next)
  \/ CliPersist(c)
  \/ CliMarkFailed(c)

Fairness ==
  /\ \A w \in Workers :
       /\ WF_vars(WorkerRuns(w))
       /\ WF_vars(\E j \in Jobs : ClaimJob(w, j, TRUE))
       /\ WF_vars(ClaimNothing(w, TRUE))
  /\ \A c \in Clis : WF_vars(CliRuns(c))
  /\ \A j \in Jobs : WF_vars(TimeStep(j))

FairSpec == Spec /\ Fairness

-----------------------------------------------------------------------------
(* Types *)

TypeOK ==
  /\ job    \in [Jobs -> Row]
  /\ report \in [Jobs -> Workers \union Clis \union {None}]
  /\ pc     \in [Workers -> {"polling", "running", "fail", "requeue", "stopped"}]
  /\ task   \in [Workers -> Jobs \union {None}]
  /\ op     \in [Workers -> {None, "workflow", "persist", "transient", "error",
                             "committed"}]
  /\ hb     \in [Workers -> {None, "beating", "lost"}]
  /\ cli    \in [Clis -> {"idle", "workflow", "persist", "fail", "exited"}]
  /\ cliJob \in [Clis -> Jobs \union {None}]
  /\ faults \in 0..MaxFaults

-----------------------------------------------------------------------------
(* Safety *)

\* The columns of a row agree, whoever wrote which of them: a lease and the
\* worker that holds it come and go together and only while processing; a row
\* is over exactly when it has a completion time; a failure has a message and
\* a completion has none.
RowsAgree ==
  \A j \in Jobs : LET r == job[j] IN
    /\ r.owner \in Workers <=> r.lease # None
    /\ r.owner # None => r.status = "processing"
    /\ r.completed <=> r.status \in Terminal
    /\ r.status = "failed" => r.error # None
    /\ r.status \in {"absent", "processing", "completed"} => r.error = None

\* A queued job can be claimed once more: no path puts a job back in the queue
\* with its attempts used up, where no claim would ever select it.
QueuedHasAttempts ==
  \A j \in Jobs :
    /\ job[j].attempts <= MaxAttempts[j]
    /\ job[j].status = "pending" => job[j].attempts < MaxAttempts[j]

\* A report exists only for a completed job: the two are written in one
\* transaction, and nothing moves the job afterwards.
ReportedIsCompleted ==
  \A j \in Jobs : report[j] # None => job[j].status = "completed"

\* What a worker was told is committed is there, under its authorship, until
\* it moves on, whatever others did to the job meanwhile.
CommittedIsDurable ==
  \A w \in Workers : op[w] = "committed" => report[task[w]] = w

\* While no lease runs out under a working holder and no operator ends a job
\* that runs, whoever works on a job holds its row or has completed it, so no
\* two processes work on one job: no claim, requeue, crash, restart or lost
\* answer lets a second one in.
HoldsItsJob ==
  /\ \A w \in Workers, j \in Jobs : Works(w, j) =>
       \/ (Processing(j) /\ job[j].owner = w /\ job[j].lease = "live")
       \/ report[j] = w
  /\ \A c \in Clis, j \in Jobs : Executes(c, j) =>
       /\ Processing(j) /\ job[j].owner = Direct
       /\ \A d \in Clis \ {c} : ~ Executes(d, j)

-----------------------------------------------------------------------------
(* Action properties *)

\* A finished job stays as it is, and so does a report: late results, retries,
\* failures and heartbeats of former holders do not touch them.
FinishedIsFrozen ==
  [][\A j \in Jobs :
       /\ job[j].status \in Terminal => job'[j] = job[j]
       /\ report[j] # None => report'[j] = report[j]]_vars

\* No double claim: a worker gets hold of a row that no live lease protects,
\* and pays one of the row's attempts for it; attempts are spent on nothing
\* else and never given back.
ClaimsAreExclusive ==
  [][\A j \in Jobs :
       /\ job'[j].owner \in Workers /\ job'[j].owner # job[j].owner =>
            /\ job[j].owner \in Workers => job[j].lease = "expired"
            /\ job'[j].attempts = job[j].attempts + 1
       /\ job'[j].attempts # job[j].attempts =>
            /\ job'[j].attempts = job[j].attempts + 1
            /\ job'[j].owner \in Workers /\ job'[j].lease = "live"]_vars

-----------------------------------------------------------------------------
(* The jobs table implements the life of a job that JobLifecycle describes. *)

Phase(r) ==
  CASE r.status = "pending"    -> "queued"
    [] r.status = "processing" -> IF r.lease = None THEN "direct" ELSE "leased"
    [] OTHER                   -> r.status

Lives == [j \in Jobs |-> [phase    |-> Phase(job[j]),
                          attempts |-> job[j].attempts,
                          reported |-> report[j] # None]]

Lifecycle == INSTANCE JobLifecycle WITH life <- Lives

\* Every transaction, and every loss of one, is a step of the life of some
\* jobs or changes nothing a client is promised.
ImplementsLifecycle == Lifecycle!Spec

-----------------------------------------------------------------------------
(* Liveness *)

\* A created job ends, completed or failed.
JobsEnd ==
  \A j \in Jobs : job[j].status = "pending" ~> job[j].status \in Terminal

\* The same of the jobs that no one took out of the queue by hand: from the
\* queue or from a lease, a job ends or is started by hand.
QueuedOrLeased(j) ==
  job[j].status = "pending" \/ (Processing(j) /\ job[j].lease # None)

QueueDrains ==
  \A j \in Jobs : QueuedOrLeased(j) ~> ~ QueuedOrLeased(j)

-----------------------------------------------------------------------------
(* What the documentation says of the queue and the code does not do *)

\* README.md, Queue guarantees: a worker whose heartbeat fails does not continue
\* without ownership, and active lease ownership is the idempotency boundary for
\* persistence; so a worker changes the outcome of a job only while it owns it.
OnlyOwnersAct ==
  [][\A w \in Workers, j \in Jobs :
       /\ report[j] = None /\ report'[j] = w => job[j].owner = w
       /\ pc[w] \in {"fail", "requeue"} /\ task[w] = j
          /\ pc'[w] # pc[w] /\ job'[j] # job[j] => job[j].owner = w]_vars

\* README.md, the sequence of an investigation: a valid assessment completes
\* the job, and otherwise the job is failed or requeued; never both.
OneOutcome ==
  \A w \in Workers : pc[w] \in {"fail", "requeue"} => report[task[w]] # w
=============================================================================
