# RootPilot in TLA+

RootPilot investigates production incidents: a job names an incident, a worker
claims the job, an agent gathers evidence and writes a root-cause assessment,
the assessment is stored as a report, and a human approves or rejects it.
This directory holds a formal model of the parts of RootPilot whose correctness
depends on what happens at the same time, in which order, and what fails: the
durable job queue, the bounded agent with its tools, the two put together, the
shared runbook index, the review with the dashboard in front of it, and the schema
migrations.  One module is about an algorithm instead: how searches are ranked and
merged.

Paths below are relative to `src/apps/metadata_service/` unless they start with
`src/`.

## 1. Inventory

| Component | State it keeps | Operations | Modelled in |
|---|---|---|---|
| Durable job queue, `services/job_queue.py`, `models/job.py` | rows of `jobs`: status, attempt_count, claimed_by, lease_expires_at, scheduled_at, error_message, completed_at | claim (with a sweep of exhausted leases), renew, requeue | `JobQueue` |
| Queue worker, `commands/run_worker.py` | its place in the loop, the operation and the heartbeat task | poll, run, persist, requeue, fail, stop, restart | `JobQueue`, `Investigation` |
| Execution and persistence, `services/investigation_execution.py`, `services/investigation_reports.py` | `investigation_reports` | start, mark failed, create a report with the completion of its job | `JobQueue`, its provenance in `Investigation` |
| Jobs API, `api/jobs.py` | none | POST /jobs, PATCH /jobs/{id}/status | `JobQueue` |
| Direct execution, `commands/investigate_incident.py --job-id` | its place | start, run, persist or fail | `JobQueue` |
| Embedded worker, `main.py` | one task | restart after an exception, cancel at shutdown | `JobQueue` (Restart, Crash) |
| ReAct graph, `services/react_investigation_graph.py` | InvestigationState: evidence, retrieved sections, counters, decision, assessment | eleven nodes and three routers | `ReActGraph` |
| Diagnostic tools, `services/diagnostic_tools.py` | none | five tools over the incident's metrics, logs, changes and health checks | `DiagnosticTools`; any outcome, in `ReActGraph` |
| Runbook index, `services/postgres_retriever.py` | `runbook_embeddings` | index_sections (three transactions), search | `RunbookIndex` |
| Retrieval, `services/retriever.py`, `services/postgres_retriever.py`, `_merge_sections` | the context of an investigation | search, filter by relevance, merge | `RunbookSearch` |
| Single-pass graph, `services/investigation_graph.py` | InvestigationState | retrieve, generate, validate | `RunbookSearch` |
| Evaluation, `services/evaluation.py` | none | metrics of a retrieval and of an assessment | `RunbookSearch` |
| Report review, `services/investigation_reports.py:301`, `api/investigation_reports.py:176` | review columns of a report, `investigation_review_events` | approve or reject once | `ReportReview` |
| Dashboard, `src/dashboard/app/page.tsx` | what it last fetched, the open report, the typed feedback, the request it waits for | refresh, open, close, decide | `Dashboard` |
| Migrations, `src/migrations/` | `alembic_version` and the schema | seven upgrades and downgrades | `Migrations`, `SchemaRevisions` |
| Model adapters, loaders, security, settings, sessions, observability, listings, deployment | see `PROJECT.json` | | not modelled, reasons there |

How they interact.  API, workers, command lines and reviewers share nothing but
PostgreSQL.  Each changes one row in one short transaction that starts with
`SELECT .. FOR UPDATE`; a claim uses `SKIP LOCKED`.  Between its transactions a
worker runs the graph, which calls models and tools and may take minutes, while
a second task renews the lease.  At start a worker brings the runbook index in
line with the runbooks of its own release, in three transactions.  The dashboard polls
the API and sends reviews to it.  Migrations run when a release is deployed, from a
migration job, from compose, or at the start of every instance, while the previous
release still writes.

What is hard here, and what makes each component correct:

- *Queue.*  Workers stall, die, restart, lose the answer to a commit; leases run
  out under their holders; operators change rows that are being worked on.
  Correct means: no job is lost or claimed twice, attempts are counted, rows stay
  consistent, a finished job stays finished, a report and the completion of its
  job appear together, every job ends.
- *Worker.*  Two tasks end in any order, and the exception of the heartbeat wins
  over the result of the operation.  Correct means: one outcome per job, decided
  by its owner.
- *ReAct graph.*  Planner, analyst and tools answer anything; a deadline may pass
  anywhere.  Correct means: budgets hold, no assessment without evidence, the
  graph ends.
- *Worker and graph.*  One compiled graph serves attempt after attempt and is cancelled
  anywhere.  Correct means: a stored report is that of its own attempt and can be
  audited, and attempts end.
- *Diagnostic tools.*  Windows, cuts and mixed time zones.  Correct means: only
  evidence that was shown gets an ID, a wider question finds more, up to the cut.
- *Index.*  Indexing is not atomic and several processes, of several releases, do
  it at once.  Correct means: vectors belong to their text and model, a process
  searches the sections it was deployed with.
- *Retrieval and evaluation.*  A context is cut after every search, in orders nobody
  tried.  Correct means: the best of all searches is kept, and what a graph accepts
  the evaluation finds grounded.
- *Review.*  Requests race, die and are repeated.  Correct means: one decision, an
  audit event that tells it, no lock left behind.
- *Dashboard.*  Answers overtake each other, a review that seemed to fail may be
  recorded, and a report leaves the list while it is open.  Correct means: no verdict is
  shown that is not recorded, and the recorded one of a listed report is shown in the end.
- *Migrations.*  Several migrators race or die, over tables with rows, under a release
  that writes, and each runs its statements before it writes the version.  Correct means:
  the schema is that of its revision, a migrator is refused when it comes too late and
  then only, and models and migrations say the same.

`PROJECT.json` lists each hazard at its line with the properties that watch it.

## 2. Modules

| Module | What it is |
|---|---|
| `JobLifecycle` | abstract: what the jobs table promises a client, the life of each job |
| `JobQueue` | detailed: rows, workers, command lines, operators; refines `JobLifecycle` |
| `JobQueueProofs` | theorems about `JobQueue`, proved |
| `MCJobQueue` | instance for TLC |
| `ReActGraph`, `MCReActGraph`, `ReActGraphProofs` | the agent graph, its instance, its theorems |
| `RunbookIndex`, `MCRunbookIndex`, `RunbookIndexProofs` | the index, its instance, its theorems |
| `RunbookSearch`, `MCRunbookSearch`, `RunbookSearchProofs` | retrieval, both graphs reduced to it, metrics, its instance, its theorems |
| `Investigation`, `MCInvestigation`, `InvestigationProofs` | a worker of `JobQueue` that runs `ReActGraph`, its instance, its theorems |
| `DiagnosticTools`, `MCDiagnosticTools`, `DiagnosticToolsProofs` | `ReActGraph` with the real tools, an incident for it, its theorems |
| `ReportReview` | the review |
| `Dashboard`, `MCDashboard` | tabs in front of `ReportReview`, and an instance of both |
| `ReviewProofs` | theorems about the review, alone and behind the dashboard |
| `Migrations` | migrators over any chain of revisions |
| `SchemaRevisions`, `MCMigrations` | the seven revisions and the models of RootPilot, and the two together |
| `MigrationsProofs` | theorems about chains that fit, and that RootPilot's is one |

Operators named `...` under a comment `Mutant:` are wrong versions of the
definition that follows them, kept to show that a property notices the mistake;
no specification uses them.

### JobQueue

A database transaction of the code is one action, because it locks the row it
decides about.  It can fail in two ways: it rolls back (`TransactionFails`), or it
commits and its answer is lost (`acked = FALSE`).

| Model | Code |
|---|---|
| `job[j]`, `report[j]` | a row of `jobs`; the report with that unique `job_id`, by who persisted it |
| `Row.lease`, `Row.due` | `lease_expires_at` and `scheduled_at` compared with now: live or expired, due or not |
| `pc[w]` | polling: before a claim; running: inside `run_with_lease_heartbeat`; fail, requeue: in a handler of `run_worker`; stopped: the process or the embedded task is down |
| `op[w]`, `hb[w]` | the operation task and the heartbeat task |
| `ClaimJob`, `ClaimNothing` | `claim_next_investigation_job`, the sweep included |
| `WorkflowEnds`, `Persist` | `execute_claimed_and_persist_investigation` with `mark_failure=False` |
| `Heartbeat`, `HeartbeatLost` | `renew_investigation_job_lease`; its exception reaching the worker |
| `OperationReturns`, `OperationRaises`, `MarkFailed`, `Requeue` | the rest of the loop of `run_worker` |
| `CliStart` ... `CliAborts` | `execute_and_persist_investigation` |
| `CreateJob`, `UpdateJobStatus` | the API |
| `ExpireLease`, `BecomeDue` | the passing of time |

Abstractions.  `started_at` is left out (nothing reads it).  A claim takes *any*
available row: the order by `scheduled_at` is not kept by `SKIP LOCKED`, and a
worker whose only available row is locked finds nothing.  The delay of a retry,
min(60, 2^attempt) seconds, becomes `due = FALSE` until `BecomeDue`.  Clocks of
different machines are covered by `StallPossible = TRUE`, under which any live
lease may expire for someone else.  `--once` is a prefix of the loop followed by a
stop.  A restarted worker keeps its identifier, as a container does.  The
construction of `InvestigationReportCreate` outside the `try` is taken not to
raise: the assessment and the traces have been validated before.  Jobs are never
deleted.

### ReActGraph

One step is one superstep of the compiled graph, a node with the router of its
conditional edge.  `node` is the next node or the way the graph ended: complete,
limit (`ReActLimitReachedError`), insufficient (`InsufficientEvidenceError`), invalid
(`ReActAssessmentValidationError`), transient (an error of the model gateway that the
worker tries again), raised (any other exception).  Evidence IDs are
model values; a section is a number, ordered as its citation ID, and its score
a small number.  `late` is elapsed >= max_runtime_seconds and can turn true in any
node.  Planner, analyst and tools are nondeterministic over what their schemas
admit: a finalization may name evidence that was never observed, an assessment any
citation or another incident.  A tool call may observe any part of its evidence,
nothing, or an error.

`steps` is `react_steps`: one record for each iteration, with its tool, the evidence IDs that
the step *names* and whether it is marked as an error.  A finalization names what the
planner chose, also when it is rejected for IDs that no tool observed (`FinalizeStep`).
`limit` is a history variable: the budget that `route_after_progress` found when it ended
the loop (`FirstLimit`).  `prepare_limit_finalize` works the `reason` out again
(`LimitReason`), by a later clock.  `ReasonIsTrue` relates the two: the recorded reason is the
router's, except that the deadline may have passed between them and then takes the place
of another budget.  `Holds` says what each of them means for the counters.

### RunbookIndex

`index` is `runbook_embeddings`; a row is its search text, its model and its vector,
which is the pair of the text and the model it was computed from.  SHA-256 is
taken to be injective.  `ReadIndex`, `EmbedChanged`, `UpsertChanged`, `DeleteStale` are
the steps of `index_sections`; a process may stop anywhere (`Stop`) and start
again.  The table starts with any rows that earlier releases may have left.
`disturbed[r]` is a history variable: whether a process of another release has
changed the table since r last read it.

### RunbookSearch

A search is given a score for each section the index holds (`Unknown` for the others);
`Search` ranks and cuts as both retrievers do: `Ranked` lists hits by the number of hits
that come before them, which is what sorting by a strict total order gives.  `Relevant` is the threshold of the single-pass
graph and of `search_runbooks`, `Merge` is
`_merge_sections`: the best hit of each section, ranked and cut.  In single-pass mode one search by the incident's own `query` makes the
context (`RetrieveContext`); in ReAct mode up to `MaxSearches` are merged (`SearchRunbooks`).  `best`
remembers the best score that any search returned of each section, and is read by
the property only.  The metrics are operators on the final state; a quotient is the
pair of its two numbers, so that nothing is rounded.  A retrieval case reads no graph
(`RetrievalResult`): it searches by itself, by the same query of the incident, with a limit of its
own.  `EvaluationAgrees` relates the two kinds of cases: where an assessment passes, a retrieval
case that allows as many hits passes too.  `convincing` stands for the
coverage of terms and the confidence that an evaluation case asks for.

### Investigation

EXTENDS `ReActGraph` and INSTANCEs `JobQueue` over variables of its own.  For one worker,
the `Investigator`, the abstract `WorkflowEnds` of the queue is replaced by the graph: `GraphStep`
runs a node while its attempt is in the operation, `GraphEnds` turns what the graph returned
or raised into the result of the attempt (`ResultOf`: only transient errors are tried
again).  Every other step is a step of the queue (`QueueStep`); `Follows` says what it means
for the graph: an attempt that ends, by a lost heartbeat, a crash or its own result, drops
the state of the graph, and the next one starts with `Invoke`.  `stored` holds the provenance
columns of a report; its evidence is the trajectory (`react_steps`), since the observed IDs have
no column.  So `StoredReportsAreGrounded` is about what an auditor can work out from the
trajectory: `ShownBy` joins what its calls named, and `IsTraced` asks of a finalization to name
no more than the steps before it showed, or to be marked as an error.  The other worker and the direct execution stay as abstract as in
`JobQueue`.

### DiagnosticTools

An incident is four lists of records.  Which text occurs in which is a constant relation,
a time is its distance to the start of the incident, an evidence ID a model value given
by the incident (the hash of the content in the code, taken to be injective).  `Asked` is
what matches, `Found` what is left of log entries after the cut, `Answer` the observation.
`Comparable` is false when a time with a zone would be compared with one without: the code
raises a `TypeError` that leaves the toolkit and the graph, so no answer comes and the
graph ends by `ToolFails`; it does not count as an error of the tool.  `shown` is a history variable: the data whose
IDs were given out.

### ReportReview

`LockReport` waits for the row lock and reads; `RefuseReview` and `CommitReview` decide;
`AbortReview` is a failed transaction or a dead connection, which rolls back and
releases the lock.  An answer that is lost on its way is a request in state `reviewed` of
which nobody hears: `ReviewFails` of the dashboard does not look at the state of the
request.  Whoever repeats a review sends a new request.  `asked`, the body, is forgotten when
a request fails.

### Dashboard

EXTENDS `ReportReview`.  A tab shows the status of the report in its list and in its drawer.
A refresh is asked for, read by the API, and handled, in three steps (`StartRefresh`,
`ReadReports`, `FinishRefresh`), and may fail at any of them; two may overlap: one by the timer or the
button, one that `review()` waits for.  More overlapping refreshes by the timer would carry
statuses that were read at some time too, which is all that the two slots are about.  A refresh asks for the hundred newest reports:
`listed` is whether this one is among them, and once it is not (`LeaveList`) it never is again, as
creation times do not change.  An answer without the report takes it off the list and leaves an
open drawer as it is (`Selection`), so that such a drawer may show a pending report for ever
that somebody else has decided; a decision from it is refused like any other late one.  There is
one report; the audit history shown, the banners and the form for new jobs are left out.

### Migrations and SchemaRevisions

A revision is a set of objects that its upgrade creates (columns with whether an INSERT
may leave them out, indexes, constraints, types, the extension) and the tables and names
that its downgrade drops.  `SchemaRevisions` transcribes the seven of RootPilot and the four
models; `Migrations` has them as constants.  A migrator reads the revision (`Begin`) and takes
its steps in one transaction.  Alembic runs the statements of a revision first (`Alter`): they
wait for the locks of other transactions (`Locked`) and are refused when the schema or the
rows do not admit them (`Accepted`).  Then it writes the version (`Stamp`), by an UPDATE or a DELETE that has
to match a row, or from the empty table by an INSERT, which nothing checks but the key
(`CanStamp`).  `Commit` makes all of it visible; a refusal, of whichever kind, a deadlock or a dead
process is `Abort`, which undoes all of it.  So a migrator that raced another is stopped late,
after statements of its own, and `LateMigratorsAreRefused` says that it is: a migrator that
started from the empty database, whose INSERT nobody checks, is stopped by the first CREATE
TABLE.  What PostgreSQL accepts is `Upgradable` and `Downgradable`.  `populated` remembers
which tables have rows, all that matters to a new column.  Whether rows satisfy a CHECK
that is added to their table is not compared: the values of rows are not in the model, and
the program writes none that fail the ones that are added.  That Alembic creates
`alembic_version` at the start of the first migration is left out: two first migrators may
already meet there, and the model lets them go on to `CREATE TABLE`.

## 3. Runs

| Run | Instance | Shows |
|---|---|---|
| `queue_safety` | 2 jobs (1 and 2 attempts), 2 workers, one with a long identifier, 1 direct execution, every PATCH, stalls, 1 fault, fairness | the safety and action properties of the queue, that it implements `JobLifecycle`, and that what is queued or leased does not stay so for ever |
| `investigation` | 1 job with 2 attempts, 2 workers, one with a long identifier, 1 direct execution, PATCH to processing, no stalls, 2 faults, a metric and a runbook section, 3 iterations, 2 calls, 1 repair, fairness | whoever works on a job holds its row; a stored report can be audited from the trajectory stored with it; the composition implements `JobQueue` with its fairness |
| `queue_ownership` | 1 job, 2 workers, stalls | violated: a former owner decides a job (README.md:301, 308) |
| `queue_stuck` | 1 job, a direct execution, 1 fault, fairness | violated: a job stuck in processing (README.md:303) |
| `queue_one_outcome` | 1 job, 1 worker, no fault | violated: a persisted investigation is handled as failed (README.md:276-281) |
| `react_safety` | one action per tool and a second metrics query, 2 sections, 2 scores, a context of 1 section, 6 iterations, 5 calls, 2 errors, 2 stalls, 1 repair | budgets, grounding, the reason recorded against the limit found, bounded supersteps |
| `react_limit` | the same | violated: a deadline fails a job that has evidence enough (README.md:355) |
| `index_sync` | 3 citations, 2 releases, 3 processes, any earlier table | vectors match, a ready process searches exactly its sections |
| `search` | 3 sections, 4 scores or missing, limits 1 to 3, a context of 2, 3 searches | merging step by step keeps the best of all; assessment cases, retrieval cases and graphs agree |
| `review` | 3 requests, 2 of them by a tab of the dashboard, authentication, the report leaves the list at any time or not at all, fairness | one decision, a true history, no lock left behind; the tab never shows a wrong verdict, and shows the right one of a listed report in the end |
| `migrations` | the 7 revisions and models of RootPilot, 2 migrators, targets 0, 4 and 7, any rows | the schema is that of its revision, the head that of the models, no step is refused unless it comes too late, one that does is, older releases can write |
| `tools` | one incident with a log line that occurs twice and more lines than fit, one that mixes time zones; 8 actions, with two windows over logs and two over changes, 2 log results, 3 iterations | evidence is what was shown, a wider window finds more, the tools implement `ReActGraph` |

Bounds.  Two jobs and two workers are the least with which a sweep fails one job
while another is claimed, a worker takes over from another, and the first comes
back.  `MaxAttempts` of 1 and 2 covers both branches of a requeue and of a sweep.
`MaxFaults` counts crashes and failed transactions: one is enough for each fault in
every state; the proofs have no bound.  In `react_safety` six actions
for five tools with five calls let every tool be tried, so that the loop can stop
for lack of progress, and leave an action that only the budget prevents; a context of one section lets the second one evict the first.  The deepest
behaviour has 19 supersteps, which is the bound that `SuperstepsBounded` states
for this instance.  `index_sync` has no counter and is complete.  In `search` a third search can bring back
a section that the second one evicted, with the context full.  In `investigation` three
iterations with two calls let an attempt observe all there is and one more, and two
attempts of a job let the second follow a cancelled first one, and the second fault lets a lost
commit come after a crash.  What several jobs do to each other is the subject of
`queue_safety`; that a job is stored with its own trajectory is proved for any number of them.  In `review` two requests of a tab are a review and its
repetition, and the third comes from elsewhere.  In `migrations` two migrators are the
least that race, and each may come late at every revision; target 4 lies before the revision that alters tables with rows.  In
`tools` the duplicate of the first line is what makes an ID appear once for two entries,
and pushes the other line out of a wide search: `WideningFindsMore` meets an answer that was cut,
for logs, and one that was not, for changes.

`react_safety`, `react_limit`, `tools` and `investigation` have longer records in `steps` than the
graph looks at.  The first three tell states apart by the view `ToolsOfSteps`, in which the steps
count by their tools only: no action and no property of these runs reads more of them
(`Attempted`).  `investigation` reads them all and has no view.

No configuration switches the check of deadlocks off.

Fairness.  `FairSpec` of `JobQueue`: an asyncio task that can run does run, database
and model calls end (clients have timeouts, the graph a bounded number of calls),
and a stopped worker is restarted (`supervise_embedded_worker`, the restart policy of
the container).  Heartbeats are not fair (a worker may stall), no operator and no
command line is obliged to begin; one that has begun goes on.  Each worker claims
an available row if there is one for long enough, since locks are held for one
short transaction.  `InvestigationFairness` replaces what `JobQueue` assumes of the workflow of the `Investigator` by
fairness of single nodes: each call of a model or tool ends.  `DashboardFairness`: a request
being served goes on, the timer ticks, an answer that is awaited comes or fails, and of
the refreshes that the timer asks for again and again some succeed (strong fairness of
`ReadReports` and `FinishRefresh`, of these only).  No operator is obliged to anything.

## 4. What the violations mean

Each is a statement of the documentation that the code does not keep; the findings
of `PROJECT.json` quote both.  The queue fences neither persistence nor failure by
`claimed_by`: a worker that was presumed dead decides for its successor.  That is safe for
the data (`FinishedIsFrozen`, `ReportedIsCompleted` hold, and are proved) and costs a
run or a wrong failure.  When the operation commits while its heartbeat waits for
the row, the heartbeat raises on the completed row, and the worker, trying to fail
a job that is completed, ends with `JobNotProcessingError` and is restarted.  A direct
execution that dies leaves a row without a lease, which nothing recovers.  (README.md:677
calls a completed job one with a report; a PATCH to completed, which the API allows
an operator, makes one without.  That is in the model and needs no run.)

Worker identifiers over 255 characters are in the model (`LongIdWorkers`): a claim
stores the first 255 characters and a renewal compares all of them
(`services/job_queue.py:99`, `:204`), so such a worker fails every job that outlives one
heartbeat period, although it holds the row.  `queue_safety` runs one, and shows that the
jobs end even so; no property says that heartbeats of holders succeed, because they do not.

## 5. Proofs

All theorems are checked by TLAPS from no other assumption than the named ones on
constants and what their `ASSUME` says.  Every safety invariant and action property that a
passing run checks is stated by one of them.

`JobQueueProofs`, from `QueueAssumption` (every job has 1..10 attempts, names are distinct), for any
number of jobs, workers, direct executions and faults.  The argument has two layers.  `NextMoves` shows that every step moves each
row in one of a few ways (`RowMove`: as it was, created, claimed from a row that no
live lease protects, swept, started, retried with attempts left, ended, renewed, ...)
and each report at most once, together with the completion of its job (`ReportMove`).
The invariants of the table are then proved from moves and not from actions.  The
inductive invariant `IInv` joins the type invariant with the four row
invariants (`RowsAgree`, `QueuedHasAttempts`, `ReportedIsCompleted`, `CommittedIsDurable`), the shape of a
worker (`WorkerShape`: what `task`, `op` and `hb` are at each `pc`) and `AbsentIsNew`.  The shape is
what makes it inductive: that a handler has a job to settle, and that a committed
operation belongs to the job of its worker.

| Theorem | States |
|---|---|
| `QueueInvariant` | `Spec => []IInv` |
| `TypeCorrect`, `RowsAlwaysAgree`, `QueuedJobsHaveAttempts`, `ReportsAreOfCompletedJobs`, `CommittedReportsAreDurable` | the invariants of `queue_safety` |
| `FinishedJobsAreFrozen`, `NoDoubleClaims` | its action properties |
| `HoldersAreExclusive` | `HoldsItsJob`, when no lease runs out under a working holder and operators do not end running jobs |
| `QueueImplementsLifecycle` | the refinement of `JobLifecycle` |

`ReActGraphProofs`, from `GraphAssumption` (finite tools and evidence, budgets of at least one).
First the context: `Ahead` is a strict total order, so of any non-empty set of
sections one is first (`SomeSectionIsFirst`) and one is last (`SomeSectionIsLast`); both come from
the well-foundedness of strict inclusion on finite sets, applied to the sets of
sections ahead of each one.  Hence `KeepBestIsBounded` (the last section kept has all others
kept ahead of it, and fewer than the limit) and `KeepBestKeepsOne` (the first one stays).
Then the graph: `IInv` says for each node what is known there of budgets (`Budgeted`:
not used up while the loop goes on), evidence and decision (`Grounded`), reason
(`Reasoned`: no reason before the loop is left, and on the way to `limit_finalize` the limit that
the router found is still the first one) and nodes run (`Counted`: 2 per iteration and 2 per repair).

| Theorem | States |
|---|---|
| `GraphTypeCorrect`, `BudgetsAlwaysHold`, `CompletionsAreGrounded`, `GenerationsAreGrounded`, `ReasonsAreTrue`, `GraphIsBounded` | the invariants of `react_safety`, for any budgets, tools and sections |
| `SufficiencyNeverLost` | its action property: eviction never empties the context |
| `TraceHolds` | `Traced`, in every state: what was observed is what the calls of the trajectory named, every step is traced, there is one for each iteration, and only the last one can be an accepted finalization |

`GraphIsBounded` is what stands for termination: it gives the number of nodes
that the recursion limit of the graph runtime must not be below.  The code sets none, and the
one that the runtime has by default is not in the source, so that the comparison is left to
the deployment.

`RunbookIndexProofs`, from `IndexAssumption`.  `ReadyIsExact` says nothing of a process that is not ready;
`Synced` adds what each step of `index_sections` has established, unless another release
has written: before the upsert every section not in `changed` is held, after it every
section, after the delete nothing else is.  `OthersStaySynced` is the core: a write of the same
release can only bring a section in line or remove what neither knows.

| Theorem | States |
|---|---|
| `IndexTypeCorrect`, `SearchesAreComparable`, `ReadySearchesItsRelease` | the invariants of `index_sync`, for any number of processes and releases |

`RunbookSearchProofs`, from `SearchAssumption`, for any number of sections and searches, any
scores, limits and size of the context.  The first part is about rankings, without induction:
`Before` is a strict total order, so the number of hits before a hit is a bijection from a
finite set of hits onto an interval (`PlaceIsBijection`), `Ranked` is its inverse, and the
first n of a ranking are the hits with fewer than n before them (`Leading`, `CutRanked`).  The second
is `MergeIsLossless`: a hit that was cut off had enough hits of other sections before it, and
these, or better hits of the same sections, are before it for ever (`LeadersAmongBest`); so the
leading hits of the old context and a new search are those of everything found so far.  `SInv`,
the inductive invariant, joins `TypeOK`, `ContextIsBestOfAll`, that the context of the single-pass graph is
what its query finds (`HoldsItsSearch`), and that a complete investigation has a valid
assessment.  `EvaluationAgrees` follows with `LargerLimitsFindMore`: a ranking cut later holds all
that one cut earlier holds; `MetricsAgree` by counting.

| Theorem | States |
|---|---|
| `SearchInvariant` | `Spec => []SInv` |
| `SearchTypeCorrect`, `ContextIsAlwaysBest`, `EvaluationAlwaysAgrees`, `MetricsAlwaysAgree` | the invariants of `search` |

`InvestigationProofs`, from `QueueAssumption`, `GraphAssumption` and that the `Investigator` is a worker.
`Composed` joins the invariants of the graph (`IInv` and `Traced` of `ReActGraphProofs`, whose lemmas
about a step of the graph are used again), the types of the queue variables it needs, that an
attempt which is about to persist has a complete graph, and that every report the
`Investigator` stored is auditable (`Auditable`: the body of `StoredReportsAreGrounded`, which follows
from `Traced` when the graph is complete).  What makes it
inductive is that a step of the queue either leaves the graph alone or invokes it anew, so
that the invariant of the graph holds in every attempt.

| Theorem | States |
|---|---|
| `CompositionInvariant` | `InvestigationSpec => []Composed` |
| `StoredReportsAreAuditable` | `StoredReportsAreGrounded`, for any jobs, workers, attempts and budgets |
| `AttemptsAreBounded` | the budgets, the bound on nodes and the grounding of completions hold in every attempt |
| `InvestigationRefinesQueue` | `InvestigationSpec => Queue!Spec`: the safety part of `ImplementsQueue` |
| `InvestigatorsAreExclusive` | `HoldsItsJob`, when no lease runs out under a working holder and operators only put jobs into processing, as in `investigation` |
| `QueueKeepsItsPromises` | durable reports, exclusive claims, frozen outcomes and the refinement of `JobLifecycle` hold of the composition |

The last two are theorems of `JobQueueProofs`, taken over by an instance of that module,
`QueueFacts`.  Its copies of the definitions are different symbols from those of the instance
`Queue` in `Investigation`; `OneQueue` shows that they are the same state formulas and actions.

`DiagnosticToolsProofs`, from `GraphAssumption` and `ToolAssumption`: that `Answer` and
`SearchAnswers` are among the `Observations` of `ReActGraph` gives the step simulation.

| Theorem | States |
|---|---|
| `ToolsImplementGraph` | `ToolSpec => ReActGraph!Spec`, for every catalog of incidents and all arguments |
| `EvidenceIsAlwaysShown`, `WideningAlwaysFindsMore` | the invariants of `tools` |

`ReviewProofs`, from `ReviewAssumption`, for any number of requests.  The inductive invariant
adds to the three properties that the request inside a transaction is the one that holds
the lock and that what it read is still true (`LockProtects`), and that a request has a body from
the moment it is sent until it fails (`IInv`).  With the dashboard `TabInv` adds, for any number of tabs, that a verdict under way to
a tab is the recorded one, or says that the report is not listed, and that `review()` refreshes only after its request was answered
(`ArrivesTrue`).

| Theorem | States |
|---|---|
| `ReviewTypeCorrect`, `HistoryIsAlwaysTrue`, `AnswersAreRecorded` | the invariants of `review` about the server |
| `DashboardImplementsReview` | `DashboardSpec => Spec`, so that they hold behind the dashboard too |
| `ShownIsAlwaysRecorded` | `ShownIsRecorded` |

`MigrationsProofs`, for any number of migrators and any targets.  The first part is about any
chain of revisions of which each fits (`Chain`, that is `RevisionFits` for all of them).  The
inductive invariant `MInv` says of
the database that it has one version and the schema of it, and of the open transactions that
their positions are in order (`Underway`: found, written, ran, target), that one which has
written a version started from the row that is there, that at most one has, and that
no two have locked the same table.  Each step is then accepted because `View`, the schema with the statements that
have run, is that of the revision they lead to (`UpgradesLead`, `DowngradesLead`).  A late migrator
cannot write (`StampIsCurrent`): an UPDATE matches only the row that is there, and for the INSERT
the first revision has an object that exists already (`FirstStepNeedsEmpty`), which is why `Chain` also
asks that it creates something of which CREATE is not tolerant.  The second part is about
`SchemaRevisions`: `RootPilotIsChain` goes through the seven revisions, with what each object's
name and table say of where it comes from (`EarlierStays`, `CreatedGoes`), and `HeadMatchesModels`
compares what all of them leave with what the models declare.  `RootPilot` is that the constants are
those of `MCMigrations`.

| Theorem | States |
|---|---|
| `MigrationInvariant` | the inductive invariant, from `Chain` |
| `SchemaFollowsRevision`, `NoStepIsRefused`, `LateMigratorsAreStopped`, `ReleasesKeepWriting` | `SchemaIsOfRevision`, `StepsAreAccepted`, `LateMigratorsAreRefused`, `OldReleasesCanWrite`, from `Chain` |
| `RootPilotIsChain`, `HeadIsAlwaysModels` | `Chain` and `HeadIsModels`, of RootPilot |
| `MigrationsAreSafe` | the four properties of a chain, of RootPilot |

Only model-checked: liveness (`QueueDrains`, `RequestsEnd`, `TabsCatchUp`, and the fairness in
`ImplementsQueue`), which is beyond the prover.  The violations are
counterexamples and need no proof.

## 6. Plan

1. Done: `JobQueue` with its refinement and its proofs; `ReActGraph`; `RunbookIndex`;
   `RunbookSearch`; `ReportReview` with `Dashboard`; `Investigation`; `DiagnosticTools`;
   `Migrations`; proofs of all of them.
2. Next, models: the columns of a runbook row outside its hash; the incident of a job
   next to the one that a direct execution investigates; several reports in a tab.
3. Next, proofs: that the context of `ReActGraph`, a set, is that of `RunbookSearch` without its
   order; which of the moves of a row `JobQueue` can make without its holder, the complement of
   `NoDoubleClaims`.

Not modelled, and why: prompts, adapters and their HTTP calls are outside services
of which the models take every admissible answer; loaders and settings run once at
start on files of the release; the listings only read; a token is verified and its role compared
in one stateless decision per request; observability is read by no decision.  The full list with reasons is under
`components` in `PROJECT.json`.
