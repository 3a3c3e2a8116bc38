SPECIFICATION FairSpec
CONSTANTS
  j1 = j1
  j2 = j2
  w1 = w1
  w2 = w2
  c1 = c1
  Jobs = {j1, j2}
  Workers = {w1, w2}
  Clis = {c1}
  MaxAttempts <- AttemptLimits
  KnownJobs = {j1, j2}
  LongIdWorkers = {w2}
  OperatorTargets = {"processing", "completed", "failed"}
  StallPossible = TRUE
  MaxFaults = 1
INVARIANTS
  TypeOK
  RowsAgree
  QueuedHasAttempts
  ReportedIsCompleted
  CommittedIsDurable
PROPERTIES
  FinishedIsFrozen
  ClaimsAreExclusive
  ImplementsLifecycle
  QueueDrains
