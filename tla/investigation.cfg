SPECIFICATION InvestigationFairSpec
CONSTANTS
  j1 = j1
  j2 = j2
  w1 = w1
  w2 = w2
  c1 = c1
  m1 = m1
  r1 = r1
  e1 = e1
  Jobs = {j2}
  Workers = {w1, w2}
  Clis = {c1}
  MaxAttempts <- TwoAttempts
  KnownJobs = {j2}
  LongIdWorkers = {w2}
  OperatorTargets = {"processing"}
  StallPossible = FALSE
  MaxFaults = 2
  Investigator = w1
  Actions = {m1, r1}
  ToolOf <- Tools
  EvidenceOf <- OneMetric
  NumSections = 1
  MaxScore = 1
  MaxIterations = 3
  MaxToolCalls = 2
  NoProgressLimit = 1
  MaxToolErrors = 1
  MaxContextSections = 1
  MinEvidenceItems = 1
  MaxRepairAttempts = 1
INVARIANTS
  HoldsItsJob
  StoredReportsAreGrounded
PROPERTY ImplementsQueue
