SPECIFICATION FairSpec
CONSTANTS
  j1 = j1
  j2 = j2
  w1 = w1
  w2 = w2
  c1 = c1
  Jobs = {j1}
  Workers = {w1, w2}
  Clis = {c1}
  MaxAttempts <- TwoAttempts
  KnownJobs = {j1}
  LongIdWorkers = {}
  OperatorTargets = {}
  StallPossible = FALSE
  MaxFaults = 1
PROPERTY JobsEnd
