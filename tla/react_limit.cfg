SPECIFICATION Spec
CONSTANTS
  m1 = m1
  m2 = m2
  l1 = l1
  d1 = d1
  h1 = h1
  r1 = r1
  e1 = e1
  e2 = e2
  Actions = {m1, m2, l1, d1, h1, r1}
  ToolOf <- Tools
  EvidenceOf <- OneEach
  NumSections = 2
  MaxScore = 2
  MaxIterations = 6
  MaxToolCalls = 5
  NoProgressLimit = 2
  MaxToolErrors = 2
  MaxContextSections = 1
  MinEvidenceItems = 2
  MaxRepairAttempts = 1
VIEW ToolsOfSteps
INVARIANT LimitFailsInsufficient
