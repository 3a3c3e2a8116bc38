SPECIFICATION ToolSpec
CONSTANTS
  metric = metric
  lines = lines
  linesOfAnHour = linesOfAnHour
  changes = changes
  allChanges = allChanges
  elsewhere = elsewhere
  health = health
  search = search
  m1 = m1
  l1 = l1
  l2 = l2
  d1 = d1
  d2 = d2
  h1 = h1
  Actions = {metric, lines, linesOfAnHour, changes, allChanges, elsewhere, health, search}
  ToolOf <- Tools
  EvidenceOf <- OfEachKind
  NumSections = 1
  MaxScore = 1
  MaxIterations = 3
  MaxToolCalls = 3
  NoProgressLimit = 2
  MaxToolErrors = 1
  MaxContextSections = 1
  MinEvidenceItems = 2
  MaxRepairAttempts = 0
  Incidents <- BothIncidents
  Arguments <- Asks
  Occurs <- Texts
  StopWords = {"the"}
  MaxLogResults = 2
  MinimumScore = 1
VIEW ToolsOfSteps
INVARIANTS
  EvidenceIsShown
  WideningFindsMore
PROPERTY ImplementsGraph
