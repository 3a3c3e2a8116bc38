SPECIFICATION Spec
CONSTANTS
  NumSections = 3
  MaxScore = 3
  MinimumScore = 1
  Limits <- AnyLimit
  MaxContextSections = 2
  MaxSearches = 3
INVARIANTS
  TypeOK
  ContextIsBestOfAll
  
  MetricsAgree
