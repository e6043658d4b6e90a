CONSTANTS
  t1 = t1
  t2 = t2
  t3 = t3
  Terms <- MCTerms
  NotInMap = NotInMap
  DiseqPropagation = FALSE
  ColoringSat = FALSE
  TotalityLimited <- NoTotality
  SmartSplits = FALSE
  TotalityLazy = FALSE
  AppArgs <- NoApps
  Children <- NoChildren
  UseRegions = TRUE
  EagerSplits = FALSE
  MinimalModel = TRUE
  CliqueMode = "simple"
  AbortCardinality <- NoAbort
  MaxCardinality = 2
  MaxLevel = 1
SPECIFICATION Spec
SYMMETRY TermSymmetry
INVARIANT
  MinimizeInBounds
