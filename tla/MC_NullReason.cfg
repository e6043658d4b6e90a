CONSTANTS
  t1 = t1
  t2 = t2
  t3 = t3
  Terms <- MCTerms
  NotInMap = NotInMap
  DiseqPropagation = TRUE
  ColoringSat = FALSE
  TotalityLimited <- NoTotality
  SmartSplits = FALSE
  TotalityLazy = FALSE
  AppArgs <- NoApps
  Children <- NoChildren
  UseRegions = TRUE
  EagerSplits = FALSE
  MinimalModel = TRUE
  CliqueMode = "explained"
  AbortCardinality <- NoAbort
  MaxCardinality = 2
  MaxLevel = 0
SPECIFICATION Spec
SYMMETRY TermSymmetry
INVARIANT
  ReasonsDereferenceable
