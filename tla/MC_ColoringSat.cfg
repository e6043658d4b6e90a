CONSTANTS
  t1 = t1
  t2 = t2
  t3 = t3
  Terms <- MCTerms
  NotInMap = NotInMap
  DiseqPropagation = FALSE
  ColoringSat = TRUE
  TotalityLimited <- NoTotality
  SmartSplits = FALSE
  TotalityLazy = FALSE
  AppArgs <- AppsAll
  Children <- NoChildren
  UseRegions = TRUE
  EagerSplits = FALSE
  MinimalModel = TRUE
  CliqueMode = "explained"
  AbortCardinality <- NoAbort
  MaxCardinality = 2
  MaxLevel = 1
SPECIFICATION Spec
\* No symmetry: AppArgs orders the terms.
INVARIANT
  ModelWithinBound
