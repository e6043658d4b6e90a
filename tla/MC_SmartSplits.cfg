CONSTANTS
  t1 = t1
  t2 = t2
  t3 = t3
  t4 = t4
  Terms <- MCTerms
  NotInMap = NotInMap
  DiseqPropagation = FALSE
  ColoringSat = FALSE
  TotalityLimited <- NoTotality
  SmartSplits = TRUE
  TotalityLazy = FALSE
  AppArgs <- NoApps
  Children <- AppChildren
  UseRegions = TRUE
  EagerSplits = FALSE
  MinimalModel = TRUE
  CliqueMode = "simple"
  AbortCardinality <- NoAbort
  MaxCardinality = 2
  MaxLevel = 0
SPECIFICATION Spec
\* No symmetry: the children make t1..t4 distinguishable.
CONSTRAINT DiseqBound
INVARIANT
  SmartSplitsPreferScore
