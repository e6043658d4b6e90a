CONSTANTS
  t1 = t1
  t2 = t2
  t3 = t3
  Terms <- MCTerms
  NotInMap = NotInMap
  DiseqPropagation = TRUE
  ColoringSat = FALSE
  TotalityLimited = 2
  SmartSplits = FALSE
  TotalityLazy = FALSE
  AppArgs <- NoApps
  Children <- NoChildren
  UseRegions = FALSE
  EagerSplits = FALSE
  MinimalModel = FALSE
  CliqueMode = "simple"
  AbortCardinality <- AbortAt3
  MaxCardinality = 3
  MaxLevel = 0
SPECIFICATION Spec
SYMMETRY TermSymmetry
\* exit(0) at the abort cardinality stops the process: no step follows.
CHECK_DEADLOCK FALSE
INVARIANTS
  TotalityAxiomsComplete
  TotalityWitnessesExist
  RegionDiseqsExact
  SplitsFresh
  MinimizeFormsClique
  AbortCeiling
