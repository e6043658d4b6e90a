CONSTANTS
  t1 = t1
  t2 = t2
  t3 = t3
  t4 = t4
  Terms <- MCTerms
  NotInMap = NotInMap
  DiseqPropagation = FALSE
  ColoringSat = FALSE
  TotalityLimited = 1
  SmartSplits = TRUE
  TotalityLazy = TRUE
  AppArgs <- NoApps
  Children <- NoChildren
  UseRegions = TRUE
  EagerSplits = FALSE
  MinimalModel = TRUE
  CliqueMode = "simple"
  AbortCardinality <- NoAbort
  MaxCardinality = 2
  MaxLevel = 0
SPECIFICATION Spec
SYMMETRY TermSymmetry
CONSTRAINT DiseqBound
INVARIANTS
  NoFailedAssertion
  DiseqGraphConsistent
  EEAgreement
  FullCheckDecides
  TotalityWitnessesExist
