CONSTANTS
  r1 = r1
  r2 = r2
  Terms <- MCTerms
  IncrementalSolving = TRUE
  TermDbCd = FALSE
  RegisterQuantBodyTerms = FALSE
  MaxUserLevel = 2
SPECIFICATION Spec
CONSTRAINT ChecksBound
SYMMETRY MCSymmetry
INVARIANTS TermsInDatabase
