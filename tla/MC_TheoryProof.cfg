CONSTANTS
  S = S
  U = U
  x = x
  y = y
  z = z
  f = f
  g = g
  Sorts <- MCSorts
  Vars = {x, y, z}
  VarSort <- MCVarSort
  Funs = {f}
  Sig <- MCSig
  Atoms <- UnaryAtoms
  Formulas <- UnaryFormulaSet
  SortIds <- MCSortIds
  DeclIds <- MCDeclIds
  FormulaIds <- UnaryFormulas
SPECIFICATION Spec
INVARIANTS
  TypeOK
  DeclarationsComplete
  PrintedProofIsLFSC
