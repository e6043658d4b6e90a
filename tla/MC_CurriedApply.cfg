CONSTANTS
  S = S
  U = U
  x = x
  y = y
  z = z
  f = f
  g = g
  Sorts <- MCSorts
  Vars = {x, y, z}
  VarSort <- MCVarSort
  Funs = {f, g}
  Sig <- MCSig
  Atoms <- BinaryAtoms
  Formulas <- BinaryFormulaSet
  SortIds <- MCSortIds
  DeclIds <- MCDeclIds
  FormulaIds <- BinaryFormulas
SPECIFICATION Spec
INVARIANTS
  PrintedProofIsLFSC
