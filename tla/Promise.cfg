\* Two new matters, one opponent and one own party possible in one case: the
\* promise of module Clearance.
SPECIFICATION Spec
CONSTANTS
  Cases = {c1}
  NoCase = none
  CaseStatuses = {"filed", "closed"}
  Parties = {p1, p2}
  Keys = {k1, k2}
  Spellings <- MCSpellings
  Forms <- MCForms
  Blank = ""
  Norm <- MCNorm
  NameInputs = {"wu", "li"}
  IdInputs = {""}
  Sides = {"our", "opposing"}
  MaxVersion = 2
SYMMETRY SymmetryOfKeys
PROPERTIES
  KeepsThePromise
