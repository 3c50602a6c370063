\* One new matter, two opponents in one or two cases.
SPECIFICATION Spec
CONSTANTS
  Cases = {c1, c2}
  NoCase = none
  CaseStatuses = {"filed", "closed"}
  Parties = {p1, p2}
  Keys = {k1}
  Spellings <- MCSpellings
  Forms <- MCForms
  Blank = ""
  Norm <- MCNorm
  NameInputs = {"Wu ", "li"}
  IdInputs = {"", "x1"}
  Sides = {"opposing"}
  MaxVersion = 3
SYMMETRY Symmetry
INVARIANTS
  TypeOK
  RowIntegrity
  BindingsMirrorMatched
  ReleasedRowsAreCurrent
  ReleaseCoversOnlyApproved
  ProceedJustified
PROPERTIES
  RejectedIsFinal
