\* One request at a time, two new matters, two opponents who are both hit and
\* change, in a case that is closed and reopened.
SPECIFICATION AloneSpec
CONSTANTS
  Cases = {c1}
  NoCase = none
  CaseStatuses = {"filed", "closed"}
  Sides = {"opposing"}
  Parties = {p1, p2}
  Keys = {k1, k2}
  Slots = {r1}
  Spellings <- MCSpellings
  Forms <- MCForms
  Blank = ""
  Norm <- MCNorm
  Opponents <- MCOpponents
  Identities <- MCIdentities
  Updates <- MCUpdates
  Kinds = {"submit", "get", "list", "release", "reject", "update"}
  CheckNoClash = TRUE
  Nothing = nothing
  MaxVersion = 2
SYMMETRY Symmetry
INVARIANTS
  LinksMatchSnapshots
PROPERTIES
  RequestsAreHandlers
  AnswersAreJustified
