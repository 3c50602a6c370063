\* A rename between the Save and the links of a release finds no link.
SPECIFICATION Spec
CONSTANTS
  Cases = {c1}
  NoCase = none
  CaseStatuses = {"filed"}
  Sides = {"opposing"}
  Parties = {p1}
  Keys = {k1}
  Slots = {r1, r2}
  Spellings <- MCSpellings
  Forms <- MCForms
  Blank = ""
  Norm <- MCNorm
  Opponents <- OneOpponent
  Identities <- OneIdentity
  Updates <- NameAndContact
  Kinds = {"submit", "get", "list", "release", "reject", "update"}
  CheckNoClash = TRUE
  Nothing = nothing
  MaxVersion = 2
SYMMETRY Symmetry
PROPERTIES
  IdentityChangeRevokes
