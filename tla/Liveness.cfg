\* Requests end, the retries of submissions too, and wait for nobody; opponents
\* are registered and cases closed and reopened while they are in flight.
SPECIFICATION FairSpec
CONSTANTS
  Cases = {c1}
  NoCase = none
  CaseStatuses = {"filed", "closed"}
  Sides = {"opposing"}
  Parties = {p1}
  Keys = {k1}
  Slots = {r1, r2}
  Spellings <- MCSpellings
  Forms <- MCForms
  Blank = ""
  Norm <- MCNorm
  Opponents <- OneOpponent
  Identities <- OneIdentity
  Updates <- NoUpdate
  Kinds = {"submit", "get", "release"}
  CheckNoClash = TRUE
  Nothing = nothing
  MaxVersion = 1
PROPERTIES
  RequestsEnd
  ProceedAnswersWereApproved
