\* The components around cases and conclusions, one at a time.
SPECIFICATION OfficeSpec
CONSTANTS
  Bills = {b1, b2}
  Terms = {good, bad}
  Acceptable = {good}
  Slots = {r1, r2}
  Nothing = nothing
  MaxMonth = 2
  Typed = {"ann", "ann_"}
  Trim <- MCTrim
  Passwords = {"secret", "12345"}
  Short = {"12345"}
  Profiles = {"old", "new"}
  Lifetime = 1
  MaxTime = 1
  MaxActs = 3
  Files = {"pdf", "doc", "exe"}
  Allowed = {"pdf", "doc"}
  Instants = {n1, n2}
  Docs = {d1, d2}
  CaseIds = {"c1", "c2"}
  OpenedCases = {"c1"}
  MaxRows = 3
  Sizes = {0, 1, 2}
  Ips = {ip1, ip2}
  PerMin = 3
  Minute = 3
  Pages = {1, 2}
  Filters = {pending, released}
  MaxAsked = 3
  MaxKey = 2
SYMMETRY Symmetry
INVARIANTS
  OfficeTypeOK
  CountedOnce
  QuietSummaryAddsUp
  RegistrationStands
  TokensCarryTheRole
  AuditTellsWhatHappened
  DocumentsHaveTheirFiles
  NothingMissed
  NoMoreThanPerMin
  RefusedOnceSpent
  DisplayIsExpected
  QueueFollowsInOrder
PROPERTIES
  KeepsThePromise
  PromisedPagesHaveRows
