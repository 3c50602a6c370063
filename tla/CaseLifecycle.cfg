\* One case, one client, two requests in flight, administrators among them.
SPECIFICATION Spec
CONSTANTS
  Cases = {c1}
  Clients = {k1}
  Users = {u1}
  LawyerIds = {u1, u2}
  Roles = {"admin", "staff"}
  Slots = {r1, r2}
  Nothing = nothing
  MaxTime = 2
SYMMETRY Symmetry
INVARIANTS
  TypeOK
  ClosedIsDated
  NoStageSkipped
