CONSTANTS
  u1 = u1
  u2 = u2
  u3 = u3
  r1 = r1
  p1 = p1
  Users = {u1, u2, u3}
  NumSessions = 3
  Requests = {r1}
  Reapers = {p1}
  Drainer = Drainer
  NoUser = NoUser
  MaxConcurrentSessions = 2
  Ops = {"start", "stop"}
  Faults = {"crash"}
  SlowStart = FALSE
SPECIFICATION Spec
SYMMETRY Symmetry
INVARIANTS
  OneActivePerUser
  CapRespected
  NoOrphanContainer
  OrphansRemoved
