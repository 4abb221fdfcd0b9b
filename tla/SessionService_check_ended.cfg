CONSTANTS
  u1 = u1
  r1 = r1
  p1 = p1
  Users = {u1}
  NumSessions = 3
  Requests = {r1}
  Reapers = {p1}
  Drainer = Drainer
  NoUser = NoUser
  MaxConcurrentSessions = 3
  Ops = {"start", "stop", "check"}
  Faults = {}
  SlowStart = FALSE
SPECIFICATION Spec
SYMMETRY Symmetry
INVARIANTS
  OneActivePerUser
