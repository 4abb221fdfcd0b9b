CONSTANTS
  u1 = u1
  r1 = r1
  r2 = r2
  p1 = p1
  p2 = p2
  Users = {u1}
  NumSessions = 1
  Requests = {r1, r2}
  Reapers = {p1, p2}
  Drainer = Drainer
  NoUser = NoUser
  MaxConcurrentSessions = 2
  Ops = {"start", "stop", "check", "delete"}
  Faults = {"exit", "start", "remove"}
  SlowStart = TRUE
SPECIFICATION Spec
SYMMETRY Symmetry
INVARIANTS
  SolvedBacked
  CreditGranted
PROPERTIES
  ProgressSticky
