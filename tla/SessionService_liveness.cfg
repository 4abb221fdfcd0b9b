CONSTANTS
  u1 = u1
  r1 = r1
  p1 = p1
  Users = {u1}
  NumSessions = 1
  Requests = {r1}
  Reapers = {p1}
  Drainer = Drainer
  NoUser = NoUser
  MaxConcurrentSessions = 2
  Ops = {"start", "stop", "check", "delete"}
  Faults = {"exit", "start", "query", "crash", "term"}
  SlowStart = TRUE
SPECIFICATION FairSpec
INVARIANTS
  TypeOK
  StaleMarked
PROPERTIES
  IdleReaped
  SolvedReaped
  DrainEnds
  RestartsHeal
