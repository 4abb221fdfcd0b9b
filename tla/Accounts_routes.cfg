CONSTANTS
  r1 = r1
  r2 = r2
  x1 = x1
  Requests = {r1, r2}
  ResetTokens = {x1}
  MaxPasswords = 2
  TokenTtl = 2
  Horizon = 3
  NoToken = NoToken
  NoRequest = NoRequest
SPECIFICATION Spec
SYMMETRY Symmetry
\* The clock stops at the horizon.
CHECK_DEADLOCK FALSE
INVARIANTS
  TypeOK
  ResetOnce
  LocksHeldByResets
  OldTokensRejected
  NewTokensAccepted
