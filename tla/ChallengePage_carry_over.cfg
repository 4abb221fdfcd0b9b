CONSTANTS
  a = a
  b = b
  Slugs = {a, b}
  NumSessions = 1
  MaxAttempts = 1
  MaxStray = 1
  MaxClosing = 1
  Unknown = Unknown
  None = None
SPECIFICATION Spec
INVARIANTS
  NoCarryOver
