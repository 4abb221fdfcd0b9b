CONSTANTS
  a = a
  b = b
  Slugs = {a, b}
  NumSessions = 2
  MaxAttempts = 1
  MaxStray = 1
  MaxClosing = 1
  Unknown = Unknown
  None = None
SPECIFICATION FairSpec
INVARIANTS
  TypeOK
  
  ResumeSettles
PROPERTIES
  StoppedNotResumed
  RetriesStop
