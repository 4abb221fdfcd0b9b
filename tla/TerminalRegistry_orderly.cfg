CONSTANTS
  w1 = w1
  w2 = w2
  s1 = s1
  s2 = s2
  Sockets = {w1, w2}
  Shells = {s1, s2}
  NoShell = NoShell
  Races = {"vanish", "behind"}
SPECIFICATION FairSpec
INVARIANTS
  OneShell
PROPERTIES
  
  AbandonedShellEnds
  StreamResumes
  TerminalsClosed
