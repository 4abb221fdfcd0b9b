CONSTANTS
  w1 = w1
  w2 = w2
  s1 = s1
  s2 = s2
  Sockets = {w1, w2}
  Shells = {s1, s2}
  NoShell = NoShell
  Races = {"overlap", "earlyClose", "lateEnd", "vanish", "behind", "sigterm"}
SPECIFICATION Spec
SYMMETRY Symmetry
\* After the shutdown, once the container is gone, nothing is left to do.
CHECK_DEADLOCK FALSE
INVARIANTS
  TypeOK
  GraceArmed
