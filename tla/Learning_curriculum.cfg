CONSTANTS
  a = a
  b = b
  disks = disks
  lost = lost
  r1 = r1
  r2 = r2
  t1 = t1
  Slugs = {a, b}
  Files = {1, 2}
  Known = {disks}
  Releases <- MCReleases
  NoEntry = NoEntry
  NoSlug = NoSlug
  NoFile = NoFile
  None = None
  MaxAttempts = 2
  Reveals = {r1, r2}
  Tabs = {t1}
  NumSessions = 2
  MaxBoots = 2
SPECIFICATION Spec
SYMMETRY Symmetry
\* After the last start the process may stay down.
CHECK_DEADLOCK FALSE
INVARIANTS
  ViewsAgree
  ChargedExist
  CelebrationEarned
PROPERTIES
  ReleaseServed
