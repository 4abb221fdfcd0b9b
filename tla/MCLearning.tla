---- MODULE MCLearning ----
EXTENDS Learning, TLC
CONSTANTS a, b, disks, lost, r1, r2, t1
MCEntry(cat, n) == [category |-> cat, hints |-> 1..n]
\* The second release adds a migration that sorts first, a hint and a challenge
\* to the first; in the third the new challenge names an unknown category.
MCReleases == {
  [files |-> {2}, disk |-> [s \in Slugs |-> IF s = a THEN MCEntry(disks, 1) ELSE NoEntry]],
  [files |-> {1, 2}, disk |-> [s \in Slugs |-> IF s = a THEN MCEntry(disks, 2) ELSE MCEntry(disks, 0)]],
  [files |-> {1, 2}, disk |-> [s \in Slugs |-> IF s = a THEN MCEntry(disks, 2) ELSE MCEntry(lost, 0)]]}
Symmetry == Permutations(Reveals)
====
