---- MODULE MCBrowser ----
EXTENDS Browser, TLC
CONSTANTS a1, a2, q1, q2
Symmetry == Permutations(Accounts) \cup Permutations(Requests)
====
