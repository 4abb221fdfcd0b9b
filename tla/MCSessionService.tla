-------------------------- MODULE MCSessionService --------------------------
(* Small instances of SessionService for TLC.                              *)
EXTENDS SessionService, TLC

\* Users, handler slots and reaper runs are interchangeable.
Symmetry == Permutations(Users) \cup Permutations(Requests) \cup Permutations(Reapers)
=============================================================================
