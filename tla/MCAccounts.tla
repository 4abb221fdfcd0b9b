------------------------------ MODULE MCAccounts ------------------------------
(* A small instance of Accounts for TLC.                                   *)
EXTENDS Accounts, TLC

\* Handler slots are interchangeable.
Symmetry == Permutations(Requests)
=============================================================================
