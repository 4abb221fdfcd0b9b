------------------------- MODULE MCTerminalRegistry -------------------------
(* Small instances of TerminalRegistry for TLC.                            *)
EXTENDS TerminalRegistry, TLC

\* Sockets and shell identifiers are interchangeable.
Symmetry == Permutations(Sockets) \cup Permutations(Shells)
=============================================================================
