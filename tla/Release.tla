------------------------------ MODULE Release ------------------------------
(***************************************************************************)
(* What deploying a release promises, with none of the steps: every        *)
(* migration runs once and in file order, and requests are served either   *)
(* nothing or a catalogue that has all of the deployed release in it.      *)
(***************************************************************************)
EXTENDS Naturals

CONSTANTS
  Slugs,      \* challenge directories
  Files,      \* migration files, numbered in the order their names sort
  Releases,   \* what can be deployed: [files |-> .., disk |-> ..]
  Known,      \* the categories the backend seeds
  NoEntry     \* a directory that is absent or lacks a required file

VARIABLES
  release,    \* the deployed release
  ran,        \* how often the SQL of each migration took effect
  published   \* {} while nothing is served, else {the served catalogue}

vars == <<release, ran, published>>

\* The challenges of a release that reach the catalogue.
Listed(r) == {s \in Slugs : r.disk[s] # NoEntry /\ r.disk[s].category \in Known}

Init ==
  /\ release \in Releases
  /\ ran = [f \in Files |-> 0]
  /\ published = {}

Deploy ==
  /\ published = {}
  /\ release' \in Releases
  /\ UNCHANGED <<ran, published>>

Migrate(f) ==
  /\ published = {}
  /\ f \in release.files
  /\ ran[f] = 0
  /\ \A g \in release.files : g < f => ran[g] = 1
  /\ ran' = [ran EXCEPT ![f] = 1]
  /\ UNCHANGED <<release, published>>

Publish ==
  /\ published = {}
  /\ \A f \in release.files : ran[f] = 1
  /\ \E served \in published' :
       /\ published' = {served}
       /\ \A s \in Listed(release) : served[s] = release.disk[s]
  /\ UNCHANGED <<release, ran>>

Withdraw ==
  /\ published' = {}
  /\ UNCHANGED <<release, ran>>

Next == Deploy \/ (\E f \in Files : Migrate(f)) \/ Publish \/ Withdraw

Spec == Init /\ [][Next]_vars
=============================================================================
