------------------------------ MODULE Terminal ------------------------------
(***************************************************************************)
(* What the terminal of a challenge promises (decisions/0028), without the *)
(* registry, the listeners and the timers that bring it about: one bash at *)
(* a time, which everybody who comes joins, and which the backend ends     *)
(* only if nobody uses it or its session is over.                          *)
(***************************************************************************)
CONSTANTS
  Sockets, \* the connections of the session's user
  Shells,  \* bash processes
  NoShell

VARIABLES
  bash, \* of each process: "none", "runs", or "ended" by the backend
  user, \* the running shell that each connection types into
  over  \* the container is being torn down, has stopped or is gone

vars == <<bash, user, over>>

Running == {i \in Shells : bash[i] = "runs"}

\* The users when those of S have gone.
Without(S) == [w \in Sockets |-> IF w \in S THEN NoShell ELSE user[w]]

Users(i) == {w \in Sockets : user[w] = i}

Init ==
  /\ bash = [i \in Shells |-> "none"]
  /\ user = [w \in Sockets |-> NoShell]
  /\ over = FALSE

\* A connection starts a shell where none runs; it may have gone by then.
Open(w, i) ==
  /\ Running = {} /\ bash[i] = "none"
  /\ bash' = [bash EXCEPT ![i] = "runs"]
  /\ user' \in {user, [user EXCEPT ![w] = i]}
  /\ UNCHANGED over

\* A connection resumes the shell that runs.
Resume(w, i) ==
  /\ i \in Running
  /\ user' = [user EXCEPT ![w] = i]
  /\ UNCHANGED <<bash, over>>

\* Connections close, or are closed.
Leave ==
  /\ \E S \in SUBSET Sockets : user' = Without(S)
  /\ UNCHANGED <<bash, over>>

\* bash exits.
Exit(i) ==
  /\ bash[i] # "none"
  /\ bash' = [bash EXCEPT ![i] = "none"]
  /\ user' = Without(Users(i))
  /\ UNCHANGED over

\* The backend ends a shell that nobody uses.
Abandon(i) ==
  /\ i \in Running /\ Users(i) = {}
  /\ bash' = [bash EXCEPT ![i] = "ended"]
  /\ UNCHANGED <<user, over>>

\* The session ends, and with it what runs in its container.
TearDown ==
  /\ over'
  /\ bash' = [i \in Shells |-> IF i \in Running THEN "ended" ELSE bash[i]]
  /\ user' = Without(Sockets)

\* A container stops, or is not removed after all.
Recount ==
  /\ over' \in BOOLEAN
  /\ UNCHANGED <<bash, user>>

Next ==
  \/ \E i \in Shells : \/ \E w \in Sockets : Open(w, i) \/ Resume(w, i)
                       \/ Exit(i) \/ Abandon(i)
  \/ Leave \/ TearDown \/ Recount

Spec == Init /\ [][Next]_vars
=============================================================================
