------------------------ MODULE TerminalRegistryProofs ------------------------
(***************************************************************************)
(* Theorems about TerminalRegistry, for every number of sockets and shells *)
(* and every choice of the admitted races.                                 *)
(***************************************************************************)
EXTENDS TerminalRegistry, TLAPS

\* Closing sockets keeps the type of conn.
LEMMA CloseType ==
  ASSUME TypeOK, NEW S, Close(S)
  PROVE  conn' \in [Sockets -> {"closed", "open", "closing"}]
BY DEF TypeOK, Close

\* endShellSession keeps the types of all it writes.
LEMMA EndShellSessionType ==
  ASSUME TypeOK, NEW S, EndShellSession(S)
  PROVE  /\ registry' \in Shells \cup {NoShell}
         /\ proc' \in [Shells -> {"live", "ending", "dead", "over"}]
         /\ sockets' = sockets
         /\ timer' \in [Shells -> {"off", "armed", "fired"}]
         /\ paused' \in [Shells -> {"no", "polling", "stuck"}]
         /\ conn' \in [Sockets -> {"closed", "open", "closing"}]
<1>1. CASE registry = NoShell
  BY <1>1, CloseType DEF TypeOK, EndShellSession, shells
<1>2. CASE registry # NoShell
  <2>1. conn' \in [Sockets -> {"closed", "open", "closing"}]
    BY <1>2, CloseType DEF EndShellSession
  <2> QED BY <1>2, <2>1 DEF TypeOK, EndShellSession, EndStream
<1> QED BY <1>1, <1>2

\* The model keeps its types.
THEOREM TypeCorrect == Spec => []TypeOK
<1>1. Init => TypeOK
  <2> SUFFICES ASSUME Init PROVE TypeOK
    OBVIOUS
  <2>1. behind \in [Sockets -> BOOLEAN]
    BY Zenon DEF Init
  <2>2. sockets \in [Shells -> SUBSET Sockets]
    BY DEF Init
  <2> QED BY <2>1, <2>2 DEF Init, TypeOK
<1>2. TypeOK /\ [Next]_vars => TypeOK'
  <2> SUFFICES ASSUME TypeOK, [Next]_vars PROVE TypeOK'
    OBVIOUS
  <2>1. ASSUME NEW w \in Sockets, Bridge(w) PROVE TypeOK'
    <3>1. CASE BridgeQuery(w)
      BY <3>1 DEF TypeOK, BridgeQuery, Refuse, Close, shells, outside
    <3>2. CASE BridgeAlive(w)
      <4>1. CASE container # "up"
        BY <3>2, <4>1, EndShellSessionType DEF TypeOK, BridgeAlive, outside
      <4>2. CASE container = "up"
        BY <3>2, <4>2 DEF TypeOK, BridgeAlive, Attach, Listen, shells, outside
      <4> QED BY <4>1, <4>2
    <3>3. CASE BridgeExec(w)
      <4>1. CASE container = "up"
        BY <3>3, <4>1 DEF TypeOK, BridgeExec, Listen, outside
      <4>2. CASE container # "up"
        BY <3>3, <4>2 DEF TypeOK, BridgeExec, Refuse, Close, shells, outside
      <4> QED BY <4>1, <4>2
    <3> QED BY <2>1, <3>1, <3>2, <3>3 DEF Bridge
  <2>2. ASSUME NEW w \in Sockets, ClientStep(w) \/ PeerReads(w) PROVE TypeOK'
    <3>1. CASE Connect(w)
      <4>1. behind' \in [Sockets -> BOOLEAN]
        BY <3>1 DEF TypeOK, Connect
      <4> QED BY <3>1, <4>1 DEF TypeOK, Connect, shells, outside
    <3>2. CASE PeerLeaves(w) \/ PeerVanishes(w)
      BY <3>2, CloseType DEF TypeOK, PeerLeaves, PeerVanishes, shells, outside
    <3>3. CASE WriteAfterEnd(w)
      BY <3>3, CloseType DEF TypeOK, WriteAfterEnd, outside
    <3>4. CASE PeerReads(w)
      <4>1. behind' \in [Sockets -> BOOLEAN]
        BY <3>4 DEF TypeOK, PeerReads
      <4> QED BY <3>4, <4>1 DEF TypeOK, PeerReads, shells, outside
    <3> QED BY <2>2, <3>1, <3>2, <3>3, <3>4 DEF ClientStep
  <2>3. ASSUME NEW w \in Sockets, CloseEvent(w) PROVE TypeOK'
    <3>1. CASE pc[w] = "open"
      BY <2>3, <3>1 DEF TypeOK, CloseEvent, ReleaseSocket, outside
    <3>2. CASE pc[w] # "open"
      BY <2>3, <3>2 DEF TypeOK, CloseEvent, outside
    <3> QED BY <3>1, <3>2
  <2>4. ASSUME NEW i \in Shells, NEW w \in Sockets, Output(i, w) PROVE TypeOK'
    BY <2>4 DEF TypeOK, Output, outside
  <2>5. ASSUME NEW i \in Shells, ShellExits(i) \/ ResumeCheck(i) PROVE TypeOK'
    BY <2>5 DEF TypeOK, ShellExits, ResumeCheck, Forget, clients, outside
  <2>6. ASSUME NEW i \in Shells, StreamEnds(i) PROVE TypeOK'
    BY <2>6, CloseType DEF TypeOK, StreamEnds, Forget, outside
  <2>7. ASSUME NEW i \in Shells, GraceOver(i) PROVE TypeOK'
    BY <2>7 DEF TypeOK, GraceOver, Fired, EndStream, clients, outside
  <2>8. CASE HeartbeatSweep
    BY <2>8, CloseType DEF TypeOK, HeartbeatSweep, shells, outside
  <2>9. CASE Environment
    <3>1. CASE DestroyContainer
      BY <3>1, EndShellSessionType DEF TypeOK, DestroyContainer
    <3>2. CASE RemoveReturns \/ ContainerStops
      BY <3>2 DEF TypeOK, RemoveReturns, ContainerStops, shells, clients
    <3>3. CASE CloseAllTerminals
      BY <3>3, CloseType DEF TypeOK, CloseAllTerminals, shells
    <3> QED BY <2>9, <3>1, <3>2, <3>3 DEF Environment
  <2>10. CASE UNCHANGED vars
    BY <2>10 DEF TypeOK, vars, shells, clients, outside
  <2> QED BY <2>1, <2>2, <2>3, <2>4, <2>5, <2>6, <2>7, <2>8, <2>9, <2>10 DEF Next
<1> QED BY <1>1, <1>2, PTL DEF Spec

-----------------------------------------------------------------------------
(* The grace timer.                                                        *)

\* GraceArmed is not inductive: releaseSocket arms no timer over one that has
\* fired, and a stream ended while it was paused drops its sockets.  Neither
\* ever happens to the registered shell.
Registered ==
  registry # NoShell =>
    /\ timer[registry] # "fired"
    /\ paused[registry] # "stuck"

Grace == GraceArmed /\ Registered

\* endShellSession leaves no entry, or there was none.
LEMMA EndShellSessionUnregisters ==
  ASSUME NEW S, EndShellSession(S)
  PROVE  registry' = NoShell
BY DEF EndShellSession, EndStream, shells

\* Every step keeps the timer of the registered shell right.
LEMMA GraceStep ==
  ASSUME TypeOK, Grace, [Next]_vars
  PROVE  Grace'
<1> USE DEF Grace, GraceArmed, Registered
<1>1. ASSUME NEW w \in Sockets, Bridge(w) PROVE Grace'
  <2>1. CASE BridgeQuery(w)
    BY <2>1 DEF BridgeQuery, shells
  <2>2. CASE BridgeAlive(w)
    <3>1. CASE container # "up"
      BY <2>2, <3>1, EndShellSessionUnregisters DEF BridgeAlive
    <3>2. CASE container = "up" /\ Attach(w)
      BY <3>2, NoShellAssumption DEF TypeOK, Attach
    <3>3. CASE UNCHANGED shells
      BY <3>3 DEF shells
    <3> QED BY <2>2, <3>1, <3>2, <3>3 DEF BridgeAlive
  <2>3. CASE BridgeExec(w)
    <3>1. CASE container = "up"
      <4>1. PICK i \in Shells : /\ sockets' = [sockets EXCEPT ![i] = {w}]
                                /\ timer' = [timer EXCEPT ![i] = "off"]
                                /\ paused' = [paused EXCEPT ![i] = "no"]
                                /\ registry' = i
        BY <2>3, <3>1 DEF BridgeExec
      <4> QED BY <4>1 DEF TypeOK
    <3>2. CASE container # "up"
      BY <2>3, <3>2 DEF BridgeExec, shells
    <3> QED BY <3>1, <3>2
  <2> QED BY <1>1, <2>1, <2>2, <2>3 DEF Bridge
<1>2. ASSUME NEW w \in Sockets, ClientStep(w) \/ PeerReads(w) PROVE Grace'
  BY <1>2 DEF ClientStep, Connect, PeerLeaves, PeerVanishes, WriteAfterEnd, PeerReads, shells
<1>3. ASSUME NEW w \in Sockets, CloseEvent(w) PROVE Grace'
  <2>1. CASE pc[w] = "open" /\ registry # NoShell
    BY <1>3, <2>1 DEF TypeOK, CloseEvent, ReleaseSocket
  <2>2. CASE pc[w] # "open" \/ registry = NoShell
    BY <1>3, <2>2 DEF CloseEvent, ReleaseSocket
  <2> QED BY <2>1, <2>2
<1>4. ASSUME NEW i \in Shells, NEW w \in Sockets, Output(i, w) PROVE Grace'
  BY <1>4 DEF TypeOK, Output
<1>5. ASSUME NEW i \in Shells, ShellExits(i) \/ ResumeCheck(i) PROVE Grace'
  BY <1>5 DEF TypeOK, ShellExits, ResumeCheck, Forget
<1>6. ASSUME NEW i \in Shells, StreamEnds(i) PROVE Grace'
  BY <1>6 DEF StreamEnds
<1>7. ASSUME NEW i \in Shells, GraceOver(i) PROVE Grace'
  BY <1>7 DEF TypeOK, GraceOver, Fired, EndStream
<1>8. CASE HeartbeatSweep
  BY <1>8 DEF HeartbeatSweep, shells
<1>9. CASE Environment
  <2>1. CASE DestroyContainer
    BY <2>1, EndShellSessionUnregisters DEF DestroyContainer
  <2>2. CASE RemoveReturns \/ ContainerStops \/ CloseAllTerminals
    BY <2>2 DEF RemoveReturns, ContainerStops, CloseAllTerminals, shells
  <2> QED BY <1>9, <2>1, <2>2 DEF Environment
<1>10. CASE UNCHANGED vars
  BY <1>10 DEF vars, shells
<1> QED BY <1>1, <1>2, <1>3, <1>4, <1>5, <1>6, <1>7, <1>8, <1>9, <1>10 DEF Next

\* In every interleaving, races included, the registered shell's grace timer
\* runs exactly while nobody is attached to it.
THEOREM GraceArmedAlways == Spec => []GraceArmed
<1>1. Init => Grace
  BY DEF Init, Grace, GraceArmed, Registered
<1>2. TypeOK /\ Grace /\ [Next]_vars => Grace'
  BY GraceStep
<1>3. Grace => GraceArmed
  BY DEF Grace
<1> QED BY <1>1, <1>2, <1>3, TypeCorrect, PTL DEF Spec

-----------------------------------------------------------------------------
(* The listeners of a socket hold a shell.                                 *)

Bridged == \A w \in Sockets : pc[w] = "open" => term[w] \in Shells

\* Every step keeps the bridged sockets' shells.
LEMMA BridgedStep ==
  ASSUME TypeOK, Bridged, [Next]_vars
  PROVE  Bridged'
<1> USE DEF TypeOK, Bridged
<1>1. ASSUME NEW w \in Sockets, Bridge(w) PROVE Bridged'
  <2>1. CASE BridgeQuery(w)
    BY <2>1 DEF BridgeQuery, Refuse
  <2>2. CASE BridgeAlive(w)
    BY <2>2 DEF BridgeAlive, Attach, Listen
  <2>3. CASE BridgeExec(w)
    BY <2>3 DEF BridgeExec, Listen, Refuse
  <2> QED BY <1>1, <2>1, <2>2, <2>3 DEF Bridge
<1>2. ASSUME NEW w \in Sockets, ClientStep(w) PROVE Bridged'
  BY <1>2 DEF ClientStep, Connect, PeerLeaves, PeerVanishes, WriteAfterEnd
<1>3. ASSUME NEW w \in Sockets, CloseEvent(w) \/ PeerReads(w) PROVE Bridged'
  BY <1>3 DEF CloseEvent, PeerReads
<1>4. ASSUME NEW i \in Shells, NEW w \in Sockets, Output(i, w) PROVE Bridged'
  BY <1>4 DEF Output
<1>5. ASSUME NEW i \in Shells, ShellExits(i) \/ StreamEnds(i) \/ ResumeCheck(i) \/ GraceOver(i)
      PROVE  Bridged'
  BY <1>5 DEF ShellExits, StreamEnds, ResumeCheck, GraceOver, clients
<1>6. CASE HeartbeatSweep \/ Environment \/ UNCHANGED vars
  BY <1>6 DEF HeartbeatSweep, Environment, DestroyContainer, RemoveReturns, ContainerStops,
              CloseAllTerminals, vars, clients
<1> QED BY <1>1, <1>2, <1>3, <1>4, <1>5, <1>6 DEF Next

-----------------------------------------------------------------------------
(* One shell, if no two bridges wait for docker exec and no stream reports *)
(* its end late.                                                           *)

Executing == {w \in Sockets : pc[w] = "exec"}

\* A running shell is the registered one; beside a registered shell there are
\* only shells that have reported their end; and a bridge that waits for a new
\* shell is alone and there is no entry.
Exclusive ==
  /\ \A i \in Shells : proc[i] = "live" => registry = i
  /\ registry # NoShell => \A i \in Shells : i # registry => proc[i] = "over"
  /\ \A w \in Executing : registry = NoShell /\ \A v \in Executing : v = w

\* endShellSession leaves no running shell and starts no bridge.
LEMMA EndShellSessionExclusive ==
  ASSUME TypeOK, Exclusive, NEW S, EndShellSession(S)
  PROVE  /\ registry' = NoShell
         /\ \A i \in Shells : proc'[i] # "live"
<1>1. CASE registry = NoShell
  BY <1>1, NoShellAssumption DEF EndShellSession, shells, Exclusive
<1>2. CASE registry # NoShell
  BY <1>2 DEF TypeOK, EndShellSession, EndStream, Exclusive
<1> QED BY <1>1, <1>2

\* Every step keeps the shells exclusive.
LEMMA ExclusiveStep ==
  ASSUME "overlap" \notin Races, "lateEnd" \notin Races,
         TypeOK, Exclusive, [Next]_vars
  PROVE  Exclusive'
<1> USE DEF Exclusive, Executing
<1>1. ASSUME NEW w \in Sockets, Bridge(w) PROVE Exclusive'
  <2>1. CASE BridgeQuery(w)
    BY <2>1 DEF TypeOK, BridgeQuery, Refuse, shells
  <2>2. CASE BridgeAlive(w)
    <3>1. CASE container # "up"
      <4>1. registry' = NoShell /\ \A i \in Shells : proc'[i] # "live"
        BY <2>2, <3>1, EndShellSessionExclusive DEF BridgeAlive
      <4> QED BY <2>2, <3>1, <4>1 DEF TypeOK, BridgeAlive
    <3>2. CASE container = "up" /\ registry # NoShell /\ Attach(w)
      BY <2>2, <3>2 DEF TypeOK, Attach, Listen
    <3>3. CASE container = "up" /\ registry = NoShell
      BY <2>2, <3>3 DEF TypeOK, BridgeAlive, shells
    <3> QED BY <2>2, <3>1, <3>2, <3>3 DEF BridgeAlive
  <2>3. CASE BridgeExec(w)
    <3>1. registry = NoShell /\ \A v \in Sockets : pc[v] = "exec" => v = w
      BY <2>3 DEF BridgeExec
    <3>2. CASE container = "up"
      <4>1. \A i \in Shells : proc[i] = "over"
        BY <2>3, <3>1, <3>2, NoShellAssumption DEF BridgeExec, Settled, Live, Free
      <4> QED BY <2>3, <3>1, <3>2, <4>1 DEF TypeOK, BridgeExec, Listen
    <3>3. CASE container # "up"
      BY <2>3, <3>1, <3>3 DEF TypeOK, BridgeExec, Refuse, shells
    <3> QED BY <3>2, <3>3
  <2> QED BY <1>1, <2>1, <2>2, <2>3 DEF Bridge
<1>2. ASSUME NEW w \in Sockets, Connect(w) \/ PeerLeaves(w) \/ PeerVanishes(w) \/ PeerReads(w)
      PROVE  Exclusive'
  BY <1>2 DEF TypeOK, Connect, PeerLeaves, PeerVanishes, PeerReads, shells
<1>3. ASSUME NEW w \in Sockets, WriteAfterEnd(w) PROVE Exclusive'
  BY <1>3 DEF TypeOK, WriteAfterEnd
<1>4. ASSUME NEW w \in Sockets, CloseEvent(w) PROVE Exclusive'
  BY <1>4 DEF TypeOK, CloseEvent
<1>5. ASSUME NEW i \in Shells, NEW w \in Sockets, Output(i, w) PROVE Exclusive'
  BY <1>5 DEF Output
<1>6. ASSUME NEW i \in Shells, ShellExits(i) \/ ResumeCheck(i) PROVE Exclusive'
  BY <1>6 DEF TypeOK, ShellExits, ResumeCheck, Forget, clients
<1>7. ASSUME NEW i \in Shells, StreamEnds(i) PROVE Exclusive'
  BY <1>7 DEF TypeOK, StreamEnds, Forget
<1>8. ASSUME NEW i \in Shells, GraceOver(i) PROVE Exclusive'
  BY <1>8 DEF TypeOK, GraceOver, EndStream, clients
<1>9. CASE HeartbeatSweep
  BY <1>9 DEF HeartbeatSweep, shells
<1>10. CASE Environment
  <2>1. CASE DestroyContainer
    BY <2>1, EndShellSessionExclusive DEF DestroyContainer
  <2>2. CASE RemoveReturns \/ ContainerStops \/ CloseAllTerminals
    BY <2>2 DEF RemoveReturns, ContainerStops, CloseAllTerminals, shells, clients
  <2> QED BY <1>10, <2>1, <2>2 DEF Environment
<1>11. CASE UNCHANGED vars
  BY <1>11 DEF vars, shells, clients
<1> QED
  BY <1>1, <1>2, <1>3, <1>4, <1>5, <1>6, <1>7, <1>8, <1>9, <1>10, <1>11 DEF Next, ClientStep

\* Without the two races a container never runs two shells that nobody ended.
THEOREM OneShellAlways ==
  ASSUME "overlap" \notin Races, "lateEnd" \notin Races
  PROVE  Spec => []OneShell
<1>1. Init => Exclusive
  BY DEF Init, Exclusive, Executing
<1>2. TypeOK /\ Exclusive /\ [Next]_vars => Exclusive'
  BY ExclusiveStep
<1>3. Exclusive => OneShell
  BY DEF Exclusive, OneShell, Live
<1> QED BY <1>1, <1>2, <1>3, TypeCorrect, PTL DEF Spec

\* Whoever types into a running shell will find that shell again.
AttachedIsRegistered ==
  \A w \in Sockets :
    pc[w] = "open" /\ conn[w] = "open" /\ proc[term[w]] = "live" => registry = term[w]

\* Without the two races a client that types into a running shell is attached
\* to the registered one, and a reconnect resumes it.
THEOREM AttachedIsRegisteredAlways ==
  ASSUME "overlap" \notin Races, "lateEnd" \notin Races
  PROVE  Spec => []AttachedIsRegistered
<1>1. Init => Exclusive
  BY DEF Init, Exclusive, Executing
<1>2. TypeOK /\ Exclusive /\ [Next]_vars => Exclusive'
  BY ExclusiveStep
<1>3. Bridged /\ Exclusive => AttachedIsRegistered
  BY DEF AttachedIsRegistered, Bridged, Exclusive
<1>4. Init => Bridged
  BY DEF Init, Bridged
<1>5. TypeOK /\ Bridged /\ [Next]_vars => Bridged'
  BY BridgedStep
<1> QED BY <1>1, <1>2, <1>3, <1>4, <1>5, TypeCorrect, PTL DEF Spec

-----------------------------------------------------------------------------
(* TerminalRegistry implements Terminal.                                   *)

\* Whose keys reach a running shell is among its sockets: what GraceOver looks
\* at before it ends a shell.
Seated ==
  \A w \in Sockets :
    pc[w] = "open" /\ conn[w] = "open" /\ term[w] \in Live => w \in sockets[term[w]]

\* Every step keeps the users of a running shell among its sockets.
LEMMA SeatedStep ==
  ASSUME TypeOK, Seated, [Next]_vars
  PROVE  Seated'
<1> USE DEF TypeOK, Seated, Live
<1>1. ASSUME NEW w \in Sockets, Bridge(w) PROVE Seated'
  <2>1. CASE BridgeQuery(w)
    BY <2>1 DEF BridgeQuery, Refuse, Close, shells
  <2>2. CASE BridgeAlive(w)
    <3>1. CASE container # "up"
      <4>1. /\ \A v \in Sockets : /\ conn'[v] = "open" => conn[v] = "open"
                                  /\ pc'[v] = "open" => pc[v] = "open"
            /\ \A i \in Shells : proc'[i] = "live" => proc[i] = "live"
            /\ UNCHANGED <<sockets, term>>
        BY <2>2, <3>1 DEF BridgeAlive, EndShellSession, EndStream, Close, shells
      <4> QED BY <4>1
    <3>2. CASE container = "up" /\ registry # NoShell /\ Attach(w)
      BY <2>2, <3>2 DEF BridgeAlive, Attach, Listen
    <3>3. CASE container = "up" /\ registry = NoShell
      BY <2>2, <3>3 DEF BridgeAlive, shells
    <3> QED BY <2>2, <3>1, <3>2, <3>3 DEF BridgeAlive
  <2>3. CASE BridgeExec(w)
    <3>1. CASE container = "up"
      <4>1. PICK i \in Shells : /\ Free(i) /\ Listen(w, i) /\ UNCHANGED conn
                                /\ sockets' = [sockets EXCEPT ![i] = {w}]
                                /\ proc' = [proc EXCEPT ![i] = "live"]
        BY <2>3, <3>1 DEF BridgeExec
      <4> QED BY <4>1 DEF Free, Listen
    <3>2. CASE container # "up"
      BY <2>3, <3>2 DEF BridgeExec, Refuse, Close, shells
    <3> QED BY <3>1, <3>2
  <2> QED BY <1>1, <2>1, <2>2, <2>3 DEF Bridge
<1>2. ASSUME NEW w \in Sockets, ClientStep(w) \/ PeerReads(w) PROVE Seated'
  BY <1>2 DEF ClientStep, Connect, PeerLeaves, PeerVanishes, WriteAfterEnd, PeerReads, Close,
     shells
<1>3. ASSUME NEW w \in Sockets, CloseEvent(w) PROVE Seated'
  <2>1. /\ \A v \in Sockets : v # w => /\ conn'[v] = conn[v] /\ pc'[v] = pc[v]
                                       /\ term'[v] = term[v]
        /\ conn'[w] = "closed" /\ proc' = proc
    BY <1>3 DEF CloseEvent
  <2>2. \A i \in Shells : sockets[i] \ {w} \subseteq sockets'[i]
    BY <1>3 DEF CloseEvent, ReleaseSocket
  <2> QED BY <2>1, <2>2
<1>4. ASSUME NEW i \in Shells, NEW w \in Sockets, Output(i, w) PROVE Seated'
  BY <1>4 DEF Output
<1>5. ASSUME NEW i \in Shells, ShellExits(i) \/ ResumeCheck(i) \/ GraceOver(i) PROVE Seated'
  BY <1>5 DEF ShellExits, ResumeCheck, GraceOver, EndStream, Forget, clients
<1>6. ASSUME NEW i \in Shells, StreamEnds(i) PROVE Seated'
  BY <1>6 DEF StreamEnds, Forget, Close
<1>7. CASE HeartbeatSweep
  BY <1>7 DEF HeartbeatSweep, Close, shells
<1>8. CASE Environment
  BY <1>8 DEF Environment, DestroyContainer, RemoveReturns, ContainerStops, CloseAllTerminals,
     EndShellSession, EndStream, Close, shells, clients
<1>9. CASE UNCHANGED vars
  BY <1>9 DEF vars, shells, clients
<1> QED BY <1>1, <1>2, <1>3, <1>4, <1>5, <1>6, <1>7, <1>8, <1>9 DEF Next

\* What Terminal's state is in terms of the registry's.
LEMMA Mapped ==
  ASSUME TypeOK
  PROVE  /\ T!Running = Live
         /\ \A w \in Sockets : User[w] # NoShell =>
              User[w] \in Live /\ term[w] = User[w] /\ pc[w] = "open" /\ conn[w] = "open"
BY DEF TypeOK, T!Running, Bash, User, Live

\* A step that ends no shell and gives nobody a shell is one of those who leave.
LEMMA Leaves ==
  ASSUME Bash' = Bash, UNCHANGED <<removing, container>>,
         \A w \in Sockets : User'[w] \in {User[w], NoShell}
  PROVE  T!Leave
<1>1. PICK S \in SUBSET Sockets : S = {w \in Sockets : User'[w] = NoShell}
  OBVIOUS
<1>2. User' = [w \in Sockets |-> IF w \in S THEN NoShell ELSE User[w]]
  BY <1>1 DEF User
<1> QED BY <1>2 DEF T!Leave, T!Without

\* So is one that opens no socket and puts no listener on one.
LEMMA Quiets ==
  ASSUME Bash' = Bash, Live' = Live, UNCHANGED <<removing, container>>,
         \A w \in Sockets : pc'[w] = "open" /\ conn'[w] = "open" =>
           pc[w] = "open" /\ conn[w] = "open" /\ term'[w] = term[w]
  PROVE  T!Leave
<1>1. \A w \in Sockets : User'[w] \in {User[w], NoShell}
  BY DEF User
<1> QED BY <1>1, Leaves

\* endShellSession ends whatever runs; it is called when the session is over.
LEMMA TearsDown ==
  ASSUME TypeOK, Exclusive, NEW S, EndShellSession(S), removing' \/ container' # "up"
  PROVE  T!TearDown
<1>1. \A i \in Shells : proc'[i] # "live"
  BY EndShellSessionExclusive
<1>2. \A i \in Shells : proc'[i] = IF proc[i] = "live" THEN "ending" ELSE proc[i]
  <2>1. CASE registry = NoShell
    BY <2>1, NoShellAssumption DEF EndShellSession, shells, Exclusive
  <2>2. CASE registry # NoShell
    BY <2>2 DEF TypeOK, EndShellSession, EndStream, Exclusive
  <2> QED BY <2>1, <2>2
<1>3. Bash' = [i \in Shells |-> IF i \in T!Running THEN "ended" ELSE Bash[i]]
  BY <1>2, Mapped DEF TypeOK, Bash, Live
<1>4. User' = [w \in Sockets |-> NoShell]
  BY <1>1 DEF User, Live
<1>5. User' = T!Without(Sockets)
  BY <1>4 DEF T!Without
<1> QED BY <1>3, <1>5 DEF T!TearDown

\* Steps of bridge.
LEMMA BridgeKeeps ==
  ASSUME "overlap" \notin Races, "lateEnd" \notin Races,
         TypeOK, Exclusive, NEW w \in Sockets, Bridge(w)
  PROVE  T!Next
<1>1. CASE BridgeQuery(w)
  <2>1. T!Leave
    BY <1>1, Quiets DEF TypeOK, BridgeQuery, Refuse, Close, shells, outside, Bash, Live
  <2> QED BY <2>1 DEF T!Next
<1>2. CASE BridgeAlive(w)
  <2>0. UNCHANGED <<removing, container>>
    BY <1>2 DEF BridgeAlive, outside
  <2>1. CASE container # "up"
    <3>1. EndShellSession({w})
      BY <1>2, <2>1 DEF BridgeAlive
    <3> QED BY <2>0, <2>1, <3>1, TearsDown DEF T!Next
  <2>2. CASE container = "up" /\ registry # NoShell /\ Attach(w)
    <3>1. /\ registry \in Shells /\ Bash' = Bash /\ Live' = Live /\ UNCHANGED conn
          /\ \A v \in Sockets : v # w => pc'[v] = pc[v] /\ term'[v] = term[v]
          /\ pc'[w] = "open" => term'[w] = registry
          /\ conn[w] = "open" => pc'[w] = "open" /\ term'[w] = registry
      BY <2>2 DEF TypeOK, Attach, Listen, Bash, Live
    <3>2. CASE conn[w] = "open" /\ registry \in Live
      <4>1. User' = [User EXCEPT ![w] = registry]
        BY <3>1, <3>2 DEF User
      <4>2. T!Resume(w, registry)
        BY <2>0, <3>1, <3>2, <4>1, Mapped DEF T!Resume
      <4> QED BY <3>1, <4>2 DEF T!Next
    <3>3. CASE ~(conn[w] = "open" /\ registry \in Live)
      <4>1. \A v \in Sockets : User'[v] \in {User[v], NoShell}
        BY <3>1, <3>3 DEF User
      <4> QED BY <2>0, <3>1, <4>1, Leaves DEF T!Next
    <3> QED BY <3>2, <3>3
  <2>3. CASE container = "up" /\ registry = NoShell
    <3>1. T!Leave
      BY <1>2, <2>0, <2>3, Quiets DEF TypeOK, BridgeAlive, shells, Bash, Live
    <3> QED BY <3>1 DEF T!Next
  <2> QED BY <1>2, <2>1, <2>2, <2>3 DEF BridgeAlive
<1>3. CASE BridgeExec(w)
  <2>0. UNCHANGED <<removing, container>> /\ registry = NoShell /\ Live = {}
    BY <1>3, NoShellAssumption DEF BridgeExec, outside, Exclusive, Executing, Live
  <2>1. CASE container = "up"
    <3>1. PICK i \in Shells : /\ Free(i) /\ Listen(w, i) /\ UNCHANGED conn
                              /\ proc' = [proc EXCEPT ![i] = "live"]
      BY <1>3, <2>1 DEF BridgeExec
    <3>2. /\ Bash[i] = "none" /\ Bash' = [Bash EXCEPT ![i] = "runs"] /\ Live' = {i}
          /\ \A v \in Sockets : term[v] # i
      <4>1. Bash[i] = "none" /\ \A v \in Sockets : term[v] # i
        BY <3>1 DEF Free, Bash
      <4>2. \A j \in Shells : Bash'[j] = IF j = i THEN "runs" ELSE Bash[j]
        BY <3>1 DEF TypeOK, Bash
      <4>3. Bash' = [Bash EXCEPT ![i] = "runs"]
        BY <4>2 DEF Bash
      <4>4. Live' = {i}
        BY <2>0, <3>1 DEF TypeOK, Live
      <4> QED BY <4>1, <4>3, <4>4
    <3>3. /\ \A v \in Sockets : v # w => pc'[v] = pc[v] /\ term'[v] = term[v]
          /\ pc'[w] = "open" => term'[w] = i
      BY <3>1 DEF TypeOK, Listen
    <3>4. User = [v \in Sockets |-> NoShell]
      BY <2>0 DEF User
    <3>5. User' = User \/ User' = [User EXCEPT ![w] = i]
      <4>1. \A v \in Sockets : v # w => User'[v] = NoShell
        BY <3>1, <3>2, <3>3 DEF User
      <4>2. User'[w] \in {NoShell, i}
        BY <3>1, <3>2, <3>3 DEF User
      <4>3. User' \in [Sockets -> {NoShell, i}]
        BY <4>1, <4>2 DEF User
      <4> QED BY <3>4, <4>1, <4>2, <4>3
    <3>6. T!Open(w, i)
      BY <2>0, <3>2, <3>5, Mapped DEF T!Open
    <3> QED BY <3>6 DEF T!Next
  <2>2. CASE container # "up"
    <3>1. T!Leave
      BY <1>3, <2>0, <2>2, Quiets DEF TypeOK, BridgeExec, Refuse, Close, shells, Bash, Live
    <3> QED BY <3>1 DEF T!Next
  <2> QED BY <2>1, <2>2
<1> QED BY <1>1, <1>2, <1>3 DEF Bridge

\* Steps of a shell's stream and timers.
LEMMA ShellKeeps ==
  ASSUME TypeOK, Seated, NEW i \in Shells,
         ShellExits(i) \/ StreamEnds(i) \/ ResumeCheck(i) \/ GraceOver(i)
  PROVE  T!Next
<1>1. CASE ShellExits(i)
  <2>1. /\ UNCHANGED <<pc, conn, term, removing, container>>
        /\ proc' = [proc EXCEPT ![i] = "dead"] \/ proc' = [proc EXCEPT ![i] = "over"]
    BY <1>1 DEF ShellExits, Forget, clients, outside
  <2>2. CASE proc[i] = "dead"
    <3>1. Bash' = Bash /\ Live' = Live
      BY <2>1, <2>2 DEF TypeOK, Bash, Live
    <3> QED BY <2>1, <3>1, Quiets DEF T!Next
  <2>3. CASE proc[i] # "dead"
    <3>0. proc[i] \in {"live", "ending"} /\ proc'[i] \in {"dead", "over"}
      BY <1>1, <2>1, <2>3 DEF TypeOK, ShellExits
    <3>1. /\ Bash[i] # "none" /\ Bash' = [Bash EXCEPT ![i] = "none"] /\ Live' = Live \ {i}
      <4>1. Bash[i] # "none"
        BY <3>0 DEF Bash
      <4>2. \A j \in Shells : Bash'[j] = IF j = i THEN "none" ELSE Bash[j]
        BY <2>1, <3>0 DEF TypeOK, Bash
      <4>3. Bash' = [Bash EXCEPT ![i] = "none"]
        BY <4>2 DEF Bash
      <4>4. Live' = Live \ {i}
        BY <2>1, <3>0 DEF TypeOK, Live
      <4> QED BY <4>1, <4>3, <4>4
    <3>2. User' = [w \in Sockets |-> IF User[w] = i THEN NoShell ELSE User[w]]
      BY <2>1, <3>1, NoShellAssumption DEF User
    <3>3. User' = T!Without(T!Users(i))
      BY <3>2 DEF T!Without, T!Users
    <3>4. T!Exit(i)
      BY <2>1, <3>1, <3>3 DEF T!Exit
    <3> QED BY <3>4 DEF T!Next
  <2> QED BY <2>2, <2>3
<1>2. CASE StreamEnds(i) \/ ResumeCheck(i)
  <2>1. Bash' = Bash /\ Live' = Live
    BY <1>2 DEF TypeOK, StreamEnds, ResumeCheck, Forget, Bash, Live
  <2>2. T!Leave
    BY <1>2, <2>1, Quiets DEF StreamEnds, ResumeCheck, Close, clients, outside
  <2> QED BY <2>2 DEF T!Next
<1>3. CASE GraceOver(i)
  <2>1. UNCHANGED <<pc, conn, term, removing, container>>
    BY <1>3 DEF GraceOver, clients, outside
  <2>2. CASE registry \in Live /\ sockets[registry] = {}
    <3>1. proc' = [proc EXCEPT ![registry] = "ending"]
      BY <1>3, <2>2, NoShellAssumption DEF GraceOver, EndStream, Live
    <3>2. \A w \in Sockets : User[w] # registry
      <4>1. ASSUME NEW w \in Sockets, User[w] = registry  PROVE FALSE
        <5>1. User[w] # NoShell
          BY <2>2, <4>1, NoShellAssumption DEF Live
        <5> QED BY <2>2, <4>1, <5>1, Mapped DEF Seated
      <4> QED BY <4>1
    <3>3. /\ Bash' = [Bash EXCEPT ![registry] = "ended"] /\ Live' = Live \ {registry}
      BY <2>2, <3>1 DEF TypeOK, Bash, Live
    <3>4. User' = User
      BY <2>1, <2>2, <3>2, <3>3 DEF User
    <3>5. T!Abandon(registry)
      BY <2>1, <2>2, <3>2, <3>3, <3>4, Mapped DEF T!Abandon, T!Users
    <3> QED BY <2>2, <3>5 DEF T!Next, Live
  <2>3. CASE ~(registry \in Live /\ sockets[registry] = {})
    <3>1. proc' = proc
      BY <1>3, <2>3 DEF TypeOK, GraceOver, EndStream, Live
    <3>2. Bash' = Bash /\ Live' = Live
      BY <3>1 DEF Bash, Live
    <3> QED BY <2>1, <3>2, Quiets DEF T!Next
  <2> QED BY <2>2, <2>3
<1> QED BY <1>1, <1>2, <1>3

\* The other steps.
LEMMA OthersKeep ==
  ASSUME TypeOK, Exclusive,
         \/ \E w \in Sockets : \/ ClientStep(w) \/ CloseEvent(w) \/ PeerReads(w)
                               \/ \E i \in Shells : Output(i, w)
         \/ HeartbeatSweep \/ Environment \/ UNCHANGED vars
  PROVE  T!Next
<1>1. CASE DestroyContainer
  BY <1>1, TearsDown DEF DestroyContainer, T!Next
<1>2. CASE RemoveReturns \/ ContainerStops
  <2>1. UNCHANGED <<Bash, User>>
    BY <1>2 DEF RemoveReturns, ContainerStops, shells, clients, Bash, User, Live
  <2> QED BY <2>1 DEF T!Next, T!Recount
<1>3. CASE ~(DestroyContainer \/ RemoveReturns \/ ContainerStops)
  <2>1. UNCHANGED <<proc, removing, container>>
    BY <1>3 DEF ClientStep, Connect, PeerLeaves, PeerVanishes, WriteAfterEnd, CloseEvent,
       PeerReads, Output, HeartbeatSweep, Environment, CloseAllTerminals, vars, shells, outside
  <2>2. \A w \in Sockets : pc'[w] = "open" /\ conn'[w] = "open" =>
           pc[w] = "open" /\ conn[w] = "open" /\ term'[w] = term[w]
    BY <1>3 DEF TypeOK, ClientStep, Connect, PeerLeaves, PeerVanishes, WriteAfterEnd, CloseEvent,
       PeerReads, Output, HeartbeatSweep, Environment, CloseAllTerminals, Close, vars, clients
  <2>3. Bash' = Bash /\ Live' = Live
    BY <2>1 DEF Bash, Live
  <2> QED BY <2>1, <2>2, <2>3, Quiets DEF T!Next
<1> QED BY <1>1, <1>2, <1>3

\* Without the two races TerminalRegistry implements Terminal: whoever connects
\* joins the shell that runs, and the backend ends no shell under somebody's hands
\* unless the session is over.
THEOREM ShellKeptAlways ==
  ASSUME "overlap" \notin Races, "lateEnd" \notin Races
  PROVE  Spec => ShellKept
<1>1. Init => T!Init
  BY DEF Init, T!Init, Bash, User, Live
<1>2. Init => Exclusive /\ Seated
  BY DEF Init, Exclusive, Executing, Seated
<1>3. TypeOK /\ Exclusive /\ Seated /\ [Next]_vars => Exclusive' /\ Seated'
  BY ExclusiveStep, SeatedStep
<1>4. TypeOK /\ Exclusive /\ Seated /\ [Next]_vars => [T!Next]_(T!vars)
  BY BridgeKeeps, ShellKeeps, OthersKeep DEF Next
<1> QED
  BY <1>1, <1>2, <1>3, <1>4, TypeCorrect, PTL DEF Spec, ShellKept, T!Spec
=============================================================================
