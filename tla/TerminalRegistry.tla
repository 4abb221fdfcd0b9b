--------------------------- MODULE TerminalRegistry ---------------------------
(***************************************************************************)
(* The terminal of one challenge container: the bash processes the backend *)
(* runs in it, execRegistry's entry for it, and the WebSockets bridged to  *)
(* them.  Entries of different containers never meet, so one container     *)
(* stands for all.                                                         *)
(*                                                                         *)
(* backend/src/services/docker.service.ts (the registry, lines 37-152) and *)
(* backend/src/ws/terminalSocket.ts.                                       *)
(*                                                                         *)
(* Grain: one action per awaited query or Docker call, per event listener  *)
(* and per timer callback; each of them runs alone in the event loop.      *)
(*                                                                         *)
(* Abstracted: bytes (a socket is behind once its behindedAmount exceeded  *)
(* 4 MiB, until it is below 1 MiB), resizing, close codes, tickets.  The   *)
(* session's status is whatever the query answers, and the teardown of the *)
(* container is the environment's: see SessionService.                     *)
(***************************************************************************)
EXTENDS Naturals, FiniteSets

CONSTANTS
  Sockets,  \* bound: WebSockets open at a time
  Shells,   \* bound: bash processes remembered at a time
  NoShell,
  Races     \* which event orders are admitted:
            \*   "overlap"    two bridges wait for docker exec at a time
            \*   "earlyClose" a socket closes while its bridge still awaits
            \*   "lateEnd"    a stream reports its end after the next exec
            \*   "vanish"     a client goes without closing its connection
            \*   "behind"     a client reads too slowly
            \*   "sigterm"    the backend shuts down

ASSUME NoShellAssumption == NoShell \notin Shells
ASSUME RacesAssumption ==
  Races \subseteq {"overlap", "earlyClose", "lateEnd", "vanish", "behind", "sigterm"}

VARIABLES
  registry,  \* execRegistry.get(containerId)
  proc,      \* the bash process and its stream
  sockets,   \* TerminalSession.sockets
  timer,     \* TerminalSession.graceTimer
  paused,    \* TerminalSession.paused, with or without its resumeCheckTimer
  conn,      \* ws.readyState
  pc,        \* where bridge() stands; "open": the listeners are on
  term,      \* the TerminalSession bridge() got
  peer,      \* the client behind the socket, as the ping sweep sees it
  behind,    \* ws.behindedAmount exceeded the pause threshold, not drained yet
  container, \* Docker's state of the container
  removing,  \* destroyContainer awaits container.remove
  serving    \* no SIGTERM yet

shells  == <<registry, proc, sockets, timer, paused>>
clients == <<conn, pc, term, peer, behind>>
outside == <<container, removing, serving>>
vars    == <<shells, clients, outside>>

\* bash runs and nobody called stream.end().
Live == {i \in Shells : proc[i] = "live"}

\* Nothing refers to i any more: the bound Shells lets it be used again.
Free(i) ==
  /\ proc[i] = "over" /\ i # registry /\ timer[i] # "armed"
  /\ \A w \in Sockets : term[w] # i

\* Mutant: the sockets are terminated without a closing handshake.
CloseTerminates(S) == conn' = [w \in Sockets |-> IF w \in S /\ conn[w] = "open"
                                                   THEN "terminated" ELSE conn[w]]

\* ws.close(code) for each ws in S: a socket that is open starts to close.
Close(S) == conn' = [w \in Sockets |-> IF w \in S /\ conn[w] = "open"
                                         THEN "closing" ELSE conn[w]]

\* stream.end() of shell i, its timers cleared.  A paused stream stays paused.
EndStream(i) ==
  /\ proc'   = [proc EXCEPT ![i] = IF @ = "live" THEN "ending" ELSE @]
  /\ paused' = [paused EXCEPT ![i] = IF @ = "polling" THEN "stuck" ELSE @]
  /\ registry' = NoShell

\* endShellSession.
EndShellSession(extra) ==
  IF registry = NoShell
    THEN Close(extra) /\ UNCHANGED shells
    ELSE /\ EndStream(registry)
         /\ timer' = [timer EXCEPT ![registry] = "off"]
         /\ Close(sockets[registry] \cup extra)
         /\ UNCHANGED sockets

-----------------------------------------------------------------------------
(* bridge.                                                                 *)

\* handleUpgrade with a valid ticket.
Connect(w) ==
  /\ serving
  /\ conn[w] = "closed" /\ pc[w] = "idle"
  /\ \A i \in Shells : w \notin sockets[i]
  /\ conn'   = [conn EXCEPT ![w] = "open"]
  /\ pc'     = [pc EXCEPT ![w] = "query"]
  /\ behind' = [behind EXCEPT ![w] = FALSE]
  /\ UNCHANGED <<shells, term, peer, outside>>

\* bridge gives up and closes its socket; no listener is registered.
Refuse(w) == Close({w}) /\ pc' = [pc EXCEPT ![w] = "idle"]

\* getSessionForUser: the session is running or checking, or it is not.
BridgeQuery(w) ==
  /\ pc[w] = "query"
  /\ \/ pc' = [pc EXCEPT ![w] = "alive"] /\ UNCHANGED conn
     \/ Refuse(w)
  /\ UNCHANGED <<shells, term, peer, behind, outside>>

\* The 'close' event fires once: on a socket that is closed already the
\* listeners come too late.
Listen(w, i) ==
  /\ pc'   = [pc EXCEPT ![w] = IF conn[w] = "closed" THEN "idle" ELSE "open"]
  /\ term' = [term EXCEPT ![w] = IF conn[w] = "closed" THEN NoShell ELSE i]

\* Mutant: the grace timer of a resumed shell is not cleared.
AttachTimerOn(w) ==
  /\ sockets' = [sockets EXCEPT ![registry] = @ \cup {w}]
  /\ Listen(w, registry)
  /\ UNCHANGED <<registry, proc, timer, paused, conn>>

\* attachOrCreateShell finds an entry, and bridge adds its socket.
Attach(w) ==
  /\ sockets' = [sockets EXCEPT ![registry] = @ \cup {w}]
  /\ timer'   = [timer EXCEPT ![registry] = "off"]
  /\ Listen(w, registry)
  /\ UNCHANGED <<registry, proc, paused, conn>>

\* Mutant: a shell of its own for every connection (before decisions/0028).
BridgeAliveFresh(w) ==
  /\ pc[w] = "alive"
  /\ pc' = [pc EXCEPT ![w] = "exec"]
  /\ UNCHANGED <<shells, conn, term, peer, behind, outside>>

\* isContainerAlive, and attachOrCreateShell up to its own await.
BridgeAlive(w) ==
  /\ pc[w] = "alive"
  /\ \/ /\ container # "up"
        /\ EndShellSession({w})
        /\ pc' = [pc EXCEPT ![w] = "idle"]
        /\ UNCHANGED term
     \/ container = "up" /\ registry # NoShell /\ Attach(w)
     \/ /\ container = "up" /\ registry = NoShell
        /\ "overlap" \in Races \/ \A v \in Sockets : pc[v] # "exec"
        /\ pc' = [pc EXCEPT ![w] = "exec"]
        /\ UNCHANGED <<shells, conn, term>>
  /\ UNCHANGED <<peer, behind, outside>>

\* Every earlier stream has reported its end; sockets and timers of earlier
\* shells may be around still.
Settled == \A i \in Shells : proc[i] \in {"live", "over"}

\* execShell answers: the new shell replaces whatever the registry holds.
BridgeExec(w) ==
  /\ pc[w] = "exec"
  /\ IF container = "up"
       THEN \E i \in Shells :
              /\ Free(i)
              /\ "lateEnd" \in Races \/ Settled
              /\ proc'     = [proc EXCEPT ![i] = "live"]
              /\ sockets'  = [sockets EXCEPT ![i] = {w}]
              /\ timer'    = [timer EXCEPT ![i] = "off"]
              /\ paused'   = [paused EXCEPT ![i] = "no"]
              /\ registry' = i
              /\ Listen(w, i)
              /\ UNCHANGED conn
       ELSE Refuse(w) /\ UNCHANGED <<shells, term>>
  /\ UNCHANGED <<peer, behind, outside>>

-----------------------------------------------------------------------------
(* The end of a socket.                                                    *)

\* The client closes the page, reconnects elsewhere, or its connection drops.
PeerLeaves(w) ==
  /\ conn[w] = "open"
  /\ Close({w})
  /\ UNCHANGED <<shells, pc, term, peer, behind, outside>>

\* The client is gone and TCP does not say so.
PeerVanishes(w) ==
  /\ "vanish" \in Races
  /\ conn[w] = "open" /\ peer[w] = "present"
  /\ peer' = [peer EXCEPT ![w] = "vanished"]
  /\ UNCHANGED <<shells, conn, pc, term, behind, outside>>

\* Mutant: a socket that missed a ping is pinged again and never terminated.
HeartbeatSweepPings ==
  /\ serving
  /\ \E w \in Sockets : conn[w] = "open" /\ peer[w] # "present"
  /\ peer' = [w \in Sockets |-> IF peer[w] = "vanished" THEN "missed" ELSE peer[w]]
  /\ UNCHANGED <<shells, conn, pc, term, behind, outside>>

\* heartbeatSweep.  A present peer has answered the last ping by now; a vanished
\* one is terminated by the second sweep it does not answer.
HeartbeatSweep ==
  /\ serving
  /\ \E w \in Sockets : conn[w] = "open" /\ peer[w] # "present"
  /\ Close({w \in Sockets : peer[w] = "missed"})
  /\ peer' = [w \in Sockets |-> IF peer[w] = "vanished" THEN "missed" ELSE peer[w]]
  /\ UNCHANGED <<shells, pc, term, behind, outside>>

\* releaseSocket: it looks the shell up again, and finds the current one.
ReleaseSocket(w) ==
  IF registry = NoShell
    THEN UNCHANGED <<sockets, timer>>
    ELSE LET left == sockets[registry] \ {w} IN
         /\ sockets' = [sockets EXCEPT ![registry] = left]
         /\ timer'   = IF left = {} /\ timer[registry] = "off"
                         THEN [timer EXCEPT ![registry] = "armed"] ELSE timer

\* The socket's 'close' event.
CloseEvent(w) ==
  /\ conn[w] = "closing"
  /\ pc[w] \in {"idle", "open"} \/ "earlyClose" \in Races
  /\ conn' = [conn EXCEPT ![w] = "closed"]
  /\ peer' = [peer EXCEPT ![w] = "present"]
  /\ IF pc[w] = "open"
       THEN /\ ReleaseSocket(w)
            /\ pc'   = [pc EXCEPT ![w] = "idle"]
            /\ term' = [term EXCEPT ![w] = NoShell]
       ELSE UNCHANGED <<sockets, timer, pc, term>>
  /\ UNCHANGED <<registry, proc, paused, behind, outside>>

-----------------------------------------------------------------------------
(* The shell's stream and timers.                                          *)

\* The stream of i has reported its end, or never will: nobody reads the
\* fields of i any more, but a timer may still be running.
Forget(i) ==
  /\ proc'    = [proc EXCEPT ![i] = "over"]
  /\ timer'   = [timer EXCEPT ![i] = IF @ = "armed" THEN @ ELSE "off"]
  /\ sockets' = [sockets EXCEPT ![i] = {}]
  /\ paused'  = [paused EXCEPT ![i] = "no"]

\* bash exits: the user typed exit, the container went down, or stream.end().
ShellExits(i) ==
  /\ proc[i] \in {"live", "ending"} \/ (proc[i] = "dead" /\ paused[i] = "stuck")
  /\ IF paused[i] = "stuck"
       THEN Forget(i)
       ELSE proc' = [proc EXCEPT ![i] = "dead"] /\ UNCHANGED <<sockets, timer, paused>>
  /\ UNCHANGED <<registry, clients, outside>>

\* Mutant: only the registered shell's sockets are told.
StreamEndsQuietly(i) ==
  /\ proc[i] = "dead" /\ paused[i] = "no"
  /\ Forget(i)
  /\ registry' = NoShell
  /\ UNCHANGED <<clients, outside>>

\* The stream's 'end' or 'error' event; a paused stream reports neither.  It
\* deletes the container's entry, whichever shell that entry is by now.
StreamEnds(i) ==
  /\ proc[i] = "dead" /\ paused[i] = "no"
  /\ Forget(i)
  /\ Close(sockets[i])
  /\ registry' = NoShell
  /\ UNCHANGED <<pc, term, peer, behind, outside>>

\* A message for a stream that has ended raises its 'error' event.
WriteAfterEnd(w) ==
  /\ pc[w] = "open" /\ conn[w] \in {"open", "closing"}
  /\ proc[term[w]] \in {"ending", "over"}
  /\ "lateEnd" \in Races \/ registry \in {NoShell, term[w]}
  /\ Close(sockets[term[w]])
  /\ registry' = NoShell
  /\ UNCHANGED <<proc, sockets, timer, paused, pc, term, peer, behind, outside>>

\* The 'data' listener fans a chunk out and w falls behind;
\* maybeApplyBackpressure.
Output(i, w) ==
  /\ "behind" \in Races
  /\ proc[i] = "live" /\ paused[i] = "no"
  /\ w \in sockets[i] /\ conn[w] = "open"
  /\ behind' = [behind EXCEPT ![w] = TRUE]
  /\ paused' = [paused EXCEPT ![i] = "polling"]
  /\ UNCHANGED <<registry, proc, sockets, timer, conn, pc, term, peer, outside>>

\* The client reads.
PeerReads(w) ==
  /\ conn[w] = "open" /\ peer[w] = "present" /\ behind[w]
  /\ behind' = [behind EXCEPT ![w] = FALSE]
  /\ UNCHANGED <<shells, conn, pc, term, peer, outside>>

\* Mutant: the timer is cleared at its first tick.
ResumeCheckOnce(i) ==
  /\ paused[i] = "polling"
  /\ paused' = [paused EXCEPT ![i] =
                  IF \A w \in sockets[i] : ~behind[w] THEN "no" ELSE "stuck"]
  /\ UNCHANGED <<registry, proc, sockets, timer, clients, outside>>

\* resumeCheckTimer ticks and finds every attached socket drained.
ResumeCheck(i) ==
  /\ paused[i] = "polling"
  /\ \A w \in sockets[i] : ~behind[w]
  /\ paused' = [paused EXCEPT ![i] = "no"]
  /\ UNCHANGED <<registry, proc, sockets, timer, clients, outside>>

\* What is left of the timer of i: the field is not reset.
Fired(i) == timer' = [timer EXCEPT ![i] = IF proc[i] = "over" THEN "off" ELSE "fired"]

\* Mutant: the callback does not look whether somebody is attached.
GraceOverBlind(i) ==
  /\ timer[i] = "armed"
  /\ Fired(i)
  /\ IF registry # NoShell
       THEN EndStream(registry)
       ELSE UNCHANGED <<registry, proc, paused>>
  /\ UNCHANGED <<sockets, clients, outside>>

\* graceTimer of i fires and ends the shell that is registered now.
GraceOver(i) ==
  /\ timer[i] = "armed"
  /\ Fired(i)
  /\ IF registry # NoShell /\ sockets[registry] = {}
       THEN EndStream(registry)
       ELSE UNCHANGED <<registry, proc, paused>>
  /\ UNCHANGED <<sockets, clients, outside>>

-----------------------------------------------------------------------------
(* The environment.                                                        *)

\* destroyContainer up to its await.
DestroyContainer ==
  /\ container # "gone" /\ ~removing
  /\ EndShellSession({})
  /\ removing' = TRUE
  /\ UNCHANGED <<pc, term, peer, behind, container, serving>>

\* container.remove succeeds, or is refused and somebody may try again.
RemoveReturns ==
  /\ removing
  /\ removing' = FALSE
  /\ container' \in {"gone", container}
  /\ UNCHANGED <<shells, clients, serving>>

ContainerStops ==
  /\ container = "up"
  /\ container' = "stopped"
  /\ UNCHANGED <<shells, clients, removing, serving>>

\* closeAllTerminals.
CloseAllTerminals ==
  /\ "sigterm" \in Races
  /\ serving
  /\ serving' = FALSE
  /\ Close(Sockets)
  /\ UNCHANGED <<shells, pc, term, peer, behind, container, removing>>

-----------------------------------------------------------------------------
Init ==
  /\ registry  = NoShell
  /\ proc      = [i \in Shells |-> "over"]
  /\ sockets   = [i \in Shells |-> {}]
  /\ timer     = [i \in Shells |-> "off"]
  /\ paused    = [i \in Shells |-> "no"]
  /\ conn      = [w \in Sockets |-> "closed"]
  /\ pc        = [w \in Sockets |-> "idle"]
  /\ term      = [w \in Sockets |-> NoShell]
  /\ peer      = [w \in Sockets |-> "present"]
  /\ behind    = [w \in Sockets |-> FALSE]
  /\ container = "up"
  /\ removing  = FALSE
  /\ serving   = TRUE

Bridge(w)      == BridgeQuery(w) \/ BridgeAlive(w) \/ BridgeExec(w)
ClientStep(w)  == Connect(w) \/ PeerLeaves(w) \/ PeerVanishes(w) \/ WriteAfterEnd(w)
Environment    == \/ DestroyContainer \/ RemoveReturns \/ ContainerStops
                  \/ CloseAllTerminals

Next ==
  \/ \E w \in Sockets : Bridge(w) \/ ClientStep(w) \/ CloseEvent(w) \/ PeerReads(w)
  \/ \E i \in Shells : \/ ShellExits(i) \/ StreamEnds(i) \/ ResumeCheck(i) \/ GraceOver(i)
                       \/ \E w \in Sockets : Output(i, w)
  \/ HeartbeatSweep
  \/ Environment

Spec == Init /\ [][Next]_vars

\* The event loop, its timers and Docker run what can run; a client that is
\* there reads what it is sent (one that does not read does not answer pings
\* either: it has vanished).  Nobody has to connect, leave or end a session.
Fairness ==
  /\ \A w \in Sockets : /\ WF_vars(Bridge(w)) /\ WF_vars(CloseEvent(w))
                        /\ WF_vars(PeerReads(w))
  /\ \A i \in Shells : /\ WF_vars(StreamEnds(i)) /\ WF_vars(ResumeCheck(i))
                       /\ WF_vars(GraceOver(i))
                       /\ WF_vars((i \notin Live \/ container # "up") /\ ShellExits(i))
  /\ WF_vars(HeartbeatSweep)

FairSpec == Spec /\ Fairness

-----------------------------------------------------------------------------
(* Properties.                                                             *)

\* The type invariant.
TypeOK ==
  /\ registry \in Shells \cup {NoShell}
  /\ proc \in [Shells -> {"live", "ending", "dead", "over"}]
  /\ sockets \in [Shells -> SUBSET Sockets]
  /\ timer \in [Shells -> {"off", "armed", "fired"}]
  /\ paused \in [Shells -> {"no", "polling", "stuck"}]
  /\ conn \in [Sockets -> {"closed", "open", "closing"}]
  /\ pc \in [Sockets -> {"idle", "query", "alive", "exec", "open"}]
  /\ term \in [Sockets -> Shells \cup {NoShell}]
  /\ peer \in [Sockets -> {"present", "vanished", "missed"}]
  /\ behind \in [Sockets -> BOOLEAN]
  /\ container \in {"up", "stopped", "gone"}
  /\ removing \in BOOLEAN /\ serving \in BOOLEAN

\* The registered shell waits for its end exactly when nobody is attached to
\* it: no attached user is under a running grace timer and no abandoned shell
\* is without one, in whatever order sockets, streams and timers report.
GraceArmed ==
  registry # NoShell => (timer[registry] = "armed" <=> sockets[registry] = {})

\* "A WebSocket reconnect resumes the same bash process": two shells that
\* nobody ended never run in one container.
OneShell == \A i, j \in Live : i = j

Attended(i) == \E w \in sockets[i] : conn[w] = "open" /\ peer[w] = "present"

\* "Starts the reconnect-grace teardown timer once no sockets remain attached":
\* a shell whose clients all left or vanished is ended, unless one comes back.
AbandonedShellEnds ==
  \A i \in Shells :
    (i \in Live /\ ~Attended(i)) ~>
      (i \notin Live \/ \E w \in Sockets : pc[w] \in {"query", "alive", "exec"})

\* One client that stopped reading does not silence the shell for the others.
StreamResumes ==
  \A i \in Shells : (i \in Live /\ paused[i] = "polling") ~>
                    (i \notin Live \/ paused[i] = "no")

\* When the container is gone every terminal on it is closed.
TerminalsClosed ==
  \A w \in Sockets : (container = "gone" /\ pc[w] = "open") ~> pc[w] # "open"

-----------------------------------------------------------------------------
(* The promise, from the registry's state.                                 *)

\* The process as Terminal sees it: a stream whose bash has exited has none.
Bash == [i \in Shells |-> CASE proc[i] = "live"   -> "runs"
                            [] proc[i] = "ending" -> "ended"
                            [] OTHER              -> "none"]

\* Whose keys reach a running shell.
User == [w \in Sockets |-> IF pc[w] = "open" /\ conn[w] = "open" /\ term[w] \in Live
                             THEN term[w] ELSE NoShell]

T == INSTANCE Terminal WITH bash <- Bash, user <- User,
                            over <- removing \/ container # "up"

\* "A WebSocket reconnect resumes the same bash process", which is ended "once no
\* sockets remain attached": whoever connects joins the shell that runs, and the
\* backend ends a shell under nobody's hands unless the session is over.
ShellKept == T!Spec
=============================================================================
