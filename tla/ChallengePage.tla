--------------------------- MODULE ChallengePage ---------------------------
(***************************************************************************)
(* The challenge page of the browser: which session it shows, the socket   *)
(* of its terminal, the automatic reconnection after a drop, and the       *)
(* answers of the backend, which come late, fail, or come after the page   *)
(* has moved to another challenge.                                         *)
(*                                                                         *)
(* frontend/src/pages/ChallengeDetailPage.tsx, components/TerminalPane.tsx,*)
(* api/queries.ts; of the backend what the page can observe of             *)
(* routes/challenges.routes.ts, routes/sessions.routes.ts and              *)
(* ws/terminalSocket.ts.                                                   *)
(*                                                                         *)
(* Grain: one action per event the browser delivers (a click, an answer, a *)
(* timer, a socket event).  React runs the effects that depend on what the *)
(* event changed before the next event, so they are part of the action:    *)
(* Resumed and Repaned.  One user; rows end or are started elsewhere too,  *)
(* by another tab or by the reaper.                                        *)
(*                                                                         *)
(* Data abstracted away: the check's and the solution's panels, hints, the *)
(* bytes of the terminal, and what a ticket says (a new one opens a new    *)
(* socket); an answer to a query or a ticket request is as fresh as its    *)
(* arrival.  A reload, or a visit from the dashboard, is an initial state. *)
(***************************************************************************)
EXTENDS Naturals, FiniteSets

CONSTANTS
  Slugs,       \* challenges
  NumSessions, \* bound: rows ever inserted
  MaxAttempts, \* RECONNECT_DELAYS_MS.length
  MaxStray,    \* bound: sessions with a pending timer that no ref points to
  MaxClosing,  \* bound: close events told apart while they are outstanding
  Unknown,     \* the query for the active session has not been answered yet
  None

ASSUME NumSessionsAssumption == NumSessions \in Nat \ {0}
ASSUME BoundsAssumption == {MaxAttempts, MaxStray, MaxClosing} \subseteq Nat \ {0}
ASSUME NoneAssumption ==
  None # Unknown /\ {None, Unknown} \cap (Slugs \cup (1 .. NumSessions)) = {}

VARIABLES
  row,   \* the sessions table: status and challenge
  start, \* the POST that starts a session, on its way and back
  stop,  \* the POST that stops one
  page   \* the state, refs and mutations of ChallengeDetailPage, its socket

vars == <<row, start, stop, page>>

Ids        == 1 .. NumSessions
NoRow      == [status |-> "none", slug |-> None]
RunningRow == [status : {"running"}, slug : Slugs]
NoStart    == [phase |-> "none", id |-> None, slug |-> None]
NoStop     == [phase |-> "none", id |-> None, here |-> FALSE]
NoRequest  == [id |-> None, why |-> "none"]

\* refreshTicketMutation while pending: for which session, asked by whom.
AskTicket(i, why) == [id |-> i, why |-> why]

\* ACTIVE_STATUSES; "running" stands for all of them.
ActiveRow(i) == row[i].status = "running"

\* The page as it mounts on challenge s.  resuming: "lost" is true for good.
Mounted(s) ==
  [slug     |-> s,         session |-> None,  active   |-> Unknown,
   stopping |-> FALSE,     stopped |-> {},    attempts |-> 0,
   timer    |-> None,      stray   |-> {},
   refresh  |-> NoRequest,
   resuming |-> "no",      status  |-> "connecting",
   sock     |-> "none",    closing |-> 0,     over     |-> FALSE]

-----------------------------------------------------------------------------
(* Rendering: what an event that leaves the page in q leads to.            *)

Checking(p) == p.active = Unknown \/ p.resuming # "no"

\* TerminalPane is mounted.
Shown(p) == p.session # None /\ ~Checking(p)

\* The effect that resumes a session the backend reports for this challenge.
Resumed(q) ==
  IF /\ q.active \in Ids /\ row[q.active].slug = q.slug
     /\ q.session = None /\ q.refresh = NoRequest
     /\ q.active \notin q.stopped
  THEN [q EXCEPT !.resuming = "asked",
                 !.refresh  = AskTicket(q.active, "resume")]
  ELSE q

\* The effect of TerminalPane that opens a socket per ticket, and its cleanup.
Repaned(p, q, ticket) ==
  LET opens  == Shown(q) /\ (~Shown(p) \/ ticket)
      closes == p.sock \in {"connecting", "open"} /\ (opens \/ ~Shown(q))
      closed == IF closes /\ q.closing < MaxClosing THEN q.closing + 1 ELSE q.closing
  IN  [q EXCEPT !.closing = closed,
                !.sock    = IF opens THEN "connecting" ELSE IF Shown(q) THEN @ ELSE "none",
                !.status  = IF opens \/ ~Shown(q) THEN "connecting" ELSE @,
                !.over    = @ /\ ~opens /\ Shown(q)]

\* q is the page after the event; ticket: setSession was given a new ticket.
Commit(q, ticket) ==
  LET depends == ticket \/ q.active # page.active \/ q.slug # page.slug
                        \/ q.session # page.session
  IN  page' = Repaned(page, IF depends THEN Resumed(q) ELSE q, ticket)

\* The dashboard's card leads to the challenge of the session it shows, which is
\* in the cache when the page mounts.
Continued ==
  IF ActiveRow(1) THEN {Resumed([Mounted(row[1].slug) EXCEPT !.active = 1])} ELSE {}

Init ==
  /\ row   \in {[i \in Ids |-> IF i = 1 THEN r ELSE NoRow] : r \in {NoRow} \cup RunningRow}
  /\ start = NoStart
  /\ stop  = NoStop
  /\ page  \in {Mounted(s) : s \in Slugs} \cup Continued

\* History: an attempt for the terminal on display came to its end, with an
\* error toast or, where mutate is given no onError, without.
Over(p) == [p EXCEPT !.over = Shown(p)]

-----------------------------------------------------------------------------
(* The user.                                                               *)

CanStart == ~Checking(page) /\ page.session = None /\ start.phase = "none"

Start ==
  /\ CanStart
  /\ start' = [phase |-> "sent", id |-> None, slug |-> page.slug]
  /\ page'  = [page EXCEPT !.stopping = FALSE]
  /\ UNCHANGED <<row, stop>>

CanStop == Shown(page) /\ stop.phase = "none"

\* Mutant: the stale cache entry of the stopped session is not remembered.
StopForgets ==
  /\ CanStop
  /\ stop' = [phase |-> "sent", id |-> page.session, here |-> TRUE]
  /\ page' = [page EXCEPT !.stopping = TRUE, !.timer = None, !.attempts = 0]
  /\ UNCHANGED <<row, start>>

Stop ==
  /\ CanStop
  /\ stop' = [phase |-> "sent", id |-> page.session, here |-> TRUE]
  /\ page' = [page EXCEPT !.stopping = TRUE, !.stopped = @ \cup {page.session},
                          !.timer = None, !.attempts = 0]
  /\ UNCHANGED <<row, start>>

CanReconnect ==
  Shown(page) /\ page.status = "disconnected" /\ page.refresh = NoRequest

Reconnect ==
  /\ CanReconnect
  /\ page' = [page EXCEPT !.refresh = AskTicket(page.session, "manual")]
  /\ UNCHANGED <<row, start, stop>>

\* The page moves to another challenge: same component, new slug.
Navigate(s) ==
  /\ s # page.slug
  /\ Commit([page EXCEPT !.slug = s, !.session = None, !.stopping = FALSE,
                         !.stopped = {}, !.attempts = 0, !.timer = None], FALSE)
  /\ stop'  = [stop EXCEPT !.here = FALSE]
  /\ UNCHANGED <<row, start>>

-----------------------------------------------------------------------------
(* Answers.                                                                *)

\* The answer to the start; the caches it invalidates are refetched later.
Started ==
  /\ start.phase = "ok"
  /\ start' = NoStart
  /\ Commit([page EXCEPT !.session = start.id], TRUE)
  /\ UNCHANGED <<row, stop>>

StartFails ==
  /\ start.phase = "sent"
  /\ start' = NoStart
  /\ UNCHANGED <<row, stop, page>>

Stopped ==
  /\ stop.phase = "ok"
  /\ stop' = NoStop
  /\ Commit([page EXCEPT !.session = None], FALSE)
  /\ UNCHANGED <<row, start>>

\* The request or the stop itself failed.
StopFails ==
  /\ stop.phase = "sent"
  /\ stop' = NoStop
  /\ page' = Over([page EXCEPT !.stopping = FALSE])
  /\ UNCHANGED <<row, start>>

\* GET /api/sessions/active: on mount, after an invalidation, on window focus.
\* The same session with another status or hint count runs the effect again too.
Refetch ==
  /\ \E a \in {None} \cup Ids :
       /\ IF a = None THEN \A i \in Ids : ~ActiveRow(i) ELSE ActiveRow(a)
       /\ page' = Repaned(page, Resumed([page EXCEPT !.active = a]), FALSE)
  /\ UNCHANGED <<row, start, stop>>

RefetchFails ==
  /\ page.active = Unknown
  /\ Commit([page EXCEPT !.active = None], FALSE)
  /\ UNCHANGED <<row, start, stop>>

\* The callbacks of the latest refreshTicketMutation.mutate.
TicketGranted ==
  /\ page.refresh # NoRequest
  /\ row[page.refresh.id].status = "running"
  /\ LET i == page.refresh.id
         q == [page EXCEPT !.refresh = NoRequest]
     IN  IF page.refresh.why = "resume"
         THEN Commit([q EXCEPT !.session = i, !.resuming = "no"], TRUE)
         ELSE IF page.session = None THEN page' = q
         ELSE Commit(q, TRUE)
  /\ UNCHANGED <<row, start, stop>>

\* Mutant: setResuming(false) on success only.
TicketRefusedStuck ==
  /\ page.refresh # NoRequest
  /\ page' = Over([page EXCEPT !.refresh = NoRequest])
  /\ UNCHANGED <<row, start, stop>>

TicketRefused ==
  /\ page.refresh # NoRequest
  /\ IF page.refresh.why = "resume"
     THEN Commit([page EXCEPT !.refresh = NoRequest, !.resuming = "no"], FALSE)
     ELSE page' = Over([page EXCEPT !.refresh = NoRequest])
  /\ UNCHANGED <<row, start, stop>>

-----------------------------------------------------------------------------
(* The socket and the retries.                                             *)

\* handleTerminalStatusChange with "disconnected".
Disconnected(p) ==
  IF p.stopping \/ ~Shown(p) THEN p ELSE [p EXCEPT !.status = "disconnected"]

\* Mutant: the attempt is not counted.
ExitedUncounted(p) ==
  IF p.stopping THEN p
  ELSE IF p.attempts >= MaxAttempts THEN [p EXCEPT !.attempts = 0, !.over = TRUE]
  ELSE [p EXCEPT !.timer = p.session,
                 !.stray = @ \cup ({p.timer} \ {None})]

\* Mutant: one attempt more than there are delays.
ExitedOnceMore(p) ==
  IF p.stopping THEN p
  ELSE IF p.attempts > MaxAttempts THEN [p EXCEPT !.attempts = 0, !.over = TRUE]
  ELSE [p EXCEPT !.attempts = @ + 1, !.timer = p.session,
                 !.stray = @ \cup ({p.timer} \ {None})]

\* Mutant: the page gives up without a word.
ExitedQuietly(p) ==
  IF p.stopping THEN p
  ELSE IF p.attempts >= MaxAttempts THEN [p EXCEPT !.attempts = 0]
  ELSE [p EXCEPT !.attempts = @ + 1, !.timer = p.session,
                 !.stray = @ \cup ({p.timer} \ {None})]

\* handleUnexpectedExit: the ref is overwritten, an older timer stays pending.
Exited(p) ==
  IF p.stopping THEN p
  ELSE IF p.attempts >= MaxAttempts THEN [p EXCEPT !.attempts = 0, !.over = TRUE]
  ELSE [p EXCEPT !.attempts = @ + 1, !.timer = p.session,
                 !.stray = @ \cup ({p.timer} \ {None})]

\* The handshake asks for a valid ticket only; the row is looked at after it.
SocketOpens ==
  /\ page.sock = "connecting"
  /\ page' = [page EXCEPT !.sock = "open", !.status = "connected", !.attempts = 0]
  /\ UNCHANGED <<row, start, stop>>

\* The network fails, the container is gone, or the bridge turns it away.
SocketCloses ==
  /\ page.sock \in {"connecting", "open"}
  /\ Cardinality(page.stray \cup ({page.timer} \ {None})) <= MaxStray
  /\ page' = Exited(Disconnected([page EXCEPT !.sock = "closed"]))
  /\ UNCHANGED <<row, start, stop>>

\* The close event of a socket that the page itself closed.
LateClose ==
  /\ page.closing > 0
  /\ page' = Disconnected([page EXCEPT !.closing = @ - 1])
  /\ UNCHANGED <<row, start, stop>>

\* The callback of a reconnect timer.  A newer mutate drops the callbacks of an
\* older one: setResuming(false) is lost with them.
Retried(p, i) ==
  IF p.stopping THEN p
  ELSE [p EXCEPT !.refresh  = AskTicket(i, "auto"),
                 !.resuming = IF @ = "asked" THEN "lost" ELSE @]

TimerFires ==
  /\ page.timer # None
  /\ page' = Retried([page EXCEPT !.timer = None], page.timer)
  /\ UNCHANGED <<row, start, stop>>

\* The callback of an overwritten timer clears the ref, which names another one.
StrayFires(i) ==
  /\ i \in page.stray
  /\ page' = Retried([page EXCEPT !.stray = (@ \ {i}) \cup ({page.timer} \ {None}),
                                 !.timer = None], i)
  /\ UNCHANGED <<row, start, stop>>

-----------------------------------------------------------------------------
(* The backend as the page can observe it.                                 *)

Ended(r) == [r EXCEPT !.status = "ended"]

\* The next row, with every active one ended.
Inserted(i, s) ==
  /\ row[i].status = "none" /\ \A j \in 1 .. i - 1 : row[j].status # "none"
  /\ row' = [j \in Ids |-> IF j = i THEN [status |-> "running", slug |-> s]
                           ELSE IF ActiveRow(j) THEN Ended(row[j]) ELSE row[j]]

\* startSession: prior active sessions are stopped; the row runs before the
\* answer with its ticket is sent.
StartServed ==
  /\ start.phase = "sent"
  /\ \E i \in Ids :
       /\ Inserted(i, start.slug)
       /\ start' = [phase |-> "ok", id |-> i, slug |-> None]
  /\ UNCHANGED <<stop, page>>

\* destroyContainer, then the UPDATE; the socket may close before the answer.
StopServed ==
  /\ stop.phase = "sent"
  /\ row'  = [row EXCEPT ![stop.id] = Ended(@)]
  /\ stop' = [stop EXCEPT !.phase = "ok"]
  /\ UNCHANGED <<start, page>>

\* Another tab or the reaper ends the session, or a check solves it.
EndsElsewhere(i) ==
  /\ ActiveRow(i)
  /\ row' = [row EXCEPT ![i] = Ended(@)]
  /\ UNCHANGED <<start, stop, page>>

\* Another tab starts a challenge.
StartsElsewhere(s) ==
  /\ \E i \in Ids : Inserted(i, s)
  /\ UNCHANGED <<start, stop, page>>

-----------------------------------------------------------------------------
UserActs == Start \/ Stop \/ Reconnect \/ \E s \in Slugs : Navigate(s)
Answers  == \/ Started \/ StartFails \/ Stopped \/ StopFails
            \/ Refetch \/ RefetchFails \/ TicketGranted \/ TicketRefused
Socket   == SocketOpens \/ SocketCloses \/ LateClose
Timers   == TimerFires \/ \E i \in Ids : StrayFires(i)
Backend  == StartServed \/ StopServed
Others   == \/ \E i \in Ids : EndsElsewhere(i)
            \/ \E s \in Slugs : StartsElsewhere(s)

Next == UserActs \/ Answers \/ Socket \/ Timers \/ Backend \/ Others

Spec == Init /\ [][Next]_vars

\* The browser runs the timers that are due and delivers the ticket's answer or
\* its failure.  Nothing is assumed of the user, the network or other tabs.
FairSpec ==
  Spec /\ WF_vars(Timers) /\ WF_vars(TicketGranted \/ TicketRefused)

-----------------------------------------------------------------------------
(* Properties.                                                             *)

SessionOrNone == {None} \cup Ids

\* The page keeps its types and the retry budget its bound.
TypeOK ==
  /\ row \in [Ids -> [status : {"none", "running", "ended"},
                      slug : Slugs \cup {None}]]
  /\ start \in [phase : {"none", "sent", "ok"}, id : SessionOrNone,
                slug : Slugs \cup {None}]
  /\ stop \in [phase : {"none", "sent", "ok"}, id : SessionOrNone, here : BOOLEAN]
  /\ page \in [slug : Slugs, session : SessionOrNone, active : {Unknown} \cup SessionOrNone,
               stopping : BOOLEAN, stopped : SUBSET Ids, attempts : 0 .. MaxAttempts,
               timer : SessionOrNone, stray : SUBSET Ids,
               refresh : [id : SessionOrNone, why : {"none", "resume", "manual", "auto"}],
               resuming : {"no", "asked", "lost"}, status : {"connecting", "connected", "disconnected"},
               sock : {"none", "connecting", "open", "closed"},
               closing : 0 .. MaxClosing, over : BOOLEAN]

\* The answer to a stop never makes the page resume the session it just stopped,
\* although the cache still reports it, unless the page has moved meanwhile:
\* trying "404/409s and throws a spurious error toast".
StoppedNotResumed ==
  [][Stopped /\ stop.here =>
       ~(page'.refresh.why = "resume" /\ page'.refresh.id = stop.id)]_vars

\* A terminal that lost its socket is being retried, or an attempt has come to its
\* end.  (Not always with a word to the user: the automatic attempt has no onError,
\* so one refused ticket ends the retries in silence.)  A stop under way exempts.
DropsAreHandled ==
  Shown(page) /\ page.sock = "closed" /\ ~page.stopping =>
    page.timer # None \/ page.refresh # NoRequest \/ page.over

\* "Resuming your session" waits for an answer that will end it, unless a retry
\* timer asked for a ticket in the meantime; then it stays, on every challenge.
ResumeSettles == page.resuming = "asked" <=> page.refresh.why = "resume"

\* A page nobody touches gives its retries up, unless sockets open again and
\* again (the handshake asks only for a ticket and resets the budget).
RetriesStop ==
  \/ []<><<SocketOpens \/ UserActs>>_vars
  \/ <>[](page.timer = None /\ page.stray = {})

\* "A session belongs to a single challenge ... so navigating between challenges
\* doesn't carry over stale state."
NoCarryOver == page.session # None => row[page.session].slug = page.slug

=============================================================================
