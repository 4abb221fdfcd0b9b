--------------------------- MODULE SessionService ---------------------------
(***************************************************************************)
(* The life of a challenge session: the rows of the sessions table, the    *)
(* Docker container behind each row, and everything that writes either:    *)
(* the HTTP handlers (start, stop, heartbeat, check, delete-account), the  *)
(* idle reaper, the SIGTERM drain and the reconciliation at boot.          *)
(*                                                                         *)
(* backend/src/services/session.service.ts, docker.service.ts (container   *)
(* lifecycle), jobs/idleReaper.ts, index.ts, auth.service.ts (deletion).   *)
(*                                                                         *)
(* Grain: one action per awaited database query or Docker call.  Between   *)
(* two awaits Node runs the handler alone; at an await everybody else may  *)
(* run, which is where every interesting interleaving comes from.          *)
(*                                                                         *)
(* Data abstracted away: one challenge; timestamps become the two booleans *)
(* the queries compute from them (idle, grace); the container of session s *)
(* is named s, as the code names it devops-trainer-session-<id> and calls  *)
(* createContainer at most once per row.                                   *)
(***************************************************************************)
EXTENDS Naturals, FiniteSets

CONSTANTS
  Users,                 \* accounts that exist initially
  NumSessions,           \* bound: rows ever inserted in the sessions table
  Requests,              \* bound: HTTP handlers in flight at a time
  Reapers,               \* bound: overlapping runs of the idle reaper
  Drainer,               \* the sweep of drainAllActiveSessions
  MaxConcurrentSessions, \* MAX_CONCURRENT_SESSIONS
  Ops,                   \* the requests the clients issue
  Faults,                \* what may go wrong
  SlowStart,             \* may a start take longer than the idle timeout?
  NoUser

ASSUME NumSessionsAssumption == NumSessions \in Nat
ASSUME CapAssumption == MaxConcurrentSessions \in Nat \ {0}
ASSUME DrainerAssumption == Drainer \notin Reapers
ASSUME OpsAssumption == Ops \subseteq {"start", "stop", "check", "delete"}
ASSUME FaultsAssumption ==
         Faults \subseteq {"start", "remove", "exit", "query", "crash", "term"}
ASSUME SlowStartAssumption == SlowStart \in BOOLEAN
ASSUME NoUserAssumption == NoUser \notin Users

VARIABLES
  accounts,  \* the users table
  status,    \* sessions.status; "none": not inserted yet, "deleted": cascaded
  owner,     \* sessions.user_id
  linked,    \* sessions.container_id IS NOT NULL
  idle,      \* last_activity_at is older than IDLE_TIMEOUT_MINUTES
  grace,     \* solved_at is older than SOLVED_GRACE_MINUTES
  credited,  \* the session has a passed check_attempts row
  progress,  \* progress.best_status of the user, "none" without a row
  container, \* Docker's state of the container created for the session
  req,       \* the handlers in flight
  sweep,     \* the runs of the reaper and of the shutdown drain
  phase,     \* the backend process
  todo       \* bootstrap's work list

records  == <<accounts, owner, credited, progress>>
row      == <<status, linked, idle, grace>>
process  == <<phase, todo>>
vars     == <<records, row, container, req, sweep, process>>

Sessions  == 1..NumSessions
NoSession == 0

\* ACTIVE_STATUSES
Active   == {"starting", "running", "checking"}
Statuses == Active \cup {"solved", "abandoned", "expired", "error"}

\* The statement UPDATE sessions ... WHERE id = s matches a row.
Row(s)     == status[s] \in Statuses
ActiveSet  == {s \in Sessions : status[s] \in Active}
\* Mutant: a row left 'starting' is not torn down.
ActiveOfLaunched(u) == {s \in ActiveSet : owner[s] = u /\ status[s] # "starting"}

ActiveOf(u) == {s \in ActiveSet : owner[s] = u}
Unused     == {s \in Sessions : status[s] = "none"}

\* The container is in docker ps -a / is running.
Exists(s) == container[s] \in {"stopped", "running"}

NoReq   == [op |-> "none", pc |-> "idle", user |-> NoUser, sess |-> NoSession,
            passed |-> FALSE]
NoSweep == [job |-> "none", rows |-> {}, held |-> {}, cur |-> NoSession]

Goto(r, pc) == req' = [req EXCEPT ![r].pc = pc]
On(r, s, pc) == req' = [req EXCEPT ![r].sess = s, ![r].pc = pc]
Finish(r)   == req' = [req EXCEPT ![r] = NoReq]
At(r, pc)   == req[r].pc = pc

\* UPDATE sessions SET status = st WHERE id = s.  Only the verdict 'solved'
\* sets solved_at, and only a solved row's solved_at is ever read, so every
\* status write leaves the grace period unexpired.
WriteStatus(s, st) ==
  /\ status' = [status EXCEPT ![s] = IF Row(s) THEN st ELSE @]
  /\ grace'  = [grace EXCEPT ![s] = FALSE]

\* destroyContainer: remove({ force: true }); 304 and 404 are success.
Remove(s) == container' = [container EXCEPT ![s] = IF Exists(s) THEN "removed" ELSE @]

\* destroyContainer throws: the daemon refused to remove the container.
RemoveRefused(s) == "remove" \in Faults /\ Exists(s) /\ UNCHANGED container

-----------------------------------------------------------------------------
(* A request passes requireAuth and enters its handler.                    *)

PreInsert == {r \in Requests : /\ req[r].op = "start"
                               /\ req[r].pc \in {"count", "prior", "stopRead",
                                     "stopDestroy", "stopUpdate", "insert"}}

Arrive(r, op, u, s, pc) ==
  /\ phase = "up"
  /\ op \in Ops
  /\ At(r, "idle")
  /\ req' = [req EXCEPT ![r] = [op |-> op, pc |-> pc, user |-> u, sess |-> s,
                                passed |-> FALSE]]
  /\ UNCHANGED <<records, row, container, sweep, process>>

\* The bound NumSessions: a start is accepted only if its row can be inserted.
StartRequest(r, u) ==
  /\ Cardinality(Unused) > Cardinality(PreInsert)
  /\ Arrive(r, "start", u, NoSession, "count")

StopRequest(r, u, s)  == Arrive(r, "stop", u, s, "stopRead")
CheckRequest(r, u, s) == Arrive(r, "check", u, s, "read")
DeleteRequest(r, u)   == Arrive(r, "delete", u, NoSession, "active")

Heartbeat(u, s) ==
  /\ phase = "up"
  /\ owner[s] = u
  /\ status[s] \in Active
  /\ idle[s]
  /\ idle' = [idle EXCEPT ![s] = FALSE]
  /\ UNCHANGED <<records, status, linked, grace, container, req, sweep, process>>

-----------------------------------------------------------------------------
(* startSession.                                                           *)

\* Mutant: the comparison with the cap is off by one.
StartCountOffByOne(r) ==
  /\ At(r, "count")
  /\ IF Cardinality(ActiveSet) > MaxConcurrentSessions THEN Finish(r) ELSE Goto(r, "prior")
  /\ UNCHANGED <<records, row, container, sweep, process>>

StartCount(r) ==
  /\ At(r, "count")
  /\ IF Cardinality(ActiveSet) >= MaxConcurrentSessions
       THEN Finish(r)                                            \* 429
       ELSE Goto(r, "prior")
  /\ UNCHANGED <<records, row, container, sweep, process>>

\* LIMIT 1 without ORDER BY: any of the user's active rows.
StartPrior(r) ==
  /\ At(r, "prior")
  /\ IF ActiveOf(req[r].user) = {}
       THEN Goto(r, "insert")
       ELSE \E s \in ActiveOf(req[r].user) :
              On(r, s, "stopRead")
  /\ UNCHANGED <<records, row, container, sweep, process>>

\* The foreign key refuses the row of a user deleted in the meantime.
StartInsert(r) ==
  /\ At(r, "insert")
  /\ IF req[r].user \notin accounts
       THEN Finish(r) /\ UNCHANGED <<records, row>>
       ELSE \E s \in Unused :
              /\ \A t \in Unused : s <= t
              /\ status' = [status EXCEPT ![s] = "starting"]
              /\ owner'  = [owner EXCEPT ![s] = req[r].user]
              /\ On(r, s, "provision")
              /\ UNCHANGED <<accounts, credited, progress, linked, idle, grace>>
  /\ UNCHANGED <<container, sweep, process>>

\* ensureChallengeNetwork, buildImageIfMissing, docker.createContainer.
Provision(r) ==
  /\ At(r, "provision")
  /\ container' = [container EXCEPT ![req[r].sess] = "stopped"]
  /\ Goto(r, "launch")
  /\ UNCHANGED <<records, row, sweep, process>>

\* container.start().
Launch(r) ==
  /\ At(r, "launch")
  /\ container' = [container EXCEPT ![req[r].sess] = "running"]
  /\ Goto(r, "publish")
  /\ UNCHANGED <<records, row, sweep, process>>

\* Either call throws.  A container that was created and would not start is
\* left behind: the catch block does not know it.
ProvisionFails(r) ==
  /\ "start" \in Faults
  /\ At(r, "provision") \/ At(r, "launch")
  /\ Goto(r, "fail")
  /\ UNCHANGED <<records, row, container, sweep, process>>

StartPublish(r) ==
  /\ At(r, "publish")
  /\ LET s == req[r].sess IN
       /\ WriteStatus(s, "running")
       /\ linked' = [linked EXCEPT ![s] = Row(s)]
  /\ Finish(r)
  /\ UNCHANGED <<records, idle, container, sweep, process>>

StartFail(r) ==
  /\ At(r, "fail")
  /\ WriteStatus(req[r].sess, "error")
  /\ Finish(r)
  /\ UNCHANGED <<records, linked, idle, container, sweep, process>>

-----------------------------------------------------------------------------
(* stopSession, called by its route, by startSession and by                *)
(* deleteOwnAccount.  container_id is read before the destroy and the      *)
(* final UPDATE tests nothing.                                             *)

\* Mutant: only the stop route destroys the container.
StopReadSparesPrior(r) ==
  /\ At(r, "stopRead")
  /\ LET s == req[r].sess IN
       IF ~Row(s) \/ owner[s] # req[r].user
         THEN Finish(r)
         ELSE Goto(r, IF linked[s] /\ req[r].op = "stop" THEN "stopDestroy" ELSE "stopUpdate")
  /\ UNCHANGED <<records, row, container, sweep, process>>

StopRead(r) ==
  /\ At(r, "stopRead")
  /\ LET s == req[r].sess IN
       IF ~Row(s) \/ owner[s] # req[r].user
         THEN Finish(r)                                \* session not found
         ELSE Goto(r, IF linked[s] THEN "stopDestroy" ELSE "stopUpdate")
  /\ UNCHANGED <<records, row, container, sweep, process>>

StopDestroy(r) ==
  /\ At(r, "stopDestroy")
  /\ \/ Remove(req[r].sess) /\ Goto(r, "stopUpdate")
     \/ RemoveRefused(req[r].sess) /\ Finish(r)
  /\ UNCHANGED <<records, row, sweep, process>>

StopUpdate(r) ==
  /\ At(r, "stopUpdate")
  /\ WriteStatus(req[r].sess, "abandoned")
  /\ CASE req[r].op = "start"  -> On(r, NoSession, "insert")
       [] req[r].op = "delete" -> On(r, NoSession, "deleteUser")
       [] OTHER -> Finish(r)
  /\ UNCHANGED <<records, linked, idle, container, sweep, process>>

-----------------------------------------------------------------------------
(* checkSession.                                                           *)

CheckRead(r) ==
  /\ At(r, "read")
  /\ LET s == req[r].sess IN
       IF Row(s) /\ owner[s] = req[r].user /\ linked[s]
         THEN Goto(r, "mark")
         ELSE Finish(r)
  /\ UNCHANGED <<records, row, container, sweep, process>>

CheckMark(r) ==
  /\ At(r, "mark")
  /\ WriteStatus(req[r].sess, "checking")
  /\ Goto(r, "exec")
  /\ UNCHANGED <<records, linked, idle, container, sweep, process>>

\* runCheck: Docker refuses an exec in a container that is not running, and
\* checkSession has no catch: the row keeps the status 'checking'.
CheckExec(r) ==
  /\ At(r, "exec")
  /\ IF container[req[r].sess] = "running" THEN Goto(r, "exit") ELSE Finish(r)
  /\ UNCHANGED <<records, row, container, sweep, process>>

\* Mutant: a passed verdict is not recorded as an attempt.
CheckExitUnrecorded(r) ==
  /\ At(r, "exit")
  /\ \E passed \in BOOLEAN :
       /\ passed => container[req[r].sess] = "running"
       /\ req' = [req EXCEPT ![r].passed = passed,
                             ![r].pc = IF passed THEN "verdict" ELSE "record"]
  /\ UNCHANGED <<records, row, container, sweep, process>>

\* The stream ended and exec.inspect answered, or threw because the container
\* is gone.  A script killed with its container did not exit with code 0.
CheckExit(r) ==
  /\ At(r, "exit")
  /\ \/ \E passed \in BOOLEAN :
          /\ passed => container[req[r].sess] = "running"
          /\ req' = [req EXCEPT ![r].passed = passed, ![r].pc = "record"]
     \/ container[req[r].sess] # "running" /\ Finish(r)
  /\ UNCHANGED <<records, row, container, sweep, process>>

\* INSERT INTO check_attempts; its foreign key needs the session's row.
CheckRecord(r) ==
  /\ At(r, "record")
  /\ LET s == req[r].sess IN
       IF Row(s)
         THEN /\ credited' = [credited EXCEPT ![s] = @ \/ req[r].passed]
              /\ Goto(r, "verdict")
         ELSE Finish(r) /\ UNCHANGED credited
  /\ UNCHANGED <<accounts, owner, progress, row, container, sweep, process>>

\* Mutant: the handler gives up when the session left 'checking' meanwhile.
CheckVerdictGivesUp(r) ==
  /\ At(r, "verdict")
  /\ WriteStatus(req[r].sess, IF req[r].passed THEN "solved" ELSE "running")
  /\ IF status[req[r].sess] = "checking" THEN Goto(r, "progress") ELSE Finish(r)
  /\ UNCHANGED <<records, linked, idle, container, sweep, process>>

CheckVerdict(r) ==
  /\ At(r, "verdict")
  /\ WriteStatus(req[r].sess, IF req[r].passed THEN "solved" ELSE "running")
  /\ Goto(r, "progress")
  /\ UNCHANGED <<records, linked, idle, container, sweep, process>>

\* Mutants: the last verdict wins; a status outside the column's values.
BestStatusLast(best, passed) == IF passed THEN "solved" ELSE "unsolved"
BestStatusFailed(best, passed) == IF best = "solved" \/ passed THEN "solved" ELSE "failed"

\* upsertProgress: 'solved' is never overwritten; the foreign key needs the user.
BestStatus(best, passed) ==
  IF best = "solved" \/ passed THEN "solved" ELSE "unsolved"

CheckProgress(r) ==
  /\ At(r, "progress")
  /\ LET u == req[r].user IN
       progress' = IF u \in accounts
                     THEN [progress EXCEPT ![u] = BestStatus(@, req[r].passed)]
                     ELSE progress
  /\ Finish(r)
  /\ UNCHANGED <<accounts, owner, credited, row, container, sweep, process>>

-----------------------------------------------------------------------------
(* deleteOwnAccount, after the password was verified.                      *)

\* getActiveSessionForUser: the newest active row, started_at grows with s.
DeleteActive(r) ==
  /\ At(r, "active")
  /\ LET mine == ActiveOf(req[r].user) IN
       IF mine = {}
         THEN Goto(r, "deleteUser")
         ELSE \E s \in mine :
                /\ \A t \in mine : t <= s
                /\ On(r, s, "stopRead")
  /\ UNCHANGED <<records, row, container, sweep, process>>

\* DELETE FROM users, and ON DELETE CASCADE for the user's other rows.
DeleteUser(r) ==
  /\ At(r, "deleteUser")
  /\ LET u    == req[r].user
         gone == {s \in Sessions : Row(s) /\ owner[s] = u} IN
       /\ accounts' = accounts \ {u}
       /\ progress' = [progress EXCEPT ![u] = "none"]
       /\ status'   = [s \in Sessions |-> IF s \in gone THEN "deleted" ELSE status[s]]
       /\ credited' = [s \in Sessions |-> credited[s] /\ s \notin gone]
       /\ linked'   = [s \in Sessions |-> linked[s] /\ s \notin gone]
       /\ idle'     = [s \in Sessions |-> idle[s] /\ s \notin gone]
       /\ grace'    = [s \in Sessions |-> grace[s] /\ s \notin gone]
  /\ Finish(r)
  /\ UNCHANGED <<owner, container, sweep, process>>

\* A query of the handler fails.  Only startSession catches, and only from the
\* provisioning on; every other handler answers 500 where it stands.
QueryFails(r) ==
  /\ "query" \in Faults
  /\ req[r].pc \in {"count", "prior", "insert", "publish", "fail", "stopRead",
                    "stopUpdate", "read", "mark", "record", "verdict",
                    "progress", "active", "deleteUser"}
  /\ IF At(r, "publish") THEN Goto(r, "fail") ELSE Finish(r)
  /\ UNCHANGED <<records, row, container, sweep, process>>

-----------------------------------------------------------------------------
(* Time, and containers that stop by themselves.                           *)

\* startSession is between the INSERT of s and the end of its try block.
Provisioning(r, s) ==
  req[r].sess = s /\ req[r].pc \in {"provision", "launch", "publish", "fail"}

Age(s) ==
  /\ status[s] \in Active
  /\ ~idle[s]
  /\ SlowStart \/ ~\E r \in Requests : Provisioning(r, s)
  /\ idle' = [idle EXCEPT ![s] = TRUE]
  /\ UNCHANGED <<records, status, linked, grace, container, req, sweep, process>>

GraceOver(s) ==
  /\ status[s] = "solved"
  /\ ~grace[s]
  /\ grace' = [grace EXCEPT ![s] = TRUE]
  /\ UNCHANGED <<records, status, linked, idle, container, req, sweep, process>>

ContainerExit(s) ==
  /\ "exit" \in Faults
  /\ container[s] = "running"
  /\ container' = [container EXCEPT ![s] = "stopped"]
  /\ UNCHANGED <<records, row, req, sweep, process>>

-----------------------------------------------------------------------------
(* Sweeps: reapIdleSessions, started by a timer whether or not the last    *)
(* run has ended, and drainAllActiveSessions.  Each works through a        *)
(* snapshot of rows (held: those whose container_id was not NULL) with one *)
(* destroy and one UPDATE per row.                                         *)

Sweeps == Reapers \cup {Drainer}

\* The SELECT: p now sweeps the rows S.
Select(p, job, S) ==
  sweep' = [sweep EXCEPT ![p] = [job  |-> job, rows |-> S,
                                 held |-> {s \in S : linked[s]},
                                 cur  |-> NoSession]]

\* Mutant: the reaper, like the drain, skips rows without a container.
ReapTickLinked(p) ==
  /\ phase = "up"
  /\ sweep[p].job = "none"
  /\ Select(p, "expire", {s \in ActiveSet : idle[s] /\ linked[s]})
  /\ UNCHANGED <<records, row, container, req, process>>

ReapTick(p) ==
  /\ phase = "up"
  /\ sweep[p].job = "none"
  /\ Select(p, "expire", {s \in ActiveSet : idle[s]})
  /\ UNCHANGED <<records, row, container, req, process>>

Swept(p) == sweep[p].rows = {} /\ sweep[p].cur = NoSession

\* Mutant: the grace period is measured from last_activity_at.
ReapSolvedByActivity(p) ==
  /\ sweep[p].job = "expire" /\ Swept(p)
  /\ Select(p, "clear", {s \in Sessions : status[s] = "solved" /\ linked[s] /\ idle[s]})
  /\ UNCHANGED <<records, row, container, req, process>>

ReapSolved(p) ==
  /\ sweep[p].job = "expire" /\ Swept(p)
  /\ Select(p, "clear", {s \in Sessions : status[s] = "solved" /\ linked[s] /\ grace[s]})
  /\ UNCHANGED <<records, row, container, req, process>>

ReapDone(p) ==
  /\ sweep[p].job = "clear" /\ Swept(p)
  /\ sweep' = [sweep EXCEPT ![p] = NoSweep]
  /\ UNCHANGED <<records, row, container, req, process>>

\* destroyContainer(...).catch(() => {}) for the next row.
SweepDestroy(p) ==
  /\ sweep[p].cur = NoSession
  /\ \E s \in sweep[p].rows :
       /\ IF s \in sweep[p].held THEN Remove(s) \/ RemoveRefused(s)
                                 ELSE UNCHANGED container
       /\ sweep' = [sweep EXCEPT ![p].rows = @ \ {s}, ![p].cur = s]
  /\ UNCHANGED <<records, row, req, process>>

SweepUpdate(p) ==
  /\ sweep[p].cur # NoSession
  /\ LET s == sweep[p].cur IN
       CASE sweep[p].job = "expire"  -> WriteStatus(s, "expired") /\ UNCHANGED linked
         [] sweep[p].job = "abandon" -> WriteStatus(s, "abandoned") /\ UNCHANGED linked
         [] OTHER -> /\ linked' = [linked EXCEPT ![s] = FALSE]
                     /\ UNCHANGED <<status, grace>>
  /\ sweep' = [sweep EXCEPT ![p].cur = NoSession]
  /\ UNCHANGED <<records, idle, container, req, process>>

\* The rejection ends the run; the next tick starts another.
SweepQueryFails(p) ==
  /\ "query" \in Faults
  /\ p \in Reapers /\ sweep[p].job # "none"
  /\ sweep' = [sweep EXCEPT ![p] = NoSweep]
  /\ UNCHANGED <<records, row, container, req, process>>

-----------------------------------------------------------------------------
(* The process: shutdown, crash, bootstrap.                                *)

\* The server stops accepting and the timer is cleared; handlers and reaper
\* runs under way continue while the drain sweeps.
Sigterm ==
  /\ "term" \in Faults
  /\ phase = "up"
  /\ phase' = "draining"
  /\ Select(Drainer, "abandon", {s \in ActiveSet : linked[s]})
  /\ UNCHANGED <<records, row, container, req, todo>>

ProcessEnds ==
  /\ phase' = "down"
  /\ todo'  = {}
  /\ req'   = [r \in Requests |-> NoReq]
  /\ sweep' = [p \in Sweeps |-> NoSweep]
  /\ UNCHANGED <<records, row, container>>

\* Mutant: the shutdown waits until no session is active.
DrainExitWaits == phase = "draining" /\ Swept(Drainer) /\ ActiveSet = {} /\ ProcessEnds

\* drainAllActiveSessions returned, pool.end(), process.exit(0).
DrainExit == phase = "draining" /\ Swept(Drainer) /\ ProcessEnds

\* SIGKILL, an unhandled error, or the shutdown's 20 s deadline.
Crash == "crash" \in Faults /\ phase # "down" /\ ProcessEnds

\* Mutant: docker ps without -a.
BootListRunning ==
  /\ phase = "down"
  /\ phase' = "reconcile"
  /\ todo'  = {s \in Sessions : container[s] = "running" /\ ~(status[s] \in Active /\ linked[s])}
  /\ UNCHANGED <<records, row, container, req, sweep>>

\* listActiveContainerIds, then reconcileOrphans' list of labelled containers.
BootList ==
  /\ phase = "down"
  /\ phase' = "reconcile"
  /\ todo'  = {s \in Sessions : Exists(s) /\ ~(status[s] \in Active /\ linked[s])}
  /\ UNCHANGED <<records, row, container, req, sweep>>

\* One orphan; a failed removal is logged and the loop goes on.
BootRemove(s) ==
  /\ phase = "reconcile"
  /\ s \in todo
  /\ Remove(s) \/ RemoveRefused(s)
  /\ todo' = todo \ {s}
  /\ UNCHANGED <<records, row, req, sweep, phase>>

\* Mutant: only sessions marked 'running' are looked at.
BootScanRunning ==
  /\ phase = "reconcile" /\ todo = {}
  /\ phase' = "mark"
  /\ todo'  = {s \in Sessions : status[s] = "running" /\ linked[s] /\ ~Exists(s)}
  /\ UNCHANGED <<records, row, container, req, sweep>>

\* listLabeledContainerIds, then the SELECT of markOrphanedSessionsError.
BootScan ==
  /\ phase = "reconcile" /\ todo = {}
  /\ phase' = "mark"
  /\ todo'  = {s \in ActiveSet : linked[s] /\ ~Exists(s)}
  /\ UNCHANGED <<records, row, container, req, sweep>>

BootMark(s) ==
  /\ phase = "mark"
  /\ s \in todo
  /\ WriteStatus(s, "error")
  /\ todo' = todo \ {s}
  /\ UNCHANGED <<records, linked, idle, container, req, sweep, phase>>

Booted == phase = "mark" /\ todo = {}

BootListen ==
  /\ Booted
  /\ phase' = "up"
  /\ UNCHANGED <<records, row, container, req, sweep, todo>>

-----------------------------------------------------------------------------
Init ==
  /\ accounts  = Users
  /\ status    = [s \in Sessions |-> "none"]
  /\ owner     = [s \in Sessions |-> NoUser]
  /\ linked    = [s \in Sessions |-> FALSE]
  /\ idle      = [s \in Sessions |-> FALSE]
  /\ grace     = [s \in Sessions |-> FALSE]
  /\ credited  = [s \in Sessions |-> FALSE]
  /\ progress  = [u \in Users |-> "none"]
  /\ container = [s \in Sessions |-> "none"]
  /\ req       = [r \in Requests |-> NoReq]
  /\ sweep     = [p \in Sweeps |-> NoSweep]
  /\ phase     = "down"
  /\ todo      = {}

ClientRequest(r) ==
  \E u \in accounts :
    \/ StartRequest(r, u)
    \/ DeleteRequest(r, u)
    \/ \E s \in Sessions \ Unused : StopRequest(r, u, s) \/ CheckRequest(r, u, s)

StartStep(r) ==
  \/ StartCount(r) \/ StartPrior(r) \/ StartInsert(r)
  \/ Provision(r) \/ Launch(r) \/ ProvisionFails(r) \/ StartPublish(r) \/ StartFail(r)
StopStep(r)  == StopRead(r) \/ StopDestroy(r) \/ StopUpdate(r)
CheckStep(r) ==
  \/ CheckRead(r) \/ CheckMark(r) \/ CheckExec(r) \/ CheckExit(r)
  \/ CheckRecord(r) \/ CheckVerdict(r) \/ CheckProgress(r)
DeleteStep(r) == DeleteActive(r) \/ DeleteUser(r)

\* The handler's next step once it was accepted.
Handle(r) == StartStep(r) \/ StopStep(r) \/ CheckStep(r) \/ DeleteStep(r) \/ QueryFails(r)

SweepStep(p) == SweepDestroy(p) \/ SweepUpdate(p) \/ SweepQueryFails(p)
Reap(p)      == ReapTick(p) \/ ReapSolved(p) \/ ReapDone(p)

Boot == \/ BootList \/ BootScan \/ BootListen
        \/ \E s \in Sessions : BootRemove(s) \/ BootMark(s)

Passage(s) == Age(s) \/ GraceOver(s) \/ ContainerExit(s)

Next ==
  \/ \E r \in Requests : ClientRequest(r) \/ Handle(r)
  \/ \E u \in accounts, s \in Sessions : Heartbeat(u, s)
  \/ \E s \in Sessions : Passage(s)
  \/ \E p \in Reapers : Reap(p)
  \/ \E p \in Sweeps : SweepStep(p)
  \/ Boot \/ Sigterm \/ DrainExit \/ Crash

Spec == Init /\ [][Next]_vars

\* The event loop and the timer run every handler, sweep and boot step that
\* can run; nobody promises that a client sends a request or that time ages a
\* session, and the process is never obliged to crash or to be stopped.
Fairness ==
  /\ \A r \in Requests : WF_vars(Handle(r))
  /\ \A p \in Reapers : WF_vars(Reap(p))
  /\ \A p \in Sweeps : WF_vars(SweepStep(p))
  /\ WF_vars(Boot)
  /\ WF_vars(DrainExit)

FairSpec == Spec /\ Fairness

-----------------------------------------------------------------------------
(* Properties.                                                             *)

Pcs == {"idle", "count", "prior", "insert", "provision", "launch", "publish",
        "fail", "stopRead", "stopDestroy", "stopUpdate", "read", "mark", "exec",
        "exit", "record", "verdict", "progress", "active", "deleteUser"}

Handlers == [op : Ops \cup {"none"}, pc : Pcs, user : Users \cup {NoUser},
             sess : Sessions \cup {NoSession}, passed : BOOLEAN]
SweepRuns == [job : {"none", "expire", "clear", "abandon"}, rows : SUBSET Sessions,
              held : SUBSET Sessions, cur : Sessions \cup {NoSession}]

\* The type invariant.
TypeOK ==
  /\ accounts \subseteq Users
  /\ status \in [Sessions -> Statuses \cup {"none", "deleted"}]
  /\ owner \in [Sessions -> Users \cup {NoUser}]
  /\ linked \in [Sessions -> BOOLEAN]
  /\ idle \in [Sessions -> BOOLEAN]
  /\ grace \in [Sessions -> BOOLEAN]
  /\ credited \in [Sessions -> BOOLEAN]
  /\ progress \in [Users -> {"none", "unsolved", "solved"}]
  /\ container \in [Sessions -> {"none", "stopped", "running", "removed"}]
  /\ req \in [Requests -> Handlers]
  /\ sweep \in [Sweeps -> SweepRuns]
  /\ phase \in {"down", "reconcile", "mark", "up", "draining"}
  /\ todo \subseteq Sessions

\* "Each user may have at most one active (starting/running/checking) session"
\* (decisions/0003): startSession stops the prior session before it inserts.
OneActivePerUser ==
  \A s, t \in ActiveSet : owner[s] = owner[t] => s = t

\* The count in startSession keeps the active sessions within
\* MAX_CONCURRENT_SESSIONS.
CapRespected == Cardinality(ActiveSet) <= MaxConcurrentSessions

\* A row through which a later stop, reap or drain will find the container.
Tracked(s) == linked[s] /\ status[s] \in Active \cup {"solved"}

\* While the backend serves, every container is reachable from its row or
\* still in the hands of the startSession that creates it, whatever crashes,
\* shutdowns and restarts came before.
NoOrphanContainer ==
  phase = "up" =>
    \A s \in Sessions :
      Exists(s) => Tracked(s) \/ \E r \in Requests : Provisioning(r, s)

\* reconcileOrphans has removed every container without an active row when the
\* server starts to listen ("orphaned challenge containers are self-healing").
OrphansRemoved ==
  Booted => \A s \in Sessions : Exists(s) => status[s] \in Active /\ linked[s]

\* markOrphanedSessionsError leaves no active row pointing at a container that
\* does not exist.
StaleMarked ==
  Booted => \A s \in ActiveSet : linked[s] => Exists(s)

\* A verdict is never invented: a solved session and a solved progress row have
\* a passed check_attempts row behind them, however handlers, reaper and
\* crashes interleave.
SolvedBacked ==
  /\ \A s \in Sessions : status[s] = "solved" => credited[s]
  /\ \A u \in Users :
       progress[u] = "solved" => \E s \in Sessions : owner[s] = u /\ credited[s]

\* A verdict is never lost: once a passed attempt is recorded, the user's
\* progress says solved, or a checkSession still has to say so.
CreditGranted ==
  \A s \in Sessions :
    credited[s] =>
      \/ progress[owner[s]] = "solved"
      \/ \E r \in Requests : /\ req[r].sess = s /\ req[r].passed
                            /\ req[r].pc \in {"verdict", "progress"}

\* upsertProgress never takes a solved challenge back while the account exists.
ProgressSticky ==
  [][\A u \in accounts' : progress[u] = "solved" => progress'[u] = "solved"]_vars

\* A failed query ends a handler or a reaper run before its end.
CutShort ==
  \/ \E r \in Requests :
       QueryFails(r) /\ ~(StartStep(r) \/ StopStep(r) \/ CheckStep(r) \/ DeleteStep(r))
  \/ \E p \in Reapers : SweepQueryFails(p) /\ ~ReapDone(p)

\* From some moment on the backend stays up and no query fails.
StaysUp == <>[](phase = "up") /\ <>[][~CutShort]_vars

\* Unless the backend keeps restarting, an idle session is expired or the client
\* shows activity first, and a reaper run always gets to it.
IdleReaped ==
  StaysUp => \A s \in Sessions :
    (status[s] \in Active /\ idle[s]) ~> ~(status[s] \in Active /\ idle[s])

\* Likewise the container of a solved session does not outlive its grace period,
\* unless a further check un-solves the session.
SolvedReaped ==
  StaysUp => \A s \in Sessions :
    (status[s] = "solved" /\ grace[s] /\ Exists(s)) ~> ~(status[s] = "solved" /\ Exists(s))

\* "Orphaned challenge containers are self-healing across crashes and restarts"
\* (README): a container no row leads to is removed, if the backend restarts.
RestartsHeal ==
  []<>Booted => \A s \in Sessions : (Exists(s) /\ ~Tracked(s)) ~> (~Exists(s) \/ Tracked(s))

\* A shutdown that was asked for ends, whatever the handlers in flight do.
DrainEnds == phase = "draining" ~> phase = "down"
=============================================================================
