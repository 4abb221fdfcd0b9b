# A verification model of linux-incident-trainer

TLA+ modules, TLC runs and TLAPS proofs for the program in this repository: a
web application that starts one disposable Linux container per challenge, lets
the user repair it through a browser terminal, runs a check script in it and
records the verdict.

Paths below are relative to the repository root.  `backend/` is one Node.js
process (Express, `pg`, `dockerode`, `ws`); `frontend/` is a React application.
Everything in one Node process runs to the next `await` without being
interrupted, so every module takes one action per awaited database query or
Docker call, and everything the program does between two awaits belongs to one
action.

## 1. The system's parts

| Part | Source | State it keeps | Operations |
|---|---|---|---|
| Session lifecycle | `backend/src/services/session.service.ts` | table `sessions` (status, container_id, last_activity_at, solved_at) | start, stop, heartbeat, check, reap, drain, mark stale rows |
| Containers | `backend/src/services/docker.service.ts` (159-361) | Docker's containers and the label they carry | create, start, exec, destroy, reconcile |
| Process | `backend/src/index.ts`, `jobs/idleReaper.ts` | the phase of the process, the reaper's timer | bootstrap, SIGTERM drain, tick |
| Terminal registry | `docker.service.ts` (35-152), `ws/terminalSocket.ts` | map container -> shell stream, sockets, grace and back-pressure timers | attach, release, end, bridge, ping sweep |
| Accounts and tokens | `services/auth.service.ts` | `users`, `password_reset_tokens`, JWTs in the clients' hands | sign up, log in, verify, change and reset a password, delete |
| Rate limiter | `middleware/rateLimit.ts` | buckets (count, resetAt) per key | request, sweep |
| Progress and hints | `session.service.ts` (131-191), `routes/progress.routes.ts` | `progress`, `check_attempts`, `sessions.hints_used` | upsert, reveal a hint, two statistics queries |
| Challenge catalogue | `services/challenge.service.ts`, `db/migrate.ts`, the first half of `index.ts` | `challenges`, `hints`, `categories`, `schema_migrations` | wait for the database, migrate, seed, sync from disk |
| Pages that count | `routes/categories.routes.ts`, `publicStats.routes.ts`, `progress.routes.ts`, the list, dashboard and progress pages, `ChallengeDetailPage.tsx` (139-194) | none, but two snapshots of the progress behind a banner | list, filter, recommend, count, celebrate |
| Challenge page | `frontend/src/pages/ChallengeDetailPage.tsx`, `components/TerminalPane.tsx` | React state and refs: session, connection, retry budget, busy flags | start, stop, resume, reconnect, slug change |
| Frontend accounts and help | `frontend/src/context/AuthContext.tsx`, `App.tsx`, the login, password, profile and help pages, `routes/help.routes.ts` | the token in localStorage, the user, the query cache, table `help_requests` | load, log in and out, submit a form, list help requests |

The rest (mail, logging, the public pages and styling, the content of the 101
challenges, Compose and Caddy files) keeps no state of its own or only formats
data.

### How they interact

The routes call the services; the services write PostgreSQL and Docker, which
no transaction joins, so every operation is a sequence of independent steps.
`startSession` calls `stopSession`; `deleteOwnAccount` calls it too; the reaper
and the drain walk through snapshots of rows while handlers change them;
`checkSession` runs a script inside the container that all of those may remove.
The terminal bridge reads the session's status, asks Docker and then opens a
shell that other bridges share.  A crash loses handlers, sweeps, buckets and
shells, and keeps rows and containers; the boot reconciles the two.  Before that
it brings the database to the release it was built from, in steps a crash can
separate.

The browser keeps what it learned: a session id and its ticket, the answer to a
query, a token.  Its answers arrive when the user is elsewhere, and whether a
callback still runs then depends on where it was passed: react-query calls the
callbacks given to `mutate` only while the component is mounted and only for the
latest call, and those given to the hook always.  Other tabs of the same browser
share the token and nothing else.

### What is hard, and what makes each part correct

- **Session lifecycle and containers.**  Hard: two handlers of one user, or a
  handler and the reaper, between each other's awaits; a container created
  before its row knows it; failures after half of an operation.  Correct: one
  active session per user, the cap on active sessions, no container that no row
  leads to while the backend serves, verdicts neither invented nor lost nor taken
  back, idle sessions and solved containers reaped.
- **Boot and shutdown.**  Hard: a crash anywhere, the drain racing handlers that
  are still running.  Correct: after a boot no container is without its active
  row and no row with a container id points nowhere; containers lost by a crash
  are removed if the backend restarts; a shutdown ends.
- **Terminal registry.**  Hard: events of sockets, streams and timers in any
  order around two awaits; peers that vanish; back-pressure shared by all
  clients of a shell.  Correct: one shell per container that every reconnect
  finds, ended when abandoned, never silenced by one slow client, closed when the
  container goes.
- **Accounts and tokens.**  Hard: handlers that verified a password several bcrypt
  calls ago; one link used twice; times in seconds beside times in microseconds;
  `now()` standing still in a transaction.  Correct: a link sets one password, a
  change refuses the tokens before it and accepts those after it.
- **Rate limiter.**  Hard: window boundaries, the sweeper between them.  Correct:
  the budget of a window, refusals that end, a Map that does not grow.
- **Progress and hints.**  Hard: two reveals or two verdicts at a time, a crash
  between the attempt and the credit, a deployment between two hints.  Correct:
  solved stays solved, a session is charged for hints that exist, a celebration is
  earned.
- **Catalogue.**  Hard: a crash anywhere within a sync or a migration, another
  release deployed before the next boot.  Correct: what is served is the deployed
  release; no migration runs twice or out of order; five queries that count
  challenges agree.
- **Challenge page.**  Hard: answers that arrive after a navigation, retries on
  timers beside manual retries, sockets whose late events meet their successors,
  busy flags on failed calls.  Correct: what is shown belongs to the challenge of
  the page (it does not always, section 6), a drop is retried or given up, retries
  stop, a stopped session is not resumed.
- **Frontend accounts and help.**  Hard: answers to forms that were left, another
  tab that logs out or in, a reload that forgets requests the server still gets.
  Correct: the account on display is the one requests are made for; an older list
  does not land over a newer one.

## 2. Plan

In this order, the most important behaviour first.  Done:

1. `SessionService`, with containers, boot and shutdown, since every other part and
   the verdicts depend on it; proofs in `SessionServiceProofs`.
2. `Terminal`, what a terminal promises, and `TerminalRegistry`, which implements it
   unless two of its races happen; `TerminalRegistryProofs`.
3. `RateLimit` and `Accounts` with `RateLimitProofs` and `AccountsProofs`.
4. `ChallengePage`, composed with what it can observe of a backend that answers
   late, fails or refuses.
5. `Release`, what deploying promises, and `Catalogue`, the boot step by step, which
   implements it.
6. `Learning`, which composes `Catalogue` with a learner: sessions and hints, checks
   and progress, the pages that count and the banner; `LearningProofs` for both.
7. `Browser`: identity, forms and help requests of one tab.
8. `Sums`, what the proofs need to know of sums over finite sets, and with it the
   window budget and the pages' counts; the cap, one active session per user, no
   orphaned container and the credit of verdicts, each under the conditions that
   the code needs and does not enforce.

Left:

9. The solution and explanation panels of the challenge page.

## 3. The modules and the code

Constants that are bounds say so where they are declared; the rest are the
program's settings or the choice of an environment.  Definitions marked `Mutant`
are wrong variants of the definition below them, named in `PROJECT.json`; no
specification uses them.

**`SessionService`** has one action per awaited step of each operation.
`StartCount`, `StartPrior`, `StartInsert`, `Provision`, `Launch`, `StartPublish`
and `StartFail` are the statements of `startSession` in order; `StopRead`,
`StopDestroy`, `StopUpdate` are `stopSession`, whether a client or another handler
called it; `CheckRead` to `CheckProgress` are `checkSession`, `runCheck` and
`upsertProgress`; `DeleteActive` and `DeleteUser` are `deleteOwnAccount` around the
stop it calls; `ReapTick`, `ReapSolved`, `SweepDestroy` and `SweepUpdate` walk the
reaper's and the drain's snapshots; `BootList`, `BootRemove`, `BootScan` and
`BootMark` are the boot's reconciliation.  A row is spread over the variables
`status`, `owner`, `linked` (it has a `container_id`), `idle` and `grace` (what the
two time conditions of the reaper's queries say); `container` is Docker's side;
`req` and `sweep` hold what handlers and sweeps read earlier, so that stale reads
are stale in the model.  Docker's reasons to fail, process exits and query
failures are in the constant `Faults`.

**`Terminal`** is abstract: a bash that runs, who types into it, and whether the
session is over.  Whoever comes joins the shell that runs; the backend ends it only
under nobody's hands or with the session.

**`TerminalRegistry`** follows one container.  `registry` is its entry in
`execRegistry`; `proc`, `sockets`, `timer` and `paused` are the fields of each
`TerminalSession` ever made, also of those the Map has forgotten, because
listeners still hold them; `conn`, `pc`, `term` follow each WebSocket and its
`bridge`; `peer` and `behind` are the client's side.  `Races` names the event
orders a run admits.  `T == INSTANCE Terminal WITH ...` takes a shell nobody ended for
one that runs and a socket that is open, with listeners on it, for a user.

**`RateLimit`** is the closure `rateLimit` returns.  `buckets` is its Map,
`sweepAt` the interval's next firing, `granted` a history of the requests let
through.  A key stands for a limiter with one of its keys.

**`Accounts`** follows one account: its row, its reset links, the tokens handed
out and the handlers in flight, with `asked` and `uses` as history.  Two ticks of
the clock make a second, the unit of a token's `iat`.  A transaction's writes
appear at COMMIT and carry the time of BEGIN, as PostgreSQL's `now()` does;
`FOR UPDATE` is a lock that waits.  The session teardown inside
`deleteOwnAccount` is `SessionService`'s.

**`Release`** is abstract: a release is deployed, its migrations run, a catalogue is
published and withdrawn.  Nothing in it is a step of the program.

**`Catalogue`** is `waitForDatabase`, `runMigrations`, `seedCategories` and
`syncChallengesFromDisk`, an action per query, on the tables `schema`
(`schema_migrations`), `categories`, `rows` (`challenges`) and `hints`.  `BootFails`
and `ProcessEnds` end the process between any two of them, and `Deploy` installs any
release, newer or older, while it is down.  `R == INSTANCE Release WITH ...` maps
the tables to the published catalogue, and `ReleaseServed` is `R!Spec`.

**`Learning`** EXTENDS `Catalogue`.  `Boot` is any of its steps and drops the requests
in flight when the process dies; the other actions are requests, one per awaited
query: `RevealReads` and `RevealWrites` are `revealNextHint`, `CheckRuns` stands
for the check and `upsertProgress` (`SessionService` has their steps),
`FetchTotals` and `FetchBreakdown` are the two queries of `GET /api/progress`,
`AskCheck`, `CheckAnswered`, `FetchFails` and `Dismiss` are the page's side.
`Listing`, `Totals`, `Breakdown`, `PublicStats`, `Detail` are the read-only
endpoints and `Filtered`, `Recommended`, `CategoriesComplete` what pages derive
from them.  `RevealReads` may come at any time and not only from the button, as
other tabs have buttons too.  `KnownAssumption` says of the fixed list of categories
(`challenge.service.ts:6`) that it is finite and that "all", the filter's own word, is
not among them.  Two other named assumptions are about releases: hints are numbered from 1 without a gap (`HintsAssumption`; every
`hints.json` of this commit is), and no challenge moves to another category
(`CategoriesAssumption`; one commit cannot show it).  The second matters:
`detectCelebration` (`ChallengeDetailPage.tsx:188`) does not ask whether the category
still has a challenge, and the page asks about the category it cached, so a
release that empties a category could have it celebrated.

**`ChallengePage`** has an action per event the browser delivers; the effects React
runs after it are the functions `Resumed` (the effect that resumes) and `Repaned`
(the one that opens and closes sockets), applied to the state the event leads
to.  `page` is the component's state and refs, `row`, `start` and `stop` what the
backend does, `EndsElsewhere` and `StartsElsewhere` other tabs and the reaper.
`Continued` is the visit from the dashboard, whose cache already holds the session.

**`Browser`** follows one tab: `token` is localStorage, `user` and `me` AuthContext's
user and the bearer of a `GET /me` under way, `req` the requests of forms with
where their form is (mounted, left, or gone with a reload), `list` and `cache`
the query for help requests.  `Show` renders a route: redirects, unmounting,
queries that mount.  Whether cached data is fresh at that moment is a free
choice.  Two limits: a learner who leaves the login form does not submit
another one before the first answer (`SubmitCredentials`), and `crossed` marks the
time from another tab's write until this tab's own next one.

## 4. The runs

| Run | Instance | Shows |
|---|---|---|
| `SessionService_serial` | 3 users, 3 rows, cap 2, one request at a time, crashes | `OneActivePerUser`, `CapRespected`, `NoOrphanContainer`, `OrphansRemoved` |
| `SessionService_concurrent` | 1 row, two handlers of any kind, two overlapping reaper runs, exiting containers | `SolvedBacked`, `CreditGranted`, `ProgressSticky` |
| `SessionService_liveness` | 1 row, one handler, crashes, failed starts and queries, shutdowns, fairness | `TypeOK`, `StaleMarked`, `IdleReaped`, `SolvedReaped`, `DrainEnds`, `RestartsHeal` |
| `TerminalRegistry_orderly` | 2 sockets, 2 shells; clients vanish, fall behind, return; fairness | `OneShell`, `ShellKept`, `AbandonedShellEnds`, `StreamResumes`, `TerminalsClosed` |
| `TerminalRegistry_races` | the same, every event order, shutdown | `TypeOK`, `GraceArmed` |
| `RateLimit_window` | 2 keys, window 3, at most 2 requests, 7 ticks | `TypeOK`, `WindowBudget`, `BucketsPruned`, `RefusedOnlyWhenUsed` |
| `Accounts_routes` | 2 handlers, 1 link, 2 changes, 4 ticks (two whole seconds) | `TypeOK`, `ResetOnce`, `LocksHeldByResets`, `OldTokensRejected`, `NewTokensAccepted` |
| `ChallengePage_page` | 2 challenges, 2 rows, 1 retry, 1 overwritten timer, 1 socket closing; fairness | `TypeOK`, `DropsAreHandled`, `StoppedNotResumed`, `ResumeSettles`, `RetriesStop` |
| `Learning_curriculum` | 3 releases of 2 challenges and 2 migrations, 2 sessions, 2 reveals, 1 tab, 2 boots | `ReleaseServed`, `ViewsAgree`, `ChargedExist`, `CelebrationEarned` |
| `Browser_tab` | 2 accounts, 2 requests of any form | `IdentityMatches`, `SubmissionListed` |

and two that find a disagreement (section 6).

*Why the bounds are enough.*  The cap of two with three users and three rows
meets "at the limit" and "over it", and a user whose old row is torn down while a
new one is inserted.  Properties of verdicts concern one session, so one row with
two handlers and two reaper runs has every pair of interfering writers; a third
handler repeats one of the two.  Two sockets and two shells are needed for a
shell that is replaced while a client is attached to the old one; `Free` lets a
shell's identifier be used again, so behaviours are not bounded in length; the grace
timer of the old shell may still be running when the new one starts.  A
window of three ticks has an inside and two boundaries, and seven ticks hold two
windows and their straddle.  Two password changes are needed for a change that
overwrites another; four ticks have a token issued before, in, and after the
second of a change.  The page compares two challenges with two rows, of which the
second ends the first; one retry is the last one and the one before giving up;
`MaxStray` and `MaxClosing` bound how many timers and close events of the past are
pending, one of each is enough to meet its successor.  The three releases differ
by a migration that sorts first, by a hint, by a challenge and by a category
nobody seeded, and are deployed in any order, so that a boot finds tables ahead of
the release as well as behind it; two boots are one that is cut off and one after it.
Two requests of one tab are every pair of forms whose answers cross.

*Symmetry* is used in the safety runs over users, handlers, reaper runs, sockets,
shells, reveals, accounts and requests of forms, which the definitions never compare but for equality, and never with
a liveness property.

*Deadlock* is checked, except in `TerminalRegistry_races` (after a shutdown with
the container gone nothing has to happen), in `Accounts_routes`, whose clock stops
at its bound, and in `Learning_curriculum`, where the process may stay down after
its last start.  (In `RateLimit_window` a restart is always possible.)

*What a run cannot say.*  `OneActivePerUser`, `CapRespected` and
`NoOrphanContainer` are checked for one request at a time: with two they do not
hold (hazards `session.service.ts:48`, `:58`, `:77`), because nothing in the code
or the schema makes the check and the insert one step.  Section 5 proves them for
any number of handlers under the conditions whose absence breaks them.
`CreditGranted` is checked, and proved, without crashes, shutdowns and failed
queries: each of them, between the recorded attempt and `upsertProgress`, loses the
credit.  `OneShell` and the properties beside it
leave out the races `overlap`, `lateEnd`, `earlyClose` (section 6 has the first).
A socket that closes while its bridge awaits (`earlyClose`) has no close listener
yet, is attached all the same and is never released, so that its shell lives
until the container goes.  `DropsAreHandled` counts an attempt that came to its end
as handled, even where the code says nothing to the user.  `CelebrationEarned`
asks that a banner be true, not that every solve has one: a refetch that fails
resolves with old data and the banner is lost.  `IdentityMatches` and
`SubmissionListed` end where another tab has written the token (`crossed`): this tab
learns of it with its next load, until then it shows one account and sends the
token of another.

### Fairness

`SessionService`: weak fairness of every handler that was accepted, every sweep,
the reaper's timer, the boot and the end of the drain: Node's event loop and
`setInterval` run what is ready, PostgreSQL and Docker answer or fail.  No fairness
of clients, of time (`Age`, the grace period), of crashes or of SIGTERM.
`IdleReaped` and `SolvedReaped` assume that the backend stays up from some moment
on, `RestartsHeal` that it boots again and again (no restart policy is
configured: somebody restarts it); each states its assumption as the premise of an
implication.  `TerminalRegistry`: weak fairness of bridges, close
events, stream ends, timers and the ping sweep; a client that is present reads
what it is sent, since one that does not read does not answer pings either and
counts as vanished; a shell exits once its stream was ended or its container is
not running.  `ChallengePage`: weak fairness of due timers and of the answer to a
ticket request, granted or failed, since the browser runs timers and the client's
requests end; none of the user, the socket or other tabs.  `RetriesStop` excludes
by its first disjunct the pages whose sockets open again and again: the handshake
asks only for a ticket and every open resets the budget, so a container that is
dead behind a valid ticket is retried without end; the budget of
decisions/0028:58-63 is one of attempts that do not open.

## 5. The proofs

The theorems hold for every value of the constants that satisfies the named
assumptions of the modules.  All leaves are checked; nothing is assumed beyond
those assumptions and the hypotheses a theorem states.

| Module | Theorem | Beyond the module's assumptions | Argument |
|---|---|---|---|
| `SessionServiceProofs` | `TypeCorrect` | | one step per action |
| | `StaleMarkedAlways` | | `MarkListed`: during the marking phase every active row whose container is missing is on the work list; `Quiet`: no handler or sweep runs while the process boots, so nothing gets off it or comes to be |
| | `OrphansRemovedAlways` | `"remove"` not in `Faults` | `OrphansListed`, likewise for containers without an active row |
| | `SolvedBackedAlways` | | `Recorded`: the foreign keys of `sessions` and `check_attempts`, and `HandlerOK`: a handler that still carries a passed verdict has recorded the attempt, for a session of its user |
| | `ProgressStickyAlways` | | an action property: only `CheckProgress` writes the row, and `BestStatus` keeps solved |
| | `CreditGrantedAlways` | `"crash"`, `"query"`, `"term"` not in `Faults` | `Owing`: for every passed attempt progress says solved, or a handler that still has to say so carries the verdict (`Granting`), and nothing takes the handler off its way |
| | `OneActivePerUserAlways` | `OneStartEach` and `ChecksLive` at all times | `Alone`: after the stop of the prior session, and until the start is over, the user has no active session but the one being started (`Cleared`) |
| | `CapRespectedAlways` | `OneStart` and `ChecksLive` at all times | the next one, for K = 1 |
| | `CapOvershoot`: at most K - 1 sessions over the cap | `AtMost(K)` and `ChecksLive` at all times | `Within(K)`: the sessions active or in the hands of a start (`Taken`) and the starts that have still to insert theirs (`Entering`) are at most the cap and K - 1 together |
| | `NoOrphanContainerAlways` | `"start"`, `"remove"`, `"query"` not in `Faults`, `"delete"` not in `Ops`, not `SlowStart`; `StopsSettled` at all times | `Launching`: who provisions a container is the one start that inserted its row; `Kept`: whoever is about to end a session found it linked, or without a container (`Settled`, `Gone`) |
| | `SerialSafe`, `SerialInSight` | one request at a time (`Serial`), no checks, and the faults above for the second | the conditions hold by themselves: the theorems above, without them |
| `TerminalRegistryProofs` | `TypeCorrect` | | one step per action |
| | `GraceArmedAlways` | | `Registered`: `releaseSocket` arms no timer over one that has fired, and a stream ended while paused drops its sockets; neither happens to the registered shell |
| | `OneShellAlways`, `AttachedIsRegisteredAlways` | `"overlap"`, `"lateEnd"` not in `Races` | `Exclusive`: a running shell is the registered one, other shells have reported their end, and a bridge that waits for `docker exec` is alone and finds no entry; `Bridged`: a socket with listeners holds a shell |
| | `ShellKeptAlways` | the same | a refinement: each step maps to a step of `Terminal` or a stutter, from `Exclusive` and `Seated` (who types into a running shell is among its sockets, which is what the grace timer looks at, also the timer of an earlier shell) |
| `RateLimitProofs` | `TypeCorrect` | | a refused request stops the counting at `MaxRequests + 1` (the bound of `CountRequest`) |
| | `PrunedAlways` | | `Sweeping`: the next sweep is never overdue, and comes before any bucket is a whole window old |
| | `WindowBudgetAlways`, `RefusedOnlyWhenUsedAlways` | | `WithinBudget`: what was granted in a bucket's window is what it counts, the window before it was granted at most the maximum, and a key without a bucket at most the maximum in the last `WindowMs` |
| `AccountsProofs` | `TypeCorrect` | finitely many handlers | `Room`: every handler that may still set a password has room below the bound |
| | `ResetOnceAlways`, `LocksHeldAlways` | | `LinkInv`: a handler about to commit holds its link's lock and the link is unused, so a second one cannot have passed its SELECT; a used link was sent and is never handed out again |
| | `NewTokensAlways`, `OldTokensAlways` | | `TokenInv`: requests arrive before their transaction begins, which begins before it stamps, which is not after now; tokens of the current password were signed after that password was stamped; seconds keep the order of ticks (`SecondMonotone`) |
| `LearningProofs` | `ReleaseServedAlways` | | a refinement: `BootSpec` implements `Release`; each step maps to a step of `Release` or a stutter, from `BootInv` (`Migrating`: every file of the image is committed or still to do, the open one first; `Seeding`; `Syncing`: a listed challenge is in the tables, at hand or still to be visited) |
| | `ReleaseServedToLearners` | | the same refinement under the learner's requests, which leave the tables alone |
| | `ChargedExistAlways` | | `Stocked`: the hints of a challenge are at all times the first few of some release, since a sync deletes them and inserts them in order; `Charged`: a hint that a reveal has found was given by a release, whatever is deployed before it writes |
| | `CelebrationEarnedAlways` | | `Stocked`: a challenge in the tables keeps its category, so an occupied category stays occupied; `Earned`: an answer in the cache is true of now or of the past (`Truthful`), and the category of a snapshot has a challenge in every later answer (`Snapshot`) |
| | `ViewsAgreeAlways` | | `LearnInv`, which has every stored challenge in a seeded category while the process serves, so that the inner joins drop none; the lines per category add up over disjoint classes |
| `BrowserProofs` | `IdentityAlways` | | `Identity`: while a load waits for `GET /me` what could disturb it went with the page before it; a pending sign-in means that nobody is signed in; a form still mounted was sent by the user shown |
| | `SubmissionListedAlways` | | `Accepted`, `ToldListed`: after a confirmed submission a fetch that runs is one that will show it |
| `ChallengePageProofs` | `TypeCorrect` | | one step per action |
| | `DropsAreHandledAlways`, `ResumeSettlesAlways` | | `Sound`: a ticket request names its session and why it was sent, the pane has a socket exactly while it is mounted; one lemma per effect of React |
| | `StoppedNotResumedAlways` | | an action property, from `Stopping`: while the answer to a stop is due, the page remembers the session it stopped and shows one |
| | `NoCarryOverAlways` | `MovesSettled`: the page moves while no answer to a start or a resume is due | `OwnInv`: what is shown, and what a pending start or resume will show, is of the page's challenge; a row keeps its challenge |

None of these properties is inductive by itself.  `ResetOnce`, for one, is kept
by a step only because of what the handler that takes it locked earlier, which
the property does not mention.

*Conditions.*  Some hypotheses are about a whole behaviour, as `[]P`.  They are not
assumptions on the program, which does nothing to keep them: they say which
overlaps break a property, and that nothing else does.  `OneStartEach` and `OneStart`
say that two starts, of one user or of any, do not overlap (count, stop of the prior
session and INSERT are separate queries, `session.service.ts:48-63`); `ChecksLive`
that a check about to write a status finds its session active (`checkSession` tests
`container_id` only, the finding of `SessionService_check_ended`); `StopsSettled` that
nobody stops a session while its `startSession` is creating the container, which
only it knows; `MovesSettled` that the page does not change its challenge while an
answer is due (the finding of `ChallengePage_carry_over`).  `CapOvershoot` says what
remains of the cap where starts do overlap.  For the first three, `SerialSafe` and
`SerialInSight` show instances in which the conditions hold by themselves, those of
`SessionService_serial` among them.

*Sums.*  The limiter's budget and the pages' counts add up functions over sets
(`MapThenSumSet`), which would need induction.  `Sums` goes around it: the fold is a
recursive function over the subsets of the set, the number of pairs below the
graph of the function satisfies its recursion, and nothing else does, since the
smallest subset on which two solutions differ leads to a smaller one.  From there
sums are cardinalities, about which the library's theorems say enough.

*Only model-checked*: everything under fairness (the prover does not treat
`ENABLED`): `IdleReaped`, `SolvedReaped`, `DrainEnds`, `RestartsHeal`,
`AbandonedShellEnds`, `StreamResumes`, `TerminalsClosed`, `RetriesStop`.  Every invariant
and every action property that a passing run checks has a theorem.

## 6. Where the code and its documents disagree

Two have a run whose counterexample shows it, and an entry in `PROJECT.json`.

- `SessionService_check_ended`: decisions/0003 promises one active session per
  user; `checkSession` tests only `container_id`, which a stopped session keeps, so
  a check on an ended session makes it active again.
- `ChallengePage_carry_over`: `ChallengeDetailPage.tsx:249-250` says that state is
  reset when the slug changes so that nothing is carried over; the answer to a
  start or a resume that is still pending at the change shows the old challenge's
  session on the new one's page.

Others were met while modelling and are described here only.

- The README promises that a shutdown leaks no container; the drain reads the
  active sessions once, and a start in flight and solved sessions are not among
  them.
- `deleteOwnAccount` promises to tear down any live container; it asks for the
  active session, and a solved one in its grace period is not active.
- decisions/0028:29-32 promises that two tabs share one shell; two first
  connections that wait for `docker exec` together run one each, and the second
  entry replaces the first (`docker.service.ts:57`).  `OneShell` holds without that
  race.
- `HelpPage.tsx:169` promises that every submission listed is the user's own;
  `logout` (`AuthContext.tsx:46`) leaves the query cache, so whoever signs in next
  in the same tab may see the previous user's list until it is fetched again.

## 7. What is not modelled

`attempts_count` and `hints_used_max` of the progress row, which nothing reads back
into a decision; the solution and explanation panels of the challenge page (each
one request that shows its answer); difficulty and search, filters like the two
modelled ones; the palette's own filter and highlight; the seven-day expiry of a
token; the bytes of the terminal and the size of its window.

Left out for good: mail (one SMTP call; that it may fail is `HandlerFails` in
`Accounts`), log and error formats, the public pages, toasts and visual
components, the content of the challenges (their verdict is nondeterministic),
image builds, Docker's resource limits and networks, TLS and Compose files,
validation of request fields, CORS, and the signatures of JWTs.  PostgreSQL is
taken to run each statement atomically and to keep what it committed, Docker to
remove a container or to say that it did not.
