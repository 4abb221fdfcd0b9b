------------------------------ MODULE Accounts --------------------------------
(***************************************************************************)
(* One account, and the handlers that prove, change and reset its password *)
(* and hand out and verify its tokens: backend/src/services/auth.service.ts*)
(* behind routes/auth.routes.ts and middleware/requireAuth.ts.  The routes'*)
(* rate limiter is RateLimit.                                              *)
(*                                                                         *)
(* Grain: one action per awaited query or bcrypt call.  A reset runs in a  *)
(* transaction, whose writes appear at its COMMIT and whose now() is the   *)
(* time of its BEGIN.                                                      *)
(*                                                                         *)
(* Abstracted: passwords are numbered in the order they are set; request   *)
(* validation, e-mail delivery and the seven days a token lives at most.   *)
(***************************************************************************)
EXTENDS Integers, FiniteSets

CONSTANTS
  Requests,      \* bound: HTTP handlers in flight at a time
  ResetTokens,   \* bound: reset links ever sent
  MaxPasswords,  \* bound: passwords ever set after the first
  TokenTtl,      \* RESET_TOKEN_TTL_MS, in ticks
  Horizon,       \* bound: the clock stops here
  NoToken, NoRequest

ASSUME BoundsAssumption == MaxPasswords \in Nat /\ TokenTtl \in Nat \ {0} /\ Horizon \in Nat
ASSUME NoneAssumption == NoToken \notin ResetTokens /\ NoRequest \notin Requests

VARIABLES
  now,        \* the clock, in ticks
  exists,     \* the users row is there
  password,   \* users.password_hash
  changedAt,  \* users.password_changed_at
  jwts,       \* the auth tokens handed out
  resets,     \* the password_reset_tokens rows
  lock,       \* who holds the row lock of FOR UPDATE
  handler,    \* the handlers in flight
  asked,      \* history: when the request of the last password change arrived
  uses        \* history: passwords set with a reset link

account == <<exists, password, changedAt, asked>>
links   == <<resets, lock, uses>>
vars    == <<now, account, jwts, links, handler>>

Never == -1

\* Two ticks make a second: JWT times are whole seconds.
Second(t) == t \div 2

Idle == [pc |-> "idle", guess |-> 0, link |-> NoToken, arrived |-> 0, began |-> 0]

\* Mutant: the change is compared to the tick, not to the second.
AcceptedToTheTick(t) == exists /\ (changedAt = Never \/ 2 * t.iat >= changedAt)

\* verifyAuthToken, called by requireAuth.
Accepted(t) == exists /\ (changedAt = Never \/ t.iat >= Second(changedAt))

Finish(r)   == handler' = [handler EXCEPT ![r] = Idle]
Goto(r, pc) == handler' = [handler EXCEPT ![r].pc = pc]

\* The handlers that may still set a password.
Writers == {r \in Requests : handler[r].pc \in {"changeRead", "changeWrite", "resetBegin",
                                                "resetSelect", "resetCommit"}}

-----------------------------------------------------------------------------
(* A request arrives at its handler.                                       *)

Arrive(r, pc, guess, link) ==
  /\ handler[r] = Idle
  /\ handler' = [handler EXCEPT ![r] = [pc |-> pc, guess |-> guess, link |-> link,
                                        arrived |-> now, began |-> 0]]
  /\ UNCHANGED <<now, account, jwts, links>>

\* Whoever knew a password of the account may still type it.
LoginRequest(r)  == \E p \in 0..password : Arrive(r, "loginRead", p, NoToken)
ForgotRequest(r) == Arrive(r, "forgotInsert", 0, NoToken)
ResetRequest(r)  ==
  /\ password + Cardinality(Writers) < MaxPasswords
  /\ \E x \in ResetTokens : resets[x].sent /\ Arrive(r, "resetBegin", 0, x)
ChangeRequest(r) ==
  /\ password + Cardinality(Writers) < MaxPasswords
  /\ \E t \in jwts : Accepted(t)
  /\ \E p \in 0..password : Arrive(r, "changeRead", p, NoToken)
DeleteRequest(r) ==
  /\ \E t \in jwts : Accepted(t)
  /\ \E p \in 0..password : Arrive(r, "deleteRead", p, NoToken)

-----------------------------------------------------------------------------
(* The handlers.                                                           *)

\* SELECT password_hash and bcrypt.compare: of login, changePassword and
\* deleteOwnAccount.
VerifyPassword(r, pc, next) ==
  /\ handler[r].pc = pc
  /\ IF exists /\ handler[r].guess = password THEN Goto(r, next) ELSE Finish(r)
  /\ UNCHANGED <<now, account, jwts, links>>

LoginRead(r)  == VerifyPassword(r, "loginRead", "loginSign")
ChangeRead(r) == VerifyPassword(r, "changeRead", "changeWrite")
DeleteRead(r) == VerifyPassword(r, "deleteRead", "deleteUser")

\* signAuthToken.
LoginSign(r) ==
  /\ handler[r].pc = "loginSign"
  /\ jwts' = jwts \cup {[iat |-> Second(now), password |-> handler[r].guess]}
  /\ Finish(r)
  /\ UNCHANGED <<now, account, links>>

\* Mutant: a changed password does not stamp password_changed_at.
SetPasswordUnstamped(r, at) ==
  /\ password' = IF exists THEN password + 1 ELSE password
  /\ asked'    = IF exists THEN handler[r].arrived ELSE asked
  /\ UNCHANGED <<exists, changedAt>>

\* UPDATE users SET password_hash, password_changed_at; no row after a deletion.
SetPassword(r, at) ==
  /\ password'  = IF exists THEN password + 1 ELSE password
  /\ changedAt' = IF exists THEN at ELSE changedAt
  /\ asked'     = IF exists THEN handler[r].arrived ELSE asked
  /\ UNCHANGED exists

\* Mutant: the UPDATE is tried again after it succeeded.
ChangeWriteAgain(r) ==
  /\ handler[r].pc = "changeWrite"
  /\ SetPassword(r, now)
  /\ UNCHANGED <<now, jwts, links, handler>>

ChangeWrite(r) ==
  /\ handler[r].pc = "changeWrite"
  /\ SetPassword(r, now)
  /\ Finish(r)
  /\ UNCHANGED <<now, jwts, links>>

\* requestPasswordReset: a new link, if the account is still there.
ForgotInsert(r) ==
  /\ handler[r].pc = "forgotInsert"
  /\ IF exists /\ \E x \in ResetTokens : ~resets[x].sent
       THEN \E x \in ResetTokens :
              /\ ~resets[x].sent
              /\ resets' = [resets EXCEPT ![x] = [sent |-> TRUE, used |-> FALSE,
                                                  expires |-> now + TokenTtl]]
       ELSE UNCHANGED resets
  /\ Finish(r)
  /\ UNCHANGED <<now, account, jwts, lock, uses>>

\* BEGIN.
ResetBegin(r) ==
  /\ handler[r].pc = "resetBegin"
  /\ handler' = [handler EXCEPT ![r].pc = "resetSelect", ![r].began = now]
  /\ UNCHANGED <<now, account, jwts, links>>

\* Mutant: a plain SELECT.
ResetSelectUnlocked(r) ==
  /\ handler[r].pc = "resetSelect"
  /\ LET x == handler[r].link IN
       IF exists /\ ~resets[x].used /\ resets[x].expires > handler[r].began
         THEN Goto(r, "resetCommit")
         ELSE Finish(r)
  /\ UNCHANGED <<now, account, jwts, links>>

\* SELECT ... FOR UPDATE waits for the row lock and then looks at the row as the
\* holder left it.
ResetSelect(r) ==
  /\ handler[r].pc = "resetSelect"
  /\ LET x == handler[r].link IN
       /\ lock[x] = NoRequest
       /\ IF exists /\ ~resets[x].used /\ resets[x].expires > handler[r].began
            THEN Goto(r, "resetCommit") /\ lock' = [lock EXCEPT ![x] = r]
            ELSE Finish(r) /\ UNCHANGED lock
  /\ UNCHANGED <<now, account, jwts, resets, uses>>

\* Both UPDATEs and COMMIT.
ResetCommit(r) ==
  /\ handler[r].pc = "resetCommit"
  /\ SetPassword(r, handler[r].began)
  /\ LET x == handler[r].link IN
       /\ resets' = [resets EXCEPT ![x].used = TRUE]
       /\ lock'   = [lock EXCEPT ![x] = NoRequest]
       /\ uses'   = [uses EXCEPT ![x] = @ + 1]
  /\ Finish(r)
  /\ UNCHANGED <<now, jwts>>

\* DELETE FROM users; the cascade waits for the row locks of a reset.
DeleteUser(r) ==
  /\ handler[r].pc = "deleteUser"
  /\ \A x \in ResetTokens : lock[x] = NoRequest
  /\ exists' = FALSE
  /\ Finish(r)
  /\ UNCHANGED <<now, password, changedAt, asked, jwts, links>>

\* Mutant: the client goes back to the pool inside its transaction.
HandlerFailsOpen(r) ==
  /\ handler[r].pc # "idle"
  /\ Finish(r)
  /\ UNCHANGED <<now, account, jwts, links>>

\* A query fails: 500, and ROLLBACK of a transaction.
HandlerFails(r) ==
  /\ handler[r].pc # "idle"
  /\ lock' = [x \in ResetTokens |-> IF lock[x] = r THEN NoRequest ELSE lock[x]]
  /\ Finish(r)
  /\ UNCHANGED <<now, account, jwts, resets, uses>>

\* The backend restarts: handlers and open transactions are gone.
Restart ==
  /\ handler' = [r \in Requests |-> Idle]
  /\ lock'    = [x \in ResetTokens |-> NoRequest]
  /\ UNCHANGED <<now, account, jwts, resets, uses>>

-----------------------------------------------------------------------------
Init ==
  /\ now       = 0
  /\ exists    = TRUE
  /\ password  = 0
  /\ changedAt = Never
  /\ jwts      = {}
  /\ resets    = [x \in ResetTokens |-> [sent |-> FALSE, used |-> FALSE, expires |-> 0]]
  /\ lock      = [x \in ResetTokens |-> NoRequest]
  /\ handler   = [r \in Requests |-> Idle]
  /\ asked     = Never
  /\ uses      = [x \in ResetTokens |-> 0]

Request(r) == \/ LoginRequest(r) \/ ForgotRequest(r) \/ ResetRequest(r)
              \/ ChangeRequest(r) \/ DeleteRequest(r)
Handle(r)  == \/ LoginRead(r) \/ LoginSign(r) \/ ChangeRead(r) \/ ChangeWrite(r)
              \/ ForgotInsert(r) \/ ResetBegin(r) \/ ResetSelect(r) \/ ResetCommit(r)
              \/ DeleteRead(r) \/ DeleteUser(r) \/ HandlerFails(r)
Tick ==
  /\ now < Horizon
  /\ now' = now + 1
  /\ UNCHANGED <<account, jwts, links, handler>>

Next == (\E r \in Requests : Request(r) \/ Handle(r)) \/ Tick \/ Restart

Spec == Init /\ [][Next]_vars

-----------------------------------------------------------------------------
(* Properties.                                                             *)

Jwts == [iat : Nat, password : Nat]
Pcs  == {"idle", "loginRead", "loginSign", "changeRead", "changeWrite", "forgotInsert",
         "resetBegin", "resetSelect", "resetCommit", "deleteRead", "deleteUser"}

\* The type invariant.
TypeOK ==
  /\ now \in 0..Horizon
  /\ exists \in BOOLEAN
  /\ password \in 0..MaxPasswords
  /\ changedAt \in Nat \cup {Never}
  /\ jwts \subseteq Jwts
  /\ resets \in [ResetTokens -> [sent : BOOLEAN, used : BOOLEAN, expires : Nat]]
  /\ lock \in [ResetTokens -> Requests \cup {NoRequest}]
  /\ handler \in [Requests -> [pc : Pcs, guess : Nat, link : ResetTokens \cup {NoToken},
                               arrived : Nat, began : Nat]]
  /\ asked \in Nat \cup {Never}
  /\ uses \in [ResetTokens -> Nat]

\* "It can never be replayed": a reset link sets at most one password, also when
\* it is used twice at the same time, and across failures and restarts.
ResetOnce == \A x \in ResetTokens : uses[x] <= 1

\* Only a reset that is about to set its password holds the lock of its link, so
\* that a failed one never leaves the link and the account locked for others.
LocksHeldByResets ==
  \A x \in ResetTokens : lock[x] # NoRequest =>
    handler[lock[x]].pc = "resetCommit" /\ handler[lock[x]].link = x

\* Changing or resetting the password "actually invalidates any already-issued
\* JWT": a token for an earlier password that is still accepted was not signed
\* in a second before the one in which the last change was asked for.
OldTokensRejected ==
  \A t \in jwts : Accepted(t) /\ t.password # password => t.iat >= Second(asked)

\* The invalidation never hits the user it protects: whoever logged in with the
\* current password is let in, also in the second of the change.
NewTokensAccepted ==
  \A t \in jwts : exists /\ t.password = password => Accepted(t)
=============================================================================
