---------------------------- MODULE AccountsProofs ----------------------------
(***************************************************************************)
(* Proofs about Accounts, for any number of handlers, reset links,         *)
(* passwords and ticks.                                                    *)
(*                                                                         *)
(* Three invariants beside the types: LinkInv, who holds which lock and    *)
(* that a locked link is unused; TokenInv, how the numbers of passwords    *)
(* and the times of requests, changes and tokens are ordered; and Room,    *)
(* that the handlers in flight stay within the bound on passwords.         *)
(***************************************************************************)
EXTENDS Accounts, FiniteSetTheorems, TLAPS

Handlers == [pc : Pcs, guess : Nat, link : ResetTokens \cup {NoToken}, arrived : Nat, began : Nat]

Types ==
  /\ now \in Nat
  /\ exists \in BOOLEAN
  /\ password \in Nat
  /\ changedAt \in Nat \cup {Never}
  /\ jwts \subseteq Jwts
  /\ resets \in [ResetTokens -> [sent : BOOLEAN, used : BOOLEAN, expires : Nat]]
  /\ lock \in [ResetTokens -> Requests \cup {NoRequest}]
  /\ handler \in [Requests -> Handlers]
  /\ asked \in Nat \cup {Never}
  /\ uses \in [ResetTokens -> Nat]

Resetting == {"resetBegin", "resetSelect", "resetCommit"}

\* A handler that sets a password by a link came with a link that was sent.
LinksSent == \A r \in Requests : handler[r].pc \in Resetting =>
               handler[r].link \in ResetTokens /\ resets[handler[r].link].sent

\* A reset about to set its password holds its link, unused.
Locked == \A r \in Requests : handler[r].pc = "resetCommit" =>
            lock[handler[r].link] = r /\ ~resets[handler[r].link].used

\* A link that set a password is used, and one not sent set none.
UsesMarked == \A x \in ResetTokens :
  /\ uses[x] <= 1
  /\ uses[x] = 1 => resets[x].used /\ resets[x].sent

LinkInv == Types /\ LinksSent /\ Locked /\ UsesMarked /\ LocksHeldByResets

\* Passwords and times are known, if at all, from now or before.
Past ==
  /\ changedAt <= now
  /\ asked <= changedAt
  /\ changedAt = Never => password = 0
  /\ \A t \in jwts : t.password <= password /\ t.iat <= Second(now)
  /\ \A r \in Requests :
       /\ handler[r].guess <= password
       /\ handler[r].pc # "idle" => handler[r].arrived <= now
       /\ handler[r].pc \in {"resetSelect", "resetCommit"} =>
            handler[r].arrived <= handler[r].began /\ handler[r].began <= now

\* A token for the current password is not older than it.
Fresh == \A t \in jwts : t.password = password /\ changedAt # Never => t.iat >= Second(changedAt)

TokenInv == Types /\ Past /\ Fresh

-----------------------------------------------------------------------------
(* Whole seconds keep the order of ticks.                                  *)

LEMMA SecondMonotone ==
  ASSUME NEW a \in Nat, NEW b \in Nat, a <= b
  PROVE  Second(a) \in Nat /\ Second(a) <= Second(b)
BY DEF Second

-----------------------------------------------------------------------------
(* Types.                                                                  *)

LEMMA IdleType == Idle \in Handlers
BY DEF Idle, Handlers, Pcs

LEMMA FinishType ==
  ASSUME Types, NEW r \in Requests, Finish(r)
  PROVE  handler' \in [Requests -> Handlers]
BY IdleType DEF Types, Finish

LEMMA GotoType ==
  ASSUME Types, NEW r \in Requests, NEW pc \in Pcs, Goto(r, pc)
  PROVE  handler' \in [Requests -> Handlers]
<1>1. [handler[r] EXCEPT !.pc = pc] \in Handlers
  BY DEF Types, Handlers
<1> QED BY <1>1 DEF Types, Goto

LEMMA ArriveType ==
  ASSUME Types, NEW r \in Requests, NEW pc \in Pcs, NEW guess \in Nat,
         NEW link \in ResetTokens \cup {NoToken}, Arrive(r, pc, guess, link)
  PROVE  Types'
<1>1. [pc |-> pc, guess |-> guess, link |-> link, arrived |-> now, began |-> 0] \in Handlers
  BY DEF Types, Handlers
<1> QED BY <1>1 DEF Types, Arrive, account, links

LEMMA SetPasswordType ==
  ASSUME Types, NEW r \in Requests, NEW at \in Nat, SetPassword(r, at)
  PROVE  exists' \in BOOLEAN /\ password' \in Nat /\ changedAt' \in Nat \cup {Never}
           /\ asked' \in Nat \cup {Never}
<1>1. handler[r].arrived \in Nat
  BY DEF Types, Handlers
<1> QED BY <1>1 DEF Types, SetPassword

LEMMA TypesInit == Init => Types
BY IdleType, BoundsAssumption DEF Init, Types, Never

LEMMA TypesStep == Types /\ [Next]_vars => Types'
<1> SUFFICES ASSUME Types, [Next]_vars PROVE Types'
  OBVIOUS
<1> USE BoundsAssumption
<1>1. ASSUME NEW r \in Requests, Request(r) PROVE Types'
  <2>1. CASE LoginRequest(r)
    <3>1. PICK p \in 0..password : Arrive(r, "loginRead", p, NoToken)
      BY <2>1 DEF LoginRequest
    <3> QED BY <3>1, ArriveType DEF Types, Pcs
  <2>2. CASE ForgotRequest(r)
    BY <2>2, ArriveType DEF ForgotRequest, Pcs
  <2>3. CASE ResetRequest(r)
    <3>1. PICK x \in ResetTokens : Arrive(r, "resetBegin", 0, x)
      BY <2>3 DEF ResetRequest
    <3> QED BY <3>1, ArriveType DEF Pcs
  <2>4. CASE ChangeRequest(r)
    <3>1. PICK p \in 0..password : Arrive(r, "changeRead", p, NoToken)
      BY <2>4 DEF ChangeRequest
    <3> QED BY <3>1, ArriveType DEF Types, Pcs
  <2>5. CASE DeleteRequest(r)
    <3>1. PICK p \in 0..password : Arrive(r, "deleteRead", p, NoToken)
      BY <2>5 DEF DeleteRequest
    <3> QED BY <3>1, ArriveType DEF Types, Pcs
  <2> QED BY <1>1, <2>1, <2>2, <2>3, <2>4, <2>5 DEF Request
<1>2. ASSUME NEW r \in Requests, NEW pc, NEW next \in Pcs, VerifyPassword(r, pc, next) PROVE Types'
  <2>1. handler' \in [Requests -> Handlers]
    BY <1>2, FinishType, GotoType DEF VerifyPassword
  <2> QED BY <1>2, <2>1 DEF VerifyPassword, Types, account, links
<1>3. ASSUME NEW r \in Requests, Handle(r) PROVE Types'
  <2>1. CASE LoginRead(r) \/ ChangeRead(r) \/ DeleteRead(r)
    BY <2>1, <1>2 DEF LoginRead, ChangeRead, DeleteRead, Pcs
  <2>2. CASE LoginSign(r)
    <3>1. [iat |-> Second(now), password |-> handler[r].guess] \in Jwts
      BY SecondMonotone DEF Types, Handlers, Jwts
    <3> QED BY <2>2, <3>1, FinishType DEF LoginSign, Types, account, links
  <2>3. CASE ChangeWrite(r)
    BY <2>3, FinishType, SetPasswordType DEF ChangeWrite, Types, links
  <2>4. CASE ForgotInsert(r)
    <3>1. resets' \in [ResetTokens -> [sent : BOOLEAN, used : BOOLEAN, expires : Nat]]
      <4>1. CASE UNCHANGED resets
        BY <4>1 DEF Types
      <4>2. CASE \E x \in ResetTokens :
              resets' = [resets EXCEPT ![x] = [sent |-> TRUE, used |-> FALSE, expires |-> now + TokenTtl]]
        <5>1. now + TokenTtl \in Nat
          BY DEF Types
        <5> QED BY <4>2, <5>1 DEF Types
      <4> QED BY <2>4, <4>1, <4>2 DEF ForgotInsert
    <3> QED BY <2>4, <3>1, FinishType DEF ForgotInsert, Types, account
  <2>5. CASE ResetBegin(r)
    <3>1. [handler[r] EXCEPT !.pc = "resetSelect", !.began = now] \in Handlers
      BY DEF Types, Handlers, Pcs
    <3>2. handler' = [handler EXCEPT ![r] = [handler[r] EXCEPT !.pc = "resetSelect", !.began = now]]
      BY <2>5 DEF ResetBegin, Types
    <3> QED BY <2>5, <3>1, <3>2 DEF ResetBegin, Types, account, links
  <2>6. CASE ResetSelect(r)
    <3>1. handler' \in [Requests -> Handlers]
      BY <2>6, FinishType, GotoType DEF ResetSelect, Pcs
    <3>2. lock' \in [ResetTokens -> Requests \cup {NoRequest}]
      BY <2>6 DEF ResetSelect, Types
    <3> QED BY <2>6, <3>1, <3>2 DEF ResetSelect, Types, account
  <2>7. CASE ResetCommit(r)
    <3>1. handler[r].began \in Nat
      BY DEF Types, Handlers
    <3>2. resets' \in [ResetTokens -> [sent : BOOLEAN, used : BOOLEAN, expires : Nat]]
      BY <2>7 DEF ResetCommit, Types
    <3>3. lock' \in [ResetTokens -> Requests \cup {NoRequest}]
      BY <2>7 DEF ResetCommit, Types
    <3>4. uses' \in [ResetTokens -> Nat]
      <4> DEFINE x == handler[r].link
      <4>1. uses \in [ResetTokens -> Nat] /\ uses' = [uses EXCEPT ![x] = uses[x] + 1]
        BY <2>7 DEF ResetCommit, Types
      <4>2. x \in ResetTokens => uses[x] + 1 \in Nat
        BY <4>1
      <4> HIDE DEF x
      <4> QED BY <4>1, <4>2
    <3> QED BY <2>7, <3>1, <3>2, <3>3, <3>4, FinishType, SetPasswordType DEF ResetCommit, Types
  <2>8. CASE DeleteUser(r)
    BY <2>8, FinishType DEF DeleteUser, Types, links
  <2>9. CASE HandlerFails(r)
    BY <2>9, FinishType DEF HandlerFails, Types, account
  <2> QED BY <1>3, <2>1, <2>2, <2>3, <2>4, <2>5, <2>6, <2>7, <2>8, <2>9 DEF Handle
<1>4. CASE Tick
  BY <1>4 DEF Tick, Types, account, links
<1>5. CASE Restart
  BY <1>5, IdleType DEF Restart, Types, account
<1>6. CASE UNCHANGED vars
  BY <1>6 DEF vars, Types, account, links
<1> QED BY <1>1, <1>3, <1>4, <1>5, <1>6 DEF Next

-----------------------------------------------------------------------------
(* Reset links.                                                            *)

\* What the steps other than those of a reset leave alone.
LEMMA LinkStutter ==
  ASSUME LinkInv, Types', UNCHANGED links,
         \A r \in Requests : handler'[r] = handler[r] \/ handler'[r].pc \notin Resetting,
         \A r \in Requests : handler[r].pc = "resetCommit" => handler'[r] = handler[r]
  PROVE  LinkInv'
<1> USE DEF LinkInv, links, Resetting
<1>1. LinksSent'
  BY DEF LinksSent
<1>2. Locked'
  BY DEF Locked
<1>3. UsesMarked'
  BY DEF UsesMarked
<1>4. LocksHeldByResets'
  <2>1. \A x \in ResetTokens : lock[x] # NoRequest => lock[x] \in Requests
    BY DEF Types
  <2> QED BY <2>1 DEF LocksHeldByResets
<1> QED BY <1>1, <1>2, <1>3, <1>4

\* A handler that is not about to commit its reset moves on or ends.
LEMMA LinkMove ==
  ASSUME LinkInv, Types', UNCHANGED links, NEW r \in Requests,
         handler[r].pc # "resetCommit",
         Finish(r) \/ (\E pc \in Pcs \ Resetting : Goto(r, pc))
  PROVE  LinkInv'
<1>1. \A s \in Requests : s # r => handler'[s] = handler[s]
  BY DEF LinkInv, Types, Finish, Goto
<1>2. handler'[r].pc \notin Resetting
  BY DEF LinkInv, Types, Handlers, Finish, Goto, Idle, Resetting
<1> QED BY <1>1, <1>2, LinkStutter

LEMMA LinkArrive ==
  ASSUME LinkInv, Types', NEW r \in Requests, NEW pc \in Pcs, NEW guess, NEW link,
         Arrive(r, pc, guess, link),
         pc \in Resetting => pc = "resetBegin" /\ link \in ResetTokens /\ resets[link].sent
  PROVE  LinkInv'
<1>1. /\ handler'[r] = [pc |-> pc, guess |-> guess, link |-> link, arrived |-> now, began |-> 0]
      /\ \A s \in Requests : s # r => handler'[s] = handler[s]
      /\ handler[r].pc = "idle"
  BY DEF LinkInv, Types, Arrive, Idle
<1>2. UNCHANGED <<resets, lock, uses>>
  BY DEF Arrive, links
<1>3. handler'[r].pc = pc /\ handler'[r].link = link /\ pc # "resetCommit"
  BY <1>1 DEF Resetting
<1>4. LinksSent'
  BY <1>1, <1>2, <1>3 DEF LinkInv, LinksSent
<1>5. Locked'
  BY <1>1, <1>2, <1>3 DEF LinkInv, Locked
<1>6. UsesMarked'
  BY <1>2 DEF LinkInv, UsesMarked
<1>7. LocksHeldByResets'
  <2>1. \A x \in ResetTokens : lock[x] # NoRequest => lock[x] \in Requests /\ lock[x] # r
    BY <1>1 DEF LinkInv, Types, LocksHeldByResets
  <2> QED BY <1>1, <1>2, <2>1 DEF LinkInv, LocksHeldByResets
<1> QED BY <1>4, <1>5, <1>6, <1>7 DEF LinkInv

LEMMA LinkInit == Init => LinkInv
<1> SUFFICES ASSUME Init PROVE LinkInv
  OBVIOUS
<1>1. Types
  BY TypesInit
<1>2. \A r \in Requests : handler[r].pc = "idle"
  BY DEF Init, Idle
<1>3. \A x \in ResetTokens : lock[x] = NoRequest /\ uses[x] = 0
  BY DEF Init
<1> QED BY <1>1, <1>2, <1>3 DEF LinkInv, LinksSent, Locked, UsesMarked, LocksHeldByResets, Resetting

LEMMA LinkStep == LinkInv /\ [Next]_vars => LinkInv'
<1> SUFFICES ASSUME LinkInv, [Next]_vars PROVE LinkInv'
  OBVIOUS
<1>0. Types /\ Types'
  BY TypesStep DEF LinkInv
<1>1. ASSUME NEW r \in Requests, Request(r) PROVE LinkInv'
  <2>1. CASE LoginRequest(r)
    <3>1. PICK p \in 0..password : Arrive(r, "loginRead", p, NoToken)
      BY <2>1 DEF LoginRequest
    <3> QED BY <1>0, <3>1, LinkArrive DEF Pcs, Resetting
  <2>2. CASE ForgotRequest(r)
    BY <1>0, <2>2, LinkArrive DEF ForgotRequest, Pcs, Resetting
  <2>3. CASE ResetRequest(r)
    <3>1. PICK x \in ResetTokens : resets[x].sent /\ Arrive(r, "resetBegin", 0, x)
      BY <2>3 DEF ResetRequest
    <3> QED BY <1>0, <3>1, LinkArrive DEF Pcs
  <2>4. CASE ChangeRequest(r)
    <3>1. PICK p \in 0..password : Arrive(r, "changeRead", p, NoToken)
      BY <2>4 DEF ChangeRequest
    <3> QED BY <1>0, <3>1, LinkArrive DEF Pcs, Resetting
  <2>5. CASE DeleteRequest(r)
    <3>1. PICK p \in 0..password : Arrive(r, "deleteRead", p, NoToken)
      BY <2>5 DEF DeleteRequest
    <3> QED BY <1>0, <3>1, LinkArrive DEF Pcs, Resetting
  <2> QED BY <1>1, <2>1, <2>2, <2>3, <2>4, <2>5 DEF Request
<1>2. ASSUME NEW r \in Requests, Handle(r) PROVE LinkInv'
  <2>1. CASE LoginRead(r) \/ ChangeRead(r) \/ DeleteRead(r)
    BY <1>0, <2>1, LinkMove DEF LoginRead, ChangeRead, DeleteRead, VerifyPassword, Pcs, Resetting
  <2>2. CASE LoginSign(r) \/ ChangeWrite(r) \/ DeleteUser(r)
    BY <1>0, <2>2, LinkMove DEF LoginSign, ChangeWrite, DeleteUser, links
  <2>3. CASE ForgotInsert(r)
    <3>1. \A s \in Requests : s # r => handler'[s] = handler[s]
      BY <1>0, <2>3 DEF ForgotInsert, Types, Finish
    <3>2. handler'[r].pc = "idle" /\ handler[r].pc = "forgotInsert" /\ UNCHANGED <<lock, uses>>
      BY <1>0, <2>3 DEF ForgotInsert, Types, Finish, Idle
    <3>3. \A x \in ResetTokens : resets[x].sent => resets'[x] = resets[x]
      <4>1. CASE UNCHANGED resets
        BY <4>1
      <4>2. CASE \E x \in ResetTokens : ~resets[x].sent /\
              resets' = [resets EXCEPT ![x] = [sent |-> TRUE, used |-> FALSE, expires |-> now + TokenTtl]]
        BY <1>0, <4>2 DEF Types
      <4> QED BY <2>3, <4>1, <4>2 DEF ForgotInsert
    <3>4. LinksSent'
      BY <3>1, <3>2, <3>3 DEF LinkInv, LinksSent, Resetting
    <3>5. Locked'
      BY <3>1, <3>2, <3>3 DEF LinkInv, LinksSent, Locked, Resetting
    <3>6. UsesMarked'
      BY <3>2, <3>3 DEF LinkInv, UsesMarked
    <3>7. LocksHeldByResets'
      <4>1. \A x \in ResetTokens : lock[x] # NoRequest => lock[x] \in Requests /\ lock[x] # r
        BY <1>0, <3>2 DEF LinkInv, Types, LocksHeldByResets
      <4> QED BY <3>1, <3>2, <4>1 DEF LinkInv, LocksHeldByResets
    <3> QED BY <1>0, <3>4, <3>5, <3>6, <3>7 DEF LinkInv
  <2>4. CASE ResetBegin(r)
    <3>1. /\ \A s \in Requests : s # r => handler'[s] = handler[s]
          /\ handler'[r].pc = "resetSelect" /\ handler'[r].link = handler[r].link
          /\ handler[r].pc = "resetBegin" /\ UNCHANGED <<resets, lock, uses>>
      BY <1>0, <2>4 DEF ResetBegin, Types, Handlers, links
    <3>2. \A x \in ResetTokens : lock[x] # NoRequest => lock[x] \in Requests /\ lock[x] # r
      BY <1>0, <3>1 DEF LinkInv, Types, LocksHeldByResets
    <3>3. LinksSent'
      BY <3>1 DEF LinkInv, LinksSent, Resetting
    <3>4. Locked' /\ UsesMarked'
      BY <3>1 DEF LinkInv, Locked, UsesMarked
    <3>5. LocksHeldByResets'
      BY <3>1, <3>2 DEF LinkInv, LocksHeldByResets
    <3> QED BY <1>0, <3>3, <3>4, <3>5 DEF LinkInv
  <2>5. CASE ResetSelect(r)
    <3>0. CASE Finish(r) /\ UNCHANGED lock
      BY <1>0, <2>5, <3>0, LinkMove DEF ResetSelect, links
    <3>1. CASE Goto(r, "resetCommit") /\ lock' = [lock EXCEPT ![handler[r].link] = r]
                 /\ ~resets[handler[r].link].used
      <4> DEFINE x == handler[r].link
      <4>1. /\ \A s \in Requests : s # r => handler'[s] = handler[s]
            /\ handler'[r].pc = "resetCommit" /\ handler'[r].link = x
            /\ handler[r].pc = "resetSelect" /\ UNCHANGED <<resets, uses>>
            /\ lock[x] = NoRequest
        BY <1>0, <2>5, <3>1 DEF ResetSelect, Goto, Types, Handlers
      <4>2. x \in ResetTokens /\ resets[x].sent
        BY <4>1 DEF LinkInv, LinksSent, Resetting
      <4>3. lock'[x] = r /\ \A y \in ResetTokens : y # x => lock'[y] = lock[y]
        BY <1>0, <3>1, <4>2 DEF Types
      <4>4. \A s \in Requests : handler[s].pc = "resetCommit" =>
              handler[s].link \in ResetTokens /\ handler[s].link # x
        BY <4>1, <4>2, NoneAssumption DEF LinkInv, LinksSent, Locked, Resetting
      <4>5. \A y \in ResetTokens : lock[y] # NoRequest => lock[y] \in Requests /\ lock[y] # r
        BY <1>0, <4>1 DEF LinkInv, Types, LocksHeldByResets
      <4> HIDE DEF x
      <4>6. LinksSent'
        BY <4>1, <4>2 DEF LinkInv, LinksSent, Resetting
      <4>7. Locked'
        BY <3>1, <4>1, <4>3, <4>4 DEF LinkInv, Locked, x
      <4>8. UsesMarked'
        BY <4>1 DEF LinkInv, UsesMarked
      <4>9. LocksHeldByResets'
        BY <4>1, <4>3, <4>5 DEF LinkInv, LocksHeldByResets
      <4> QED BY <1>0, <4>6, <4>7, <4>8, <4>9 DEF LinkInv
    <3> QED BY <2>5, <3>0, <3>1 DEF ResetSelect
  <2>6. CASE ResetCommit(r)
    <3> DEFINE x == handler[r].link
    <3>1. /\ \A s \in Requests : s # r => handler'[s] = handler[s]
          /\ handler'[r].pc = "idle" /\ handler[r].pc = "resetCommit"
      BY <1>0, <2>6 DEF ResetCommit, Finish, Idle, Types
    <3>2. x \in ResetTokens /\ resets[x].sent /\ ~resets[x].used /\ lock[x] = r
      BY <3>1 DEF LinkInv, LinksSent, Locked, Resetting
    <3>3. /\ resets'[x].used /\ resets'[x].sent /\ lock'[x] = NoRequest
          /\ \A y \in ResetTokens : y # x => resets'[y] = resets[y] /\ lock'[y] = lock[y]
      BY <1>0, <2>6, <3>2 DEF ResetCommit, Types
    <3>4. uses'[x] = uses[x] + 1 /\ \A y \in ResetTokens : y # x => uses'[y] = uses[y]
      BY <1>0, <2>6, <3>2 DEF ResetCommit, Types
    <3>5. uses[x] = 0
      <4>1. \A y \in ResetTokens : uses[y] \in Nat
        BY <1>0 DEF Types
      <4> HIDE DEF x
      <4> QED BY <3>2, <4>1 DEF LinkInv, UsesMarked
    <3>6. \A s \in Requests : s # r /\ handler[s].pc = "resetCommit" =>
            handler[s].link \in ResetTokens /\ handler[s].link # x
      BY <3>2 DEF LinkInv, LinksSent, Locked, Resetting
    <3>7. \A y \in ResetTokens : y # x /\ lock[y] # NoRequest => lock[y] \in Requests /\ lock[y] # r
      BY <1>0, <3>2 DEF LinkInv, Types, LocksHeldByResets
    <3> HIDE DEF x
    <3>8. LinksSent'
      BY <3>1, <3>2, <3>3 DEF LinkInv, LinksSent, Resetting
    <3>9. Locked'
      BY <3>1, <3>3, <3>6 DEF LinkInv, Locked
    <3>10. UsesMarked'
      BY <3>3, <3>4, <3>5 DEF LinkInv, UsesMarked
    <3>11. LocksHeldByResets'
      BY <3>1, <3>3, <3>7 DEF LinkInv, LocksHeldByResets
    <3> QED BY <1>0, <3>8, <3>9, <3>10, <3>11 DEF LinkInv
  <2>7. CASE HandlerFails(r)
    <3>1. /\ \A s \in Requests : s # r => handler'[s] = handler[s]
          /\ handler'[r].pc = "idle" /\ UNCHANGED <<resets, uses>>
      BY <1>0, <2>7 DEF HandlerFails, Finish, Idle, Types
    <3>2. \A y \in ResetTokens : lock'[y] = IF lock[y] = r THEN NoRequest ELSE lock[y]
      BY <2>7 DEF HandlerFails
    <3>3. LinksSent'
      BY <3>1 DEF LinkInv, LinksSent, Resetting
    <3>4. Locked'
      BY <3>1, <3>2 DEF LinkInv, Locked, LinksSent, Resetting
    <3>5. UsesMarked'
      BY <3>1 DEF LinkInv, UsesMarked
    <3>6. LocksHeldByResets'
      <4>1. \A y \in ResetTokens : lock[y] # NoRequest => lock[y] \in Requests
        BY <1>0 DEF Types
      <4> QED BY <3>1, <3>2, <4>1 DEF LinkInv, LocksHeldByResets
    <3> QED BY <1>0, <3>3, <3>4, <3>5, <3>6 DEF LinkInv
  <2> QED BY <1>2, <2>1, <2>2, <2>3, <2>4, <2>5, <2>6, <2>7 DEF Handle
<1>3. CASE Tick \/ UNCHANGED vars
  <2>1. UNCHANGED <<handler, resets, lock, uses>>
    BY <1>3 DEF Tick, vars, links
  <2> QED BY <1>0, <2>1 DEF LinkInv, LinksSent, Locked, UsesMarked, LocksHeldByResets
<1>4. CASE Restart
  <2>1. /\ \A s \in Requests : handler'[s].pc = "idle"
        /\ \A y \in ResetTokens : lock'[y] = NoRequest
        /\ UNCHANGED <<resets, uses>>
    BY <1>4 DEF Restart, Idle
  <2> QED BY <1>0, <2>1 DEF LinkInv, LinksSent, Locked, UsesMarked, LocksHeldByResets, Resetting
<1> QED BY <1>1, <1>2, <1>3, <1>4 DEF Next

\* However uses of it overlap, fail and are cut off by restarts, a reset link
\* sets at most one password.
THEOREM ResetOnceAlways == Spec => []ResetOnce
<1>1. LinkInv => ResetOnce
  BY DEF LinkInv, UsesMarked, ResetOnce
<1> QED BY <1>1, LinkInit, LinkStep, PTL DEF Spec

\* Only a reset about to set its password holds the lock of its link.
THEOREM LocksHeldAlways == Spec => []LocksHeldByResets
BY LinkInit, LinkStep, PTL DEF Spec, LinkInv

-----------------------------------------------------------------------------
(* Tokens.                                                                 *)

\* Steps that set no password, hand out no token and leave each handler alone,
\* idle it, or move it on without changing what it carries.
LEMMA TokenStutter ==
  ASSUME TokenInv, Types', now' \in Nat, now <= now',
         UNCHANGED <<password, changedAt, jwts, asked>>,
         \A r \in Requests :
           \/ handler'[r] = handler[r]
           \/ handler'[r] = Idle
           \/ /\ handler[r].pc # "idle" /\ handler'[r].guess = handler[r].guess
              /\ handler'[r].arrived = handler[r].arrived
              /\ handler'[r].pc \in {"resetSelect", "resetCommit"} =>
                   \/ handler'[r].began = now
                   \/ handler'[r].began = handler[r].began /\ handler[r].pc = "resetSelect"
  PROVE  TokenInv'
<1>1. Second(now) \in Nat /\ Second(now') \in Nat /\ Second(now) <= Second(now')
  BY SecondMonotone DEF TokenInv, Types
<1>2. Fresh'
  BY DEF TokenInv, Fresh
<1>3. changedAt' <= now' /\ asked' <= changedAt' /\ (changedAt' = Never => password' = 0)
  BY DEF TokenInv, Past, Types, Never
<1>4. ASSUME NEW t \in jwts' PROVE t.password <= password' /\ t.iat <= Second(now')
  BY <1>1, <1>4 DEF TokenInv, Past, Types, Jwts
<1>5. ASSUME NEW r \in Requests
      PROVE  /\ handler'[r].guess <= password'
             /\ handler'[r].pc # "idle" => handler'[r].arrived <= now'
             /\ handler'[r].pc \in {"resetSelect", "resetCommit"} =>
                  handler'[r].arrived <= handler'[r].began /\ handler'[r].began <= now'
  <2>1. handler[r] \in Handlers /\ handler'[r] \in Handlers /\ now \in Nat /\ password \in Nat
    BY DEF TokenInv, Types
  <2>2. /\ handler[r].guess <= password
        /\ handler[r].pc # "idle" => handler[r].arrived <= now
        /\ handler[r].pc \in {"resetSelect", "resetCommit"} =>
             handler[r].arrived <= handler[r].began /\ handler[r].began <= now
    BY DEF TokenInv, Past
  <2>3. CASE handler'[r] = handler[r]
    BY <2>1, <2>2, <2>3 DEF Handlers
  <2>4. CASE handler'[r] = Idle
    BY <2>1, <2>4 DEF Idle
  <2>5. CASE handler'[r] # handler[r] /\ handler'[r] # Idle
    BY <2>1, <2>2, <2>5 DEF Handlers
  <2> QED BY <2>3, <2>4, <2>5
<1> QED BY <1>2, <1>3, <1>4, <1>5 DEF TokenInv, Past

LEMMA TokenArrive ==
  ASSUME TokenInv, Types', NEW r \in Requests, NEW pc \in Pcs, NEW guess \in 0..password, NEW link,
         pc \notin {"resetSelect", "resetCommit"}, Arrive(r, pc, guess, link)
  PROVE  TokenInv'
<1>1. UNCHANGED <<now, password, changedAt, jwts, asked>>
  BY DEF Arrive, account
<1>2. /\ handler'[r] = [pc |-> pc, guess |-> guess, link |-> link, arrived |-> now, began |-> 0]
      /\ \A s \in Requests : s # r => handler'[s] = handler[s]
  BY DEF TokenInv, Types, Arrive
<1>3. Fresh'
  BY <1>1 DEF TokenInv, Fresh
<1>4. handler'[r].guess = guess /\ handler'[r].arrived = now /\ handler'[r].pc = pc
  BY <1>2
<1>5. \A s \in Requests :
       /\ handler'[s].guess <= password
       /\ handler'[s].pc # "idle" => handler'[s].arrived <= now
       /\ handler'[s].pc \in {"resetSelect", "resetCommit"} =>
            handler'[s].arrived <= handler'[s].began /\ handler'[s].began <= now
  BY <1>2, <1>4 DEF TokenInv, Past, Types
<1> QED BY <1>1, <1>3, <1>5 DEF TokenInv, Past

\* A password set at a time the handler had already arrived.
LEMMA TokenSet ==
  ASSUME TokenInv, Types', NEW r \in Requests, NEW at \in Nat, SetPassword(r, at), Finish(r),
         handler[r].arrived <= at, at <= now, UNCHANGED <<now, jwts>>
  PROVE  TokenInv'
<1>1. /\ handler'[r] = Idle
      /\ \A s \in Requests : s # r => handler'[s] = handler[s]
  BY DEF TokenInv, Types, Finish
<1>2. CASE ~exists
  <2>1. UNCHANGED <<password, changedAt, asked>>
    BY <1>2 DEF SetPassword
  <2> QED BY <1>1, <2>1, TokenStutter DEF TokenInv, Types
<1>3. CASE exists
  <2>1. password' = password + 1 /\ changedAt' = at /\ asked' = handler[r].arrived
    BY <1>3 DEF SetPassword
  <2>2. \A t \in jwts : t.password \in Nat /\ t.password <= password
    BY DEF TokenInv, Past, Types, Jwts
  <2>3. Fresh'
    BY <2>1, <2>2 DEF TokenInv, Fresh, Types
  <2>4. changedAt' <= now' /\ asked' <= changedAt' /\ changedAt' # Never
    BY <2>1 DEF Never
  <2>5. \A t \in jwts' : t.password <= password' /\ t.iat <= Second(now')
    BY <2>1, <2>2 DEF TokenInv, Past, Types
  <2>6. ASSUME NEW s \in Requests
        PROVE  /\ handler'[s].guess <= password'
               /\ handler'[s].pc # "idle" => handler'[s].arrived <= now'
               /\ handler'[s].pc \in {"resetSelect", "resetCommit"} =>
                    handler'[s].arrived <= handler'[s].began /\ handler'[s].began <= now'
    <3>1. CASE s = r
      BY <1>1, <2>1, <3>1 DEF Idle, TokenInv, Types
    <3>2. CASE s # r
      <4>1. handler[s].guess \in Nat
        BY DEF TokenInv, Types, Handlers
      <4> QED BY <1>1, <2>1, <3>2, <4>1 DEF TokenInv, Past, Types
    <3> QED BY <3>1, <3>2
  <2> QED BY <2>3, <2>4, <2>5, <2>6 DEF TokenInv, Past
<1> QED BY <1>2, <1>3 DEF TokenInv, Types

LEMMA TokenInit == Init => TokenInv
<1> SUFFICES ASSUME Init PROVE TokenInv
  OBVIOUS
<1>1. Types
  BY TypesInit
<1>2. Past /\ Fresh
  BY DEF Init, Past, Fresh, Idle, Never
<1> QED BY <1>1, <1>2 DEF TokenInv

LEMMA TokenStep == TokenInv /\ [Next]_vars => TokenInv'
<1> SUFFICES ASSUME TokenInv, [Next]_vars PROVE TokenInv'
  OBVIOUS
<1>0. Types /\ Types'
  BY TypesStep DEF TokenInv
<1>n. now \in Nat /\ now <= now
  BY <1>0 DEF Types
<1>1. ASSUME NEW r \in Requests, Request(r) PROVE TokenInv'
  <2>1. CASE LoginRequest(r)
    <3>1. PICK p \in 0..password : Arrive(r, "loginRead", p, NoToken)
      BY <2>1 DEF LoginRequest
    <3> QED BY <1>0, <3>1, TokenArrive DEF Pcs
  <2>2. CASE ForgotRequest(r)
    <3>1. 0 \in 0..password
      BY <1>0 DEF Types
    <3> QED BY <1>0, <2>2, <3>1, TokenArrive DEF ForgotRequest, Pcs
  <2>3. CASE ResetRequest(r)
    <3>1. PICK x \in ResetTokens : Arrive(r, "resetBegin", 0, x)
      BY <2>3 DEF ResetRequest
    <3>2. 0 \in 0..password
      BY <1>0 DEF Types
    <3> QED BY <1>0, <3>1, <3>2, TokenArrive DEF Pcs
  <2>4. CASE ChangeRequest(r)
    <3>1. PICK p \in 0..password : Arrive(r, "changeRead", p, NoToken)
      BY <2>4 DEF ChangeRequest
    <3> QED BY <1>0, <3>1, TokenArrive DEF Pcs
  <2>5. CASE DeleteRequest(r)
    <3>1. PICK p \in 0..password : Arrive(r, "deleteRead", p, NoToken)
      BY <2>5 DEF DeleteRequest
    <3> QED BY <1>0, <3>1, TokenArrive DEF Pcs
  <2> QED BY <1>1, <2>1, <2>2, <2>3, <2>4, <2>5 DEF Request
<1>2. ASSUME NEW r \in Requests, Finish(r), UNCHANGED <<now, password, changedAt, jwts, asked>>
      PROVE  TokenInv'
  <2>1. \A s \in Requests : handler'[s] = handler[s] \/ handler'[s] = Idle
    BY <1>0, <1>2 DEF Finish, Types
  <2> QED BY <1>0, <1>n, <1>2, <2>1, TokenStutter
<1>3. ASSUME NEW r \in Requests, NEW pc \in Pcs, Goto(r, pc), handler[r].pc # "idle",
             pc \in {"resetSelect", "resetCommit"} => handler[r].pc = "resetSelect",
             UNCHANGED <<now, password, changedAt, jwts, asked>>
      PROVE  TokenInv'
  <2>1. /\ handler'[r].pc = pc /\ handler'[r].guess = handler[r].guess
        /\ handler'[r].arrived = handler[r].arrived /\ handler'[r].began = handler[r].began
        /\ \A s \in Requests : s # r => handler'[s] = handler[s]
    BY <1>0, <1>3 DEF Goto, Types, Handlers
  <2> QED BY <1>0, <1>n, <1>3, <2>1, TokenStutter
<1>4. ASSUME NEW r \in Requests, Handle(r) PROVE TokenInv'
  <2>1. CASE LoginRead(r) \/ ChangeRead(r) \/ DeleteRead(r)
    BY <2>1, <1>2, <1>3 DEF LoginRead, ChangeRead, DeleteRead, VerifyPassword, account, Pcs
  <2>2. CASE LoginSign(r)
    <3> DEFINE t == [iat |-> Second(now), password |-> handler[r].guess]
    <3>1. jwts' = jwts \cup {t} /\ UNCHANGED <<now, password, changedAt, asked>>
      BY <2>2 DEF LoginSign, account
    <3>2. \A s \in Requests : handler'[s] = handler[s] \/ handler'[s] = Idle
      BY <1>0, <2>2 DEF LoginSign, Finish, Types
    <3>3. t.password <= password /\ t.iat = Second(now) /\ Second(now) \in Nat
      BY <1>0, SecondMonotone DEF TokenInv, Past, Types
    <3>4. changedAt # Never => Second(changedAt) <= Second(now)
      BY <1>0, SecondMonotone DEF TokenInv, Past, Types
    <3> HIDE DEF t
    <3>5. Fresh'
      <4>1. Second(changedAt) \in Int
        BY <1>0 DEF Types, Second, Never
      <4> QED BY <3>1, <3>3, <3>4, <4>1 DEF TokenInv, Fresh
    <3>6. \A u \in jwts' : u.password <= password' /\ u.iat <= Second(now')
      BY <3>1, <3>3 DEF TokenInv, Past
    <3>7. \A s \in Requests :
           /\ handler'[s].guess <= password'
           /\ handler'[s].pc # "idle" => handler'[s].arrived <= now'
           /\ handler'[s].pc \in {"resetSelect", "resetCommit"} =>
                handler'[s].arrived <= handler'[s].began /\ handler'[s].began <= now'
      BY <1>0, <3>1, <3>2 DEF TokenInv, Past, Idle, Types
    <3> QED BY <1>0, <3>1, <3>5, <3>6, <3>7 DEF TokenInv, Past
  <2>3. CASE ChangeWrite(r)
    <3>1. handler[r].arrived <= now
      BY <2>3 DEF ChangeWrite, TokenInv, Past
    <3> QED BY <1>0, <1>n, <2>3, <3>1, TokenSet DEF ChangeWrite
  <2>4. CASE ForgotInsert(r) \/ DeleteUser(r) \/ HandlerFails(r)
    BY <2>4, <1>2 DEF ForgotInsert, DeleteUser, HandlerFails, account
  <2>5. CASE ResetBegin(r)
    <3>1. /\ handler'[r].pc = "resetSelect" /\ handler'[r].guess = handler[r].guess
          /\ handler'[r].arrived = handler[r].arrived /\ handler'[r].began = now
          /\ handler[r].pc = "resetBegin"
          /\ \A s \in Requests : s # r => handler'[s] = handler[s]
          /\ UNCHANGED <<now, password, changedAt, jwts, asked>>
      BY <1>0, <2>5 DEF ResetBegin, Types, Handlers, account
    <3> QED BY <1>0, <1>n, <3>1, TokenStutter
  <2>6. CASE ResetSelect(r)
    BY <2>6, <1>2, <1>3 DEF ResetSelect, account, Pcs
  <2>7. CASE ResetCommit(r)
    <3>1. handler[r].arrived <= handler[r].began /\ handler[r].began <= now
      BY <2>7 DEF ResetCommit, TokenInv, Past
    <3>2. handler[r].began \in Nat
      BY <1>0 DEF Types, Handlers
    <3> QED BY <1>0, <2>7, <3>1, <3>2, TokenSet DEF ResetCommit
  <2> QED BY <1>4, <2>1, <2>2, <2>3, <2>4, <2>5, <2>6, <2>7 DEF Handle
<1>5. CASE Tick
  <2>1. now' = now + 1 /\ UNCHANGED <<handler, password, changedAt, jwts, asked>>
    BY <1>5 DEF Tick, account
  <2> QED BY <1>0, <1>n, <2>1, TokenStutter
<1>6. CASE Restart
  <2>1. \A s \in Requests : handler'[s] = Idle
    BY <1>6 DEF Restart
  <2>2. UNCHANGED <<now, password, changedAt, jwts, asked>>
    BY <1>6 DEF Restart, account
  <2> QED BY <1>0, <1>n, <2>1, <2>2, TokenStutter
<1>7. CASE UNCHANGED vars
  <2>1. UNCHANGED <<now, handler, password, changedAt, jwts, asked>>
    BY <1>7 DEF vars, account
  <2> QED BY <1>0, <1>n, <2>1, TokenStutter
<1> QED BY <1>1, <1>4, <1>5, <1>6, <1>7 DEF Next

\* Whoever logged in with the current password is let in.
THEOREM NewTokensAlways == Spec => []NewTokensAccepted
<1>1. TokenInv => NewTokensAccepted
  BY DEF TokenInv, Fresh, NewTokensAccepted, Accepted
<1> QED BY <1>1, TokenInit, TokenStep, PTL DEF Spec

\* A token for an earlier password that is still accepted was signed no earlier
\* than the second in which the last change was asked for.
THEOREM OldTokensAlways == Spec => []OldTokensRejected
<1>1. ASSUME TokenInv PROVE OldTokensRejected
  <2> SUFFICES ASSUME NEW t \in jwts, Accepted(t), t.password # password
               PROVE  t.iat >= Second(asked)
    BY DEF OldTokensRejected
  <2>1. t.password \in Nat /\ t.iat \in Nat /\ t.password <= password
    BY <1>1 DEF TokenInv, Past, Types, Jwts
  <2>2. changedAt # Never
    BY <1>1, <2>1 DEF TokenInv, Past, Types
  <2>3. changedAt \in Nat /\ asked \in Nat \cup {Never} /\ asked <= changedAt
    BY <1>1, <2>2 DEF TokenInv, Past, Types
  <2>4. Second(asked) <= Second(changedAt) /\ Second(asked) \in Int /\ Second(changedAt) \in Int
    BY <2>3 DEF Second, Never
  <2> QED BY <2>1, <2>2, <2>4 DEF Accepted
<1> QED BY <1>1, TokenInit, TokenStep, PTL DEF Spec

-----------------------------------------------------------------------------
(* The bound on passwords: each handler that may set one has room for it.  *)

WriterPcs == {"changeRead", "changeWrite", "resetBegin", "resetSelect", "resetCommit"}

Room == Types /\ now <= Horizon /\ password + Cardinality(Writers) <= MaxPasswords

\* Where no password is set and no handler becomes a writer, the room stays.
LEMMA RoomStays ==
  ASSUME IsFiniteSet(Requests), Room, Types', now' <= Horizon, password' = password,
         Writers' \subseteq Writers
  PROVE  Room'
<1>1. IsFiniteSet(Writers)
  BY FS_Subset DEF Writers
<1>2. IsFiniteSet(Writers') /\ Cardinality(Writers') <= Cardinality(Writers)
  BY <1>1, FS_Subset
<1>3. Cardinality(Writers) \in Nat /\ Cardinality(Writers') \in Nat
  BY <1>1, <1>2, FS_CardinalityType
<1> QED BY <1>2, <1>3, BoundsAssumption DEF Room, Types

LEMMA RoomArrive ==
  ASSUME IsFiniteSet(Requests), Room, Types', NEW r \in Requests, NEW pc \in Pcs, NEW guess, NEW link,
         Arrive(r, pc, guess, link), pc \in WriterPcs => password + Cardinality(Writers) < MaxPasswords
  PROVE  Room'
<1>1. /\ UNCHANGED <<now, password>>
      /\ handler'[r].pc = pc /\ \A s \in Requests : s # r => handler'[s] = handler[s]
  BY DEF Room, Types, Arrive, account
<1>2. CASE pc \notin WriterPcs
  <2>1. Writers' \subseteq Writers
    BY <1>1, <1>2 DEF Writers, WriterPcs
  <2> QED BY <1>1, <2>1, RoomStays DEF Room
<1>3. CASE pc \in WriterPcs
  <2>1. Writers' \subseteq Writers \cup {r}
    BY <1>1 DEF Writers
  <2>2. IsFiniteSet(Writers)
    BY FS_Subset DEF Writers
  <2>3. IsFiniteSet(Writers \cup {r}) /\ Cardinality(Writers \cup {r}) <= Cardinality(Writers) + 1
    <3>1. Cardinality(Writers) \in Nat
      BY <2>2, FS_CardinalityType
    <3>2. /\ IsFiniteSet(Writers \cup {r})
          /\ \/ Cardinality(Writers \cup {r}) = Cardinality(Writers)
             \/ Cardinality(Writers \cup {r}) = Cardinality(Writers) + 1
      BY <2>2, FS_AddElement
    <3> QED BY <3>1, <3>2
  <2>4. Cardinality(Writers') <= Cardinality(Writers \cup {r}) /\ IsFiniteSet(Writers')
    BY <2>1, <2>3, FS_Subset
  <2>5. /\ Cardinality(Writers) \in Nat /\ Cardinality(Writers') \in Nat
        /\ Cardinality(Writers \cup {r}) \in Nat
    BY <2>2, <2>3, <2>4, FS_CardinalityType
  <2> QED BY <1>1, <1>3, <2>3, <2>4, <2>5, BoundsAssumption DEF Room, Types
<1> QED BY <1>2, <1>3

LEMMA RoomSet ==
  ASSUME IsFiniteSet(Requests), Room, Types', NEW r \in Requests, NEW at, SetPassword(r, at), Finish(r),
         handler[r].pc \in WriterPcs, UNCHANGED now
  PROVE  Room'
<1>1. Writers' \subseteq Writers \ {r}
  BY DEF Room, Types, Finish, Idle, Writers
<1>2. IsFiniteSet(Writers) /\ r \in Writers
  BY FS_Subset DEF Writers, WriterPcs
<1>3. IsFiniteSet(Writers \ {r}) /\ Cardinality(Writers \ {r}) = Cardinality(Writers) - 1
  BY <1>2, FS_RemoveElement
<1>4. IsFiniteSet(Writers') /\ Cardinality(Writers') <= Cardinality(Writers) - 1
  BY <1>1, <1>3, FS_Subset
<1>5. Cardinality(Writers) \in Nat /\ Cardinality(Writers') \in Nat
  BY <1>2, <1>4, FS_CardinalityType
<1>6. password' <= password + 1 /\ password' \in Nat
  BY DEF SetPassword, Room, Types
<1> QED BY <1>4, <1>5, <1>6, BoundsAssumption DEF Room, Types

LEMMA RoomInit == ASSUME Init PROVE Room
<1>1. Writers = {}
  BY DEF Init, Writers, Idle
<1> QED BY <1>1, TypesInit, FS_EmptySet, BoundsAssumption DEF Room, Init

LEMMA RoomStep == ASSUME IsFiniteSet(Requests), Room, [Next]_vars PROVE Room'
<1>0. Types /\ Types'
  BY TypesStep DEF Room
<1>1. ASSUME NEW r \in Requests, Request(r) PROVE Room'
  <2>1. CASE LoginRequest(r)
    <3>1. PICK p \in 0..password : Arrive(r, "loginRead", p, NoToken)
      BY <2>1 DEF LoginRequest
    <3> QED BY <1>0, <3>1, RoomArrive DEF Pcs, WriterPcs
  <2>2. CASE ForgotRequest(r)
    BY <1>0, <2>2, RoomArrive DEF ForgotRequest, Pcs, WriterPcs
  <2>3. CASE ResetRequest(r)
    <3>1. PICK x \in ResetTokens : Arrive(r, "resetBegin", 0, x)
      BY <2>3 DEF ResetRequest
    <3> QED BY <1>0, <2>3, <3>1, RoomArrive DEF Pcs, ResetRequest
  <2>4. CASE ChangeRequest(r)
    <3>1. PICK p \in 0..password : Arrive(r, "changeRead", p, NoToken)
      BY <2>4 DEF ChangeRequest
    <3> QED BY <1>0, <2>4, <3>1, RoomArrive DEF Pcs, ChangeRequest
  <2>5. CASE DeleteRequest(r)
    <3>1. PICK p \in 0..password : Arrive(r, "deleteRead", p, NoToken)
      BY <2>5 DEF DeleteRequest
    <3> QED BY <1>0, <3>1, RoomArrive DEF Pcs, WriterPcs
  <2> QED BY <1>1, <2>1, <2>2, <2>3, <2>4, <2>5 DEF Request
<1>2. ASSUME NEW r \in Requests, Finish(r), UNCHANGED <<now, password>> PROVE Room'
  <2>1. Writers' \subseteq Writers
    BY <1>0, <1>2 DEF Finish, Idle, Writers, Types
  <2> QED BY <1>0, <1>2, <2>1, RoomStays DEF Room
<1>3. ASSUME NEW r \in Requests, NEW pc \in Pcs, Goto(r, pc), pc \in WriterPcs => r \in Writers,
             UNCHANGED <<now, password>>
      PROVE  Room'
  <2>1. handler'[r].pc = pc /\ \A s \in Requests : s # r => handler'[s] = handler[s]
    BY <1>0, <1>3 DEF Goto, Types, Handlers
  <2>2. Writers' \subseteq Writers
    BY <1>3, <2>1 DEF Writers, WriterPcs
  <2> QED BY <1>0, <1>3, <2>2, RoomStays DEF Room
<1>4. ASSUME NEW r \in Requests, Handle(r) PROVE Room'
  <2>1. CASE LoginRead(r) \/ ChangeRead(r) \/ DeleteRead(r)
    BY <2>1, <1>2, <1>3
    DEF LoginRead, ChangeRead, DeleteRead, VerifyPassword, account, Pcs, WriterPcs, Writers
  <2>2. CASE LoginSign(r) \/ ForgotInsert(r) \/ DeleteUser(r) \/ HandlerFails(r)
    BY <2>2, <1>2 DEF LoginSign, ForgotInsert, DeleteUser, HandlerFails, account
  <2>3. CASE ChangeWrite(r)
    BY <1>0, <2>3, RoomSet DEF ChangeWrite, WriterPcs
  <2>4. CASE ResetBegin(r)
    <3>1. /\ handler[r].pc = "resetBegin" /\ UNCHANGED <<now, password>>
          /\ \A s \in Requests : s # r => handler'[s] = handler[s]
      BY <1>0, <2>4 DEF ResetBegin, Types, account
    <3>2. Writers' \subseteq Writers
      BY <3>1 DEF Writers
    <3> QED BY <1>0, <3>1, <3>2, RoomStays DEF Room
  <2>5. CASE ResetSelect(r)
    BY <2>5, <1>2, <1>3 DEF ResetSelect, account, Pcs, Writers
  <2>6. CASE ResetCommit(r)
    BY <1>0, <2>6, RoomSet DEF ResetCommit, WriterPcs
  <2> QED BY <1>4, <2>1, <2>2, <2>3, <2>4, <2>5, <2>6 DEF Handle
<1>5. CASE Tick
  <2>1. now' <= Horizon /\ UNCHANGED <<password, handler>>
    BY <1>0, <1>5, BoundsAssumption DEF Tick, account, Types
  <2> QED BY <1>0, <2>1, RoomStays DEF Writers
<1>6. CASE Restart
  <2>1. Writers' \subseteq Writers /\ UNCHANGED <<now, password>>
    BY <1>6 DEF Restart, Idle, Writers, account
  <2> QED BY <1>0, <2>1, RoomStays DEF Room
<1>7. CASE UNCHANGED vars
  <2>1. UNCHANGED <<now, password, handler>>
    BY <1>7 DEF vars, account
  <2> QED BY <1>0, <2>1, RoomStays DEF Room, Writers
<1> QED BY <1>1, <1>4, <1>5, <1>6, <1>7 DEF Next

\* With finitely many handlers in flight the model keeps its types and bounds.
THEOREM TypeCorrect == ASSUME IsFiniteSet(Requests) PROVE Spec => []TypeOK
<1>1. Init => Room
  BY RoomInit
<1>2. Room /\ [Next]_vars => Room'
  BY RoomStep
<1>3. ASSUME Room PROVE TypeOK
  <2>1. Cardinality(Writers) \in Nat
    BY FS_Subset, FS_CardinalityType DEF Writers
  <2> QED BY <1>3, <2>1, BoundsAssumption DEF Room, Types, TypeOK, Handlers
<1> QED BY <1>1, <1>2, <1>3, PTL DEF Spec
=============================================================================
