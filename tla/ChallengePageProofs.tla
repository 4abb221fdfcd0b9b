------------------------ MODULE ChallengePageProofs ------------------------
(***************************************************************************)
(* The challenge page keeps what it promises about its session, its ticket *)
(* requests and its terminal, for any number of challenges, rows, retries  *)
(* and forgotten timers.                                                   *)
(*                                                                         *)
(* The facts about one page value are collected in Sound, so that a lemma  *)
(* about the effects (Resumed, Repaned, Commit) serves every action that   *)
(* ends in them.                                                           *)
(***************************************************************************)
EXTENDS ChallengePage, TLAPS

PageType ==
  [slug : Slugs, session : SessionOrNone, active : {Unknown} \cup SessionOrNone,
   stopping : BOOLEAN, stopped : SUBSET Ids, attempts : 0 .. MaxAttempts,
   timer : SessionOrNone, stray : SUBSET Ids,
   refresh : [id : SessionOrNone, why : {"none", "resume", "manual", "auto"}],
   resuming : {"no", "asked", "lost"}, status : {"connecting", "connected", "disconnected"},
   sock : {"none", "connecting", "open", "closed"},
   closing : 0 .. MaxClosing, over : BOOLEAN]

\* A ticket request names its session; a resume is waited for, and nothing else.
Asking(p) ==
  /\ p.refresh = NoRequest \/ (p.refresh.id \in Ids /\ p.refresh.why # "none")
  /\ p.resuming = "asked" <=> p.refresh.why = "resume"

\* A drop is being retried or has come to its end.
Handled(p) == p.timer # None \/ p.refresh # NoRequest \/ p.over

\* The pane has a socket exactly while it is mounted.
Sound(p) ==
  /\ p \in PageType /\ Asking(p)
  /\ p.sock # "none" <=> Shown(p)
  /\ p.sock = "closed" /\ ~p.stopping => Handled(p)

RowType == [Ids -> [status : {"none", "running", "ended"}, slug : Slugs \cup {None}]]

\* While the answer to a stop is due on the page that asked, the page shows a
\* session and remembers the stopped one, so that it cannot begin to resume it.
Stopping ==
  /\ stop.phase # "none" => stop.id \in Ids
  /\ stop.here => /\ stop.phase # "none" /\ stop.id \in page.stopped
                  /\ page.session # None /\ page.refresh.why # "resume"

PageInv ==
  /\ TypeOK /\ Sound(page) /\ Stopping
  /\ start.phase = "sent" => start.slug \in Slugs
  /\ start.phase = "ok" => start.id \in Ids

LEMMA TypeSplit ==
  TypeOK <=> /\ row \in RowType /\ page \in PageType
             /\ start \in [phase : {"none", "sent", "ok"}, id : SessionOrNone,
                           slug : Slugs \cup {None}]
             /\ stop \in [phase : {"none", "sent", "ok"}, id : SessionOrNone, here : BOOLEAN]
BY DEF TypeOK, RowType, PageType

LEMMA NoneNoId == None \notin Ids /\ Unknown \notin Ids /\ None # Unknown
BY NoneAssumption DEF Ids

-----------------------------------------------------------------------------
(* The effects.                                                            *)

\* The effect that resumes asks for a ticket or leaves the page alone.
LEMMA ResumedFacts ==
  ASSUME NEW q \in PageType, Asking(q)
  PROVE  LET r == Resumed(q) IN
         /\ r \in PageType /\ Asking(r)
         /\ r = q \/ /\ q.session = None /\ q.active \notin q.stopped
                     /\ r = [q EXCEPT !.resuming = "asked",
                                      !.refresh = AskTicket(q.active, "resume")]
<1>1. CASE Resumed(q) = q
  BY <1>1
<1>2. CASE Resumed(q) # q
  <2>1. /\ q.active \in Ids /\ q.session = None /\ q.refresh = NoRequest
        /\ q.active \notin q.stopped
        /\ Resumed(q) = [q EXCEPT !.resuming = "asked",
                                  !.refresh = AskTicket(q.active, "resume")]
    BY <1>2 DEF Resumed
  <2>2. AskTicket(q.active, "resume") \in [id : SessionOrNone, why : {"none", "resume", "manual", "auto"}]
    BY <2>1 DEF AskTicket, SessionOrNone
  <2>3. Resumed(q) \in PageType
    BY <2>1, <2>2 DEF PageType
  <2>4. Asking(Resumed(q))
    BY <2>1 DEF PageType, Asking, AskTicket
  <2> QED
    BY <2>1, <2>3, <2>4
<1> QED
  BY <1>1, <1>2

\* The pane closes or opens its socket; what else the page holds stays.
LEMMA RepanedFacts ==
  ASSUME NEW p, NEW q \in PageType, NEW ticket \in BOOLEAN, Asking(q),
         p.sock # "none" <=> Shown(p), q.sock = p.sock,
         Shown(p) /\ Shown(q) /\ ~ticket /\ q.sock = "closed" /\ ~q.stopping => Handled(q)
  PROVE  LET r == Repaned(p, q, ticket) IN
         /\ Sound(r)
         /\ r.session = q.session /\ r.stopped = q.stopped /\ r.refresh = q.refresh
<1> DEFINE r == Repaned(p, q, ticket)
           opens == Shown(q) /\ (~Shown(p) \/ ticket)
           closes == p.sock \in {"connecting", "open"} /\ (opens \/ ~Shown(q))
<1>1. /\ r.closing = IF closes /\ q.closing < MaxClosing THEN q.closing + 1 ELSE q.closing
      /\ r.sock = IF opens THEN "connecting" ELSE IF Shown(q) THEN q.sock ELSE "none"
      /\ r.status = IF opens \/ ~Shown(q) THEN "connecting" ELSE q.status
      /\ r.over = (q.over /\ ~opens /\ Shown(q))
      /\ r = [q EXCEPT !.closing = r.closing, !.sock = r.sock, !.status = r.status,
                       !.over = r.over]
  BY DEF Repaned, PageType
<1>2. r.closing \in 0 .. MaxClosing
  BY <1>1, BoundsAssumption DEF PageType
<1>3. /\ r.sock \in {"none", "connecting", "open", "closed"}
      /\ r.status \in {"connecting", "connected", "disconnected"} /\ r.over \in BOOLEAN
  BY <1>1 DEF PageType
<1>4. r \in PageType
  BY <1>1, <1>2, <1>3 DEF PageType
<1>5. /\ r.session = q.session /\ r.stopped = q.stopped /\ r.refresh = q.refresh
      /\ r.resuming = q.resuming /\ r.active = q.active /\ r.stopping = q.stopping
      /\ r.timer = q.timer
  BY <1>1 DEF PageType
<1>6. Shown(r) <=> Shown(q)
  BY <1>5 DEF Shown, Checking
<1>7. r.sock # "none" <=> Shown(r)
  BY <1>1, <1>6 DEF PageType
<1>8. r.sock = "closed" /\ ~r.stopping => Handled(r)
  BY <1>1, <1>5 DEF Handled
<1> HIDE DEF r
<1>9. Sound(r)
  BY <1>4, <1>5, <1>7, <1>8 DEF Sound, Asking
<1> QED
  BY <1>5, <1>9 DEF r

\* The session that the effect begins to resume, if it begins to, is not one
\* that the page remembers as stopped.
Begun(q, r) ==
  /\ r.session = q.session /\ r.stopped = q.stopped
  /\ r.refresh = q.refresh \/ /\ q.session = None /\ q.active \notin q.stopped
                              /\ r.refresh = AskTicket(q.active, "resume")

LEMMA ResumedRepaned ==
  ASSUME Sound(page), NEW q \in PageType, NEW ticket \in BOOLEAN, Asking(q),
         q.sock = page.sock,
         Shown(page) /\ Shown(q) /\ ~ticket /\ q.sock = "closed" /\ ~q.stopping => Handled(q)
  PROVE  /\ Sound(Repaned(page, q, ticket)) /\ Begun(q, Repaned(page, q, ticket))
         /\ Sound(Repaned(page, Resumed(q), ticket))
         /\ Begun(q, Repaned(page, Resumed(q), ticket))
<1>1. page.sock # "none" <=> Shown(page)
  BY DEF Sound
<1>2. Sound(Repaned(page, q, ticket)) /\ Begun(q, Repaned(page, q, ticket))
  BY <1>1, RepanedFacts DEF Begun
<1>3. CASE Resumed(q) = q
  BY <1>2, <1>3
<1>4. CASE Resumed(q) # q
  <2>1. ASSUME NEW r, r = Resumed(q)
        PROVE  Sound(Repaned(page, r, ticket)) /\ Begun(q, Repaned(page, r, ticket))
    <3>0. r \in PageType /\ Asking(r)
      BY <2>1, ResumedFacts
    <3>1. /\ q.session = None /\ q.active \notin q.stopped
          /\ r = [q EXCEPT !.resuming = "asked", !.refresh = AskTicket(q.active, "resume")]
      BY <1>4, <2>1, ResumedFacts
    <3>2. /\ r.session = None /\ r.stopped = q.stopped /\ r.sock = page.sock
          /\ r.refresh = AskTicket(q.active, "resume")
      BY <3>1 DEF PageType
    <3>3. ~Shown(r)
      BY <3>2 DEF Shown
    <3> DEFINE x == Repaned(page, r, ticket)
    <3>4. Sound(x) /\ x.session = r.session /\ x.stopped = r.stopped /\ x.refresh = r.refresh
      BY <1>1, <3>0, <3>2, <3>3, RepanedFacts
    <3> QED
      BY <3>1, <3>2, <3>4 DEF Begun
  <2> QED
    BY <1>2, <2>1
<1> QED
  BY <1>3, <1>4

LEMMA CommitFacts ==
  ASSUME Sound(page), NEW q \in PageType, NEW ticket \in BOOLEAN, Asking(q),
         q.sock = page.sock, Commit(q, ticket),
         Shown(page) /\ Shown(q) /\ ~ticket /\ q.sock = "closed" /\ ~q.stopping => Handled(q)
  PROVE  Sound(page') /\ Begun(q, page')
BY ResumedRepaned DEF Commit

-----------------------------------------------------------------------------
LEMMA InitPage == Init => PageInv
<1> SUFFICES ASSUME Init
             PROVE  PageInv
  OBVIOUS
<1>1. row \in RowType
  <2>1. PICK r \in {NoRow} \cup RunningRow : row = [i \in Ids |-> IF i = 1 THEN r ELSE NoRow]
    BY DEF Init
  <2>2. {r, NoRow} \subseteq [status : {"none", "running", "ended"}, slug : Slugs \cup {None}]
    BY DEF NoRow, RunningRow
  <2> QED
    BY <2>1, <2>2 DEF RowType
<1>2. /\ start \in [phase : {"none", "sent", "ok"}, id : SessionOrNone, slug : Slugs \cup {None}]
      /\ stop \in [phase : {"none", "sent", "ok"}, id : SessionOrNone, here : BOOLEAN]
      /\ start.phase = "none" /\ stop.phase = "none" /\ ~stop.here
  <2>1. start = NoStart /\ stop = NoStop
    BY DEF Init
  <2> QED
    BY <2>1 DEF NoStart, NoStop, SessionOrNone
<1>3. ASSUME NEW s \in Slugs, NEW p, p = Mounted(s) \/ p = [Mounted(s) EXCEPT !.active = 1]
      PROVE  p \in PageType /\ Sound(p) /\ p.session = None /\ p.sock = "none"
  <2>1. 0 \in 0 .. MaxAttempts /\ 0 \in 0 .. MaxClosing /\ 1 \in Ids
    BY BoundsAssumption, NumSessionsAssumption DEF Ids
  <2>2. NoRequest \in [id : SessionOrNone, why : {"none", "resume", "manual", "auto"}]
    BY DEF NoRequest, SessionOrNone
  <2>3. p \in PageType
    <3>1. Mounted(s) \in PageType
      BY <2>1, <2>2 DEF Mounted, PageType, SessionOrNone
    <3>2. [Mounted(s) EXCEPT !.active = 1] \in PageType
      BY <2>1, <3>1 DEF PageType, SessionOrNone
    <3> QED
      BY <1>3, <3>1, <3>2
  <2>4. /\ p.session = None /\ p.sock = "none" /\ p.resuming = "no" /\ p.refresh = NoRequest
    BY <1>3 DEF Mounted
  <2>5. Asking(p)
    <3>1. p.refresh.why = "none"
      BY <2>4 DEF NoRequest
    <3> QED
      BY <2>4, <3>1 DEF Asking
  <2> QED
    BY <2>3, <2>4, <2>5 DEF Sound, Shown
<1>5. Sound(page)
  <2>1. CASE \E s \in Slugs : page = Mounted(s)
    BY <1>3, <2>1
  <2>2. CASE page \in Continued
    <3>1. /\ 1 \in Ids /\ row[1].slug \in Slugs
          /\ page = Resumed([Mounted(row[1].slug) EXCEPT !.active = 1])
      BY <2>2, NumSessionsAssumption DEF Continued, ActiveRow, Init, NoRow, RunningRow, Ids
    <3>2. PICK p : p = [Mounted(row[1].slug) EXCEPT !.active = 1]
      OBVIOUS
    <3>3. p \in PageType /\ Sound(p) /\ p.session = None /\ p.sock = "none"
      BY <1>3, <3>1, <3>2
    <3>4. /\ page \in PageType /\ Asking(page)
          /\ page = p \/ page = [p EXCEPT !.resuming = "asked",
                                          !.refresh = AskTicket(p.active, "resume")]
      BY <3>1, <3>2, <3>3, ResumedFacts DEF Sound
    <3>5. page.session = None /\ page.sock = "none"
      BY <3>3, <3>4 DEF PageType
    <3> QED
      BY <3>4, <3>5 DEF Sound, Shown
  <2> QED
    BY <2>1, <2>2 DEF Init
<1> QED
  BY <1>1, <1>2, <1>5, TypeSplit DEF PageInv, Stopping, Sound

-----------------------------------------------------------------------------
(* The page through every event.                                           *)

\* What a stop that is under way has to remember survives a page that keeps its
\* session and its memory, and begins no resume but of another session.
LEMMA StoppingKept ==
  ASSUME PageInv, UNCHANGED stop, NEW q, Begun(q, page'),
         page.session # None => q.session # None,
         page.stopped \subseteq q.stopped, q.refresh = page.refresh \/ q.refresh.why # "resume"
  PROVE  Stopping'
BY DEF PageInv, Stopping, Begun

LEMMA UserStep ==
  ASSUME PageInv, UserActs
  PROVE  Sound(page)' /\ Stopping'
<1>0. /\ page \in PageType /\ Asking(page) /\ Stopping /\ None \notin Ids
      /\ page.sock # "none" <=> Shown(page)
      /\ page.sock = "closed" /\ ~page.stopping => Handled(page)
  BY NoneNoId DEF PageInv, Sound
<1>1. CASE Start
  <2>1. page.session = None /\ page' = [page EXCEPT !.stopping = FALSE] /\ UNCHANGED stop
    BY <1>1 DEF Start, CanStart
  <2>2. /\ page' \in PageType /\ page'.session = None /\ page'.sock = page.sock
        /\ page'.refresh = page.refresh /\ page'.resuming = page.resuming
        /\ page'.stopped = page.stopped
    BY <1>0, <2>1 DEF PageType
  <2>3. page.sock = "none"
    BY <1>0, <2>1 DEF Shown
  <2>4. Sound(page)'
    BY <1>0, <2>1, <2>2, <2>3 DEF Sound, Asking, Shown
  <2> QED
    BY <1>0, <2>1, <2>2, <2>4 DEF Stopping
<1>2. CASE Stop
  <2>1. /\ Shown(page) /\ page.session \in Ids /\ page.resuming = "no"
        /\ stop' = [phase |-> "sent", id |-> page.session, here |-> TRUE]
        /\ page' = [page EXCEPT !.stopping = TRUE, !.stopped = @ \cup {page.session},
                                !.timer = None, !.attempts = 0]
    BY <1>0, <1>2 DEF Stop, CanStop, Shown, Checking, PageType, SessionOrNone
  <2>2. 0 \in 0 .. MaxAttempts /\ None \in SessionOrNone
    BY BoundsAssumption DEF SessionOrNone
  <2>3. page' \in PageType
    BY <1>0, <2>1, <2>2 DEF PageType
  <2>4. /\ page'.session = page.session /\ page'.sock = page.sock /\ page'.active = page.active
        /\ page'.refresh = page.refresh /\ page'.resuming = page.resuming
        /\ page'.stopped = page.stopped \cup {page.session} /\ page'.stopping
    BY <1>0, <2>1 DEF PageType
  <2>5. Sound(page)'
    BY <1>0, <2>3, <2>4 DEF Sound, Asking, Shown, Checking
  <2>6. page.refresh.why # "resume"
    BY <1>0, <2>1 DEF Asking
  <2> QED
    BY <1>0, <2>1, <2>4, <2>5, <2>6 DEF Stopping
<1>3. CASE Reconnect
  <2>1. /\ Shown(page) /\ page.session \in Ids /\ page.resuming = "no"
        /\ page' = [page EXCEPT !.refresh = AskTicket(page.session, "manual")]
        /\ UNCHANGED stop
    BY <1>0, <1>3 DEF Reconnect, CanReconnect, Shown, Checking, PageType, SessionOrNone
  <2>2. /\ AskTicket(page.session, "manual")
             \in [id : SessionOrNone, why : {"none", "resume", "manual", "auto"}]
        /\ AskTicket(page.session, "manual").id = page.session
        /\ AskTicket(page.session, "manual").why = "manual"
    BY <2>1 DEF AskTicket, SessionOrNone
  <2>3. page' \in PageType
    BY <1>0, <2>1, <2>2 DEF PageType
  <2>4. /\ page'.session = page.session /\ page'.sock = page.sock /\ page'.active = page.active
        /\ page'.refresh = AskTicket(page.session, "manual") /\ page'.resuming = "no"
        /\ page'.stopped = page.stopped /\ page'.stopping = page.stopping
    BY <1>0, <2>1 DEF PageType
  <2>5. page'.refresh # NoRequest
    BY <2>1, <2>2, <2>4 DEF NoRequest
  <2>6. Sound(page)'
    BY <1>0, <2>1, <2>2, <2>3, <2>4, <2>5 DEF Sound, Asking, Handled, Shown, Checking
  <2> QED
    BY <1>0, <2>1, <2>2, <2>4, <2>6 DEF Stopping
<1>4. ASSUME NEW s \in Slugs, Navigate(s)  PROVE Sound(page)' /\ Stopping'
  <2> DEFINE q == [page EXCEPT !.slug = s, !.session = None, !.stopping = FALSE,
                               !.stopped = {}, !.attempts = 0, !.timer = None]
  <2>1. 0 \in 0 .. MaxAttempts /\ None \in SessionOrNone
    BY BoundsAssumption DEF SessionOrNone
  <2>2. q \in PageType /\ q.session = None /\ q.sock = page.sock
        /\ q.refresh = page.refresh /\ q.resuming = page.resuming
    BY <1>0, <2>1 DEF PageType
  <2>3. Commit(q, FALSE) /\ stop' = [stop EXCEPT !.here = FALSE]
    BY <1>4 DEF Navigate
  <2> HIDE DEF q
  <2>4. Asking(q) /\ ~Shown(q)
    BY <1>0, <2>2 DEF Asking, Shown
  <2>5. Sound(page)'
    BY <2>2, <2>3, <2>4, CommitFacts DEF PageInv
  <2>6. stop'.phase = stop.phase /\ stop'.id = stop.id /\ ~stop'.here
    BY <2>3, TypeSplit DEF PageInv
  <2> QED
    BY <1>0, <2>5, <2>6 DEF Stopping
<1> QED
  BY <1>1, <1>2, <1>3, <1>4 DEF UserActs

\* The answers that change the page and nothing else the properties need.
LEMMA AnswerStep ==
  ASSUME PageInv, Answers
  PROVE  Sound(page)' /\ Stopping'
<1>0. /\ page \in PageType /\ Asking(page) /\ Stopping /\ None \notin Ids /\ Sound(page)
      /\ page.sock # "none" <=> Shown(page)
      /\ page.sock = "closed" /\ ~page.stopping => Handled(page)
  BY NoneNoId DEF PageInv, Sound
\* An attempt comes to its end: over is what the pane's mounting says.
<1>1. ASSUME NEW p \in PageType, Asking(p), p.sock = page.sock, p.session = page.session,
             p.active = page.active, p.resuming = page.resuming, page' = Over(p)
      PROVE  /\ Sound(page)' /\ page'.session = p.session /\ page'.stopped = p.stopped
             /\ page'.refresh = p.refresh
  <2>1. /\ page' \in PageType /\ page'.over = Shown(p) /\ page'.sock = p.sock
        /\ page'.session = p.session /\ page'.active = p.active /\ page'.resuming = p.resuming
        /\ page'.refresh = p.refresh /\ page'.stopped = p.stopped
    BY <1>1 DEF Over, PageType, Shown
  <2>2. Shown(p) = Shown(page)
    BY <1>1 DEF Shown, Checking
  <2>3. Shown(page)' = Shown(p)
    BY <2>1 DEF Shown, Checking
  <2> QED
    BY <1>0, <1>1, <2>1, <2>2, <2>3 DEF Sound, Asking, Handled
<1>2. CASE Started
  <2> DEFINE q == [page EXCEPT !.session = start.id]
  <2>1. start.id \in Ids /\ Commit(q, TRUE) /\ UNCHANGED stop
    BY <1>2 DEF Started, PageInv
  <2>2. /\ q \in PageType /\ q.session = start.id /\ q.sock = page.sock
        /\ q.refresh = page.refresh /\ q.resuming = page.resuming /\ q.stopped = page.stopped
    BY <1>0, <2>1 DEF PageType, SessionOrNone
  <2> HIDE DEF q
  <2>3. Asking(q)
    BY <1>0, <2>2 DEF Asking
  <2>4. Sound(page)' /\ Begun(q, page')
    BY <1>0, <2>1, <2>2, <2>3, CommitFacts
  <2> QED
    BY <1>0, <2>1, <2>2, <2>4, StoppingKept
<1>3. CASE StartFails
  BY <1>0, <1>3 DEF StartFails, Stopping
<1>4. CASE Stopped
  <2> DEFINE q == [page EXCEPT !.session = None]
  <2>1. Commit(q, FALSE) /\ stop' = NoStop
    BY <1>4 DEF Stopped
  <2>2. /\ q \in PageType /\ q.session = None /\ q.sock = page.sock
        /\ q.refresh = page.refresh /\ q.resuming = page.resuming
    BY <1>0 DEF PageType, SessionOrNone
  <2> HIDE DEF q
  <2>3. Asking(q) /\ ~Shown(q)
    BY <1>0, <2>2 DEF Asking, Shown
  <2>4. Sound(page)'
    BY <1>0, <2>1, <2>2, <2>3, CommitFacts
  <2> QED
    BY <2>1, <2>4 DEF Stopping, NoStop
<1>5. CASE StopFails
  <2> DEFINE q == [page EXCEPT !.stopping = FALSE]
  <2>1. page' = Over(q) /\ stop' = NoStop
    BY <1>5 DEF StopFails
  <2>2. /\ q \in PageType /\ q.sock = page.sock /\ q.session = page.session
        /\ q.active = page.active /\ q.resuming = page.resuming /\ q.refresh = page.refresh
    BY <1>0 DEF PageType
  <2> HIDE DEF q
  <2>3. Asking(q)
    BY <1>0, <2>2 DEF Asking
  <2>4. Sound(page)'
    BY <1>1, <2>1, <2>2, <2>3
  <2> QED
    BY <2>1, <2>4 DEF Stopping, NoStop
<1>6. CASE Refetch
  <2>1. PICK a \in {None} \cup Ids :
          page' = Repaned(page, Resumed([page EXCEPT !.active = a]), FALSE)
    BY <1>6 DEF Refetch
  <2> DEFINE q == [page EXCEPT !.active = a]
  <2>2. /\ q \in PageType /\ q.sock = page.sock /\ q.session = page.session
        /\ q.stopping = page.stopping /\ q.resuming = page.resuming /\ q.timer = page.timer
        /\ q.refresh = page.refresh /\ q.stopped = page.stopped /\ q.over = page.over
    BY <1>0 DEF PageType, SessionOrNone
  <2>3. page' = Repaned(page, Resumed(q), FALSE) /\ UNCHANGED stop
    BY <1>6, <2>1 DEF Refetch
  <2> HIDE DEF q
  <2>4. Asking(q) /\ (q.sock = "closed" /\ ~q.stopping => Handled(q))
    BY <1>0, <2>2 DEF Asking, Handled
  <2>5. Sound(page)' /\ Begun(q, page')
    BY <1>0, <2>2, <2>3, <2>4, ResumedRepaned
  <2> QED
    BY <1>0, <2>2, <2>3, <2>5, StoppingKept
<1>7. CASE RefetchFails
  <2> DEFINE q == [page EXCEPT !.active = None]
  <2>1. Commit(q, FALSE) /\ UNCHANGED stop
    BY <1>7 DEF RefetchFails
  <2>2. /\ q \in PageType /\ q.sock = page.sock /\ q.session = page.session
        /\ q.stopping = page.stopping /\ q.resuming = page.resuming /\ q.timer = page.timer
        /\ q.refresh = page.refresh /\ q.stopped = page.stopped /\ q.over = page.over
    BY <1>0 DEF PageType, SessionOrNone
  <2> HIDE DEF q
  <2>3. Asking(q) /\ (q.sock = "closed" /\ ~q.stopping => Handled(q))
    BY <1>0, <2>2 DEF Asking, Handled
  <2>4. Sound(page)' /\ Begun(q, page')
    BY <1>0, <2>1, <2>2, <2>3, CommitFacts
  <2> QED
    BY <1>0, <2>1, <2>2, <2>4, StoppingKept
<1> HIDE DEF Stopping
<1>8. NoRequest \in [id : SessionOrNone, why : {"none", "resume", "manual", "auto"}]
      /\ NoRequest.why = "none"
  BY DEF NoRequest, SessionOrNone
<1>9. CASE TicketGranted
  <2> DEFINE q == [page EXCEPT !.refresh = NoRequest]
  <2>1. page.refresh.id \in Ids /\ UNCHANGED stop
    BY <1>0, <1>9 DEF TicketGranted, Asking
  <2>2. /\ q \in PageType /\ q.session = page.session /\ q.sock = page.sock
        /\ q.refresh = NoRequest /\ q.resuming = page.resuming /\ q.stopped = page.stopped
        /\ q.active = page.active
    BY <1>0, <1>8 DEF PageType
  <2>3. CASE page.refresh.why = "resume"
    <3> DEFINE z == [q EXCEPT !.session = page.refresh.id, !.resuming = "no"]
    <3>1. Commit(z, TRUE)
      BY <1>9, <2>3 DEF TicketGranted
    <3>2. /\ z \in PageType /\ z.session = page.refresh.id /\ z.sock = page.sock
          /\ z.refresh = NoRequest /\ z.resuming = "no" /\ z.stopped = page.stopped
      BY <2>1, <2>2 DEF PageType, SessionOrNone
    <3> HIDE DEF z
    <3>3. Asking(z)
      BY <1>8, <3>2 DEF Asking
    <3>4. Sound(page)' /\ Begun(z, page')
      BY <1>0, <3>1, <3>2, <3>3, CommitFacts
    <3> QED
      BY <1>0, <1>8, <2>1, <3>2, <3>4, StoppingKept
  <2>4. CASE page.refresh.why # "resume" /\ page.session = None
    <3>1. page' = q
      BY <1>9, <2>4 DEF TicketGranted
    <3> HIDE DEF q
    <3>2. Asking(q) /\ ~Shown(q) /\ page.sock = "none"
      BY <1>0, <1>8, <2>2, <2>4 DEF Asking, Shown
    <3>3. Sound(page)'
      BY <2>2, <3>1, <3>2 DEF Sound
    <3>4. Begun(q, page')
      BY <3>1 DEF Begun
    <3> QED
      BY <1>8, <2>1, <2>2, <3>3, <3>4, StoppingKept
  <2>5. CASE page.refresh.why # "resume" /\ page.session # None
    <3>1. Commit(q, TRUE)
      BY <1>9, <2>5 DEF TicketGranted
    <3> HIDE DEF q
    <3>2. Asking(q)
      BY <1>0, <1>8, <2>2, <2>5 DEF Asking
    <3>3. Sound(page)' /\ Begun(q, page')
      BY <1>0, <2>2, <3>1, <3>2, CommitFacts
    <3> QED
      BY <1>8, <2>1, <2>2, <3>3, StoppingKept
  <2> QED
    BY <2>3, <2>4, <2>5
<1>10. CASE TicketRefused
  <2> DEFINE q == [page EXCEPT !.refresh = NoRequest]
  <2>1. UNCHANGED stop
    BY <1>10 DEF TicketRefused
  <2>2. CASE page.refresh.why = "resume"
    <3> DEFINE z == [page EXCEPT !.refresh = NoRequest, !.resuming = "no"]
    <3>1. Commit(z, FALSE)
      BY <1>10, <2>2 DEF TicketRefused
    <3>2. /\ z \in PageType /\ z.session = page.session /\ z.sock = page.sock
          /\ z.refresh = NoRequest /\ z.resuming = "no" /\ z.stopped = page.stopped
      BY <1>0, <1>8 DEF PageType
    <3> HIDE DEF z
    <3>3. Asking(z) /\ ~Shown(page)
      BY <1>0, <1>8, <2>2, <3>2 DEF Asking, Shown, Checking
    <3>4. Sound(page)' /\ Begun(z, page')
      BY <1>0, <3>1, <3>2, <3>3, CommitFacts
    <3> QED
      BY <1>8, <2>1, <3>2, <3>4, StoppingKept
  <2>3. CASE page.refresh.why # "resume"
    <3>1. page' = Over(q)
      BY <1>10, <2>3 DEF TicketRefused
    <3>2. /\ q \in PageType /\ q.session = page.session /\ q.sock = page.sock
          /\ q.refresh = NoRequest /\ q.resuming = page.resuming /\ q.stopped = page.stopped
          /\ q.active = page.active
      BY <1>0, <1>8 DEF PageType
    <3> HIDE DEF q
    <3>3. Asking(q)
      BY <1>0, <1>8, <2>3, <3>2 DEF Asking
    <3>4. /\ Sound(page)' /\ page'.session = q.session /\ page'.stopped = q.stopped
          /\ page'.refresh = q.refresh
      BY <1>1, <3>1, <3>2, <3>3
    <3>5. Begun(q, page')
      BY <3>4 DEF Begun
    <3> QED
      BY <1>8, <2>1, <3>2, <3>4, <3>5, StoppingKept
  <2> QED
    BY <2>2, <2>3
<1> QED
  BY <1>2, <1>3, <1>4, <1>5, <1>6, <1>7, <1>9, <1>10 DEF Answers

\* The socket's events and the timers.
LEMMA SocketStep ==
  ASSUME PageInv, Socket \/ Timers
  PROVE  Sound(page)' /\ Stopping'
<1>0. /\ page \in PageType /\ Asking(page) /\ Stopping /\ None \notin Ids
      /\ page.sock # "none" <=> Shown(page)
      /\ page.sock = "closed" /\ ~page.stopping => Handled(page)
  BY NoneNoId DEF PageInv, Sound
\* None of them changes what Stopping is about, but a retry's ticket request.
<1>1. ASSUME UNCHANGED stop, page'.session = page.session, page'.stopped = page.stopped,
             page'.refresh = page.refresh \/ page'.refresh.why = "auto"
      PROVE  Stopping'
  BY <1>0, <1>1 DEF Stopping
<1>2. CASE SocketOpens
  <2>1. /\ page.sock = "connecting" /\ UNCHANGED stop
        /\ page' = [page EXCEPT !.sock = "open", !.status = "connected", !.attempts = 0]
    BY <1>2 DEF SocketOpens
  <2>2. 0 \in 0 .. MaxAttempts
    BY BoundsAssumption
  <2>3. /\ page' \in PageType /\ page'.sock = "open" /\ page'.session = page.session
        /\ page'.active = page.active /\ page'.resuming = page.resuming
        /\ page'.refresh = page.refresh /\ page'.stopped = page.stopped
    BY <1>0, <2>1, <2>2 DEF PageType
  <2>4. Sound(page)'
    BY <1>0, <2>1, <2>3 DEF Sound, Asking, Shown, Checking
  <2> QED
    BY <1>1, <2>1, <2>3, <2>4
<1>3. CASE SocketCloses
  <2> DEFINE c == [page EXCEPT !.sock = "closed"]
             d == Disconnected(c)
  <2>1. page.sock # "none" /\ Shown(page) /\ page' = Exited(d) /\ UNCHANGED stop
    BY <1>0, <1>3 DEF SocketCloses
  <2>2. /\ c \in PageType /\ c.sock = "closed" /\ c.session = page.session
        /\ c.active = page.active /\ c.resuming = page.resuming
        /\ c.refresh = page.refresh /\ c.stopped = page.stopped
    BY <1>0 DEF PageType
  <2> HIDE DEF c
  <2>3. /\ d \in PageType /\ d.sock = "closed" /\ d.session = page.session
        /\ d.active = page.active /\ d.resuming = page.resuming
        /\ d.refresh = page.refresh /\ d.stopped = page.stopped
    BY <2>2 DEF Disconnected, PageType
  <2> HIDE DEF d
  <2>4. d.session \in Ids
    BY <2>1, <2>3 DEF Shown, PageType, SessionOrNone
  <2>5. 0 \in 0 .. MaxAttempts /\ (d.attempts < MaxAttempts => d.attempts + 1 \in 0 .. MaxAttempts)
    BY <2>3, BoundsAssumption DEF PageType
  <2>6. d.stray \cup ({d.timer} \ {None}) \in SUBSET Ids
    BY <2>3 DEF PageType, SessionOrNone
  <2>7. CASE d.stopping
    <3>1. page' = d
      BY <2>1, <2>7 DEF Exited
    <3> QED
      BY <1>0, <1>1, <2>1, <2>3, <2>7, <3>1 DEF Sound, Asking, Shown, Checking
  <2>8. CASE ~d.stopping /\ d.attempts >= MaxAttempts
    <3>1. page' = [d EXCEPT !.attempts = 0, !.over = TRUE]
      BY <2>1, <2>8 DEF Exited
    <3>2. /\ page' \in PageType /\ page'.over /\ page'.sock = "closed"
          /\ page'.session = d.session /\ page'.active = d.active
          /\ page'.resuming = d.resuming /\ page'.refresh = d.refresh /\ page'.stopped = d.stopped
      BY <2>3, <2>5, <3>1 DEF PageType
    <3>3. Sound(page)'
      BY <1>0, <2>1, <2>3, <3>2 DEF Sound, Asking, Handled, Shown, Checking
    <3> QED
      BY <1>1, <2>1, <2>3, <3>2, <3>3
  <2>9. CASE ~d.stopping /\ ~(d.attempts >= MaxAttempts)
    <3>1. page' = [d EXCEPT !.attempts = d.attempts + 1, !.timer = d.session,
                            !.stray = d.stray \cup ({d.timer} \ {None})]
      BY <2>1, <2>9 DEF Exited
    <3>2. d.attempts + 1 \in 0 .. MaxAttempts
      BY <2>3, <2>5, <2>9, BoundsAssumption DEF PageType
    <3>3. /\ page' \in PageType /\ page'.timer = d.session /\ page'.sock = "closed"
          /\ page'.session = d.session /\ page'.active = d.active
          /\ page'.resuming = d.resuming /\ page'.refresh = d.refresh /\ page'.stopped = d.stopped
      BY <2>3, <2>4, <2>6, <3>1, <3>2 DEF PageType, SessionOrNone
    <3>4. Sound(page)'
      BY <1>0, <2>1, <2>3, <2>4, <3>3 DEF Sound, Asking, Handled, Shown, Checking
    <3> QED
      BY <1>1, <2>1, <2>3, <3>3, <3>4
  <2> QED
    BY <2>7, <2>8, <2>9
<1>4. CASE LateClose
  <2> DEFINE c == [page EXCEPT !.closing = page.closing - 1]
  <2>1. page.closing > 0 /\ page' = Disconnected(c) /\ UNCHANGED stop
    BY <1>4 DEF LateClose
  <2>2. page.closing - 1 \in 0 .. MaxClosing
    BY <1>0, <2>1, BoundsAssumption DEF PageType
  <2>3. /\ c \in PageType /\ c.sock = page.sock /\ c.session = page.session
        /\ c.active = page.active /\ c.resuming = page.resuming /\ c.timer = page.timer
        /\ c.refresh = page.refresh /\ c.stopped = page.stopped
        /\ c.stopping = page.stopping /\ c.over = page.over
    BY <1>0, <2>2 DEF PageType
  <2> HIDE DEF c
  <2>4. /\ page' \in PageType /\ page'.sock = page.sock /\ page'.session = page.session
        /\ page'.active = page.active /\ page'.resuming = page.resuming
        /\ page'.timer = page.timer /\ page'.refresh = page.refresh
        /\ page'.stopped = page.stopped /\ page'.stopping = page.stopping
        /\ page'.over = page.over
    BY <2>1, <2>3 DEF Disconnected, PageType
  <2>5. Sound(page)'
    BY <1>0, <2>4 DEF Sound, Asking, Handled, Shown, Checking
  <2> QED
    BY <1>1, <2>1, <2>4, <2>5
\* A timer of session i fires on page p.
<1>5. ASSUME NEW i \in Ids, NEW p \in PageType, p.sock = page.sock, p.session = page.session,
             p.active = page.active, p.resuming = page.resuming, p.refresh = page.refresh,
             p.stopped = page.stopped, p.stopping = page.stopping, page' = Retried(p, i),
             UNCHANGED stop
      PROVE  Sound(page)' /\ Stopping'
  <2>1. CASE p.stopping
    <3>1. page' = p
      BY <1>5, <2>1 DEF Retried
    <3>2. Sound(page)'
      BY <1>0, <1>5, <2>1, <3>1 DEF Sound, Asking, Shown, Checking
    <3> QED
      BY <1>1, <1>5, <3>1, <3>2
  <2>2. CASE ~p.stopping
    <3> DEFINE m == IF p.resuming = "asked" THEN "lost" ELSE p.resuming
    <3>1. page' = [p EXCEPT !.refresh = AskTicket(i, "auto"), !.resuming = m]
      BY <1>5, <2>2 DEF Retried
    <3>2. /\ AskTicket(i, "auto") \in [id : SessionOrNone, why : {"none", "resume", "manual", "auto"}]
          /\ AskTicket(i, "auto").id = i /\ AskTicket(i, "auto").why = "auto"
          /\ AskTicket(i, "auto") # NoRequest
      BY <1>0, <1>5 DEF AskTicket, SessionOrNone, NoRequest
    <3>3. m \in {"no", "lost"} /\ (m = "no" <=> page.resuming = "no")
      BY <1>5 DEF PageType
    <3> HIDE DEF m
    <3>4. /\ page' \in PageType /\ page'.sock = page.sock /\ page'.session = page.session
          /\ page'.active = page.active /\ page'.resuming = m
          /\ page'.refresh = AskTicket(i, "auto") /\ page'.stopped = page.stopped
      BY <1>5, <3>1, <3>2, <3>3 DEF PageType
    <3>5. Sound(page)'
      BY <1>0, <1>5, <3>2, <3>3, <3>4 DEF Sound, Asking, Handled, Shown, Checking
    <3> QED
      BY <1>1, <1>5, <3>2, <3>4, <3>5
  <2> QED
    BY <2>1, <2>2
<1>6. CASE TimerFires
  <2> DEFINE p == [page EXCEPT !.timer = None]
  <2>1. page.timer \in Ids /\ page' = Retried(p, page.timer) /\ UNCHANGED stop
    BY <1>0, <1>6 DEF TimerFires, PageType, SessionOrNone
  <2>2. /\ p \in PageType /\ p.sock = page.sock /\ p.session = page.session
        /\ p.active = page.active /\ p.resuming = page.resuming /\ p.refresh = page.refresh
        /\ p.stopped = page.stopped /\ p.stopping = page.stopping
    BY <1>0 DEF PageType, SessionOrNone
  <2> HIDE DEF p
  <2> QED
    BY <1>5, <2>1, <2>2
<1>7. ASSUME NEW i \in Ids, StrayFires(i)  PROVE Sound(page)' /\ Stopping'
  <2> DEFINE p == [page EXCEPT !.stray = (page.stray \ {i}) \cup ({page.timer} \ {None}),
                               !.timer = None]
  <2>1. page' = Retried(p, i) /\ UNCHANGED stop
    BY <1>7 DEF StrayFires
  <2>2. (page.stray \ {i}) \cup ({page.timer} \ {None}) \in SUBSET Ids
    BY <1>0 DEF PageType, SessionOrNone
  <2>3. /\ p \in PageType /\ p.sock = page.sock /\ p.session = page.session
        /\ p.active = page.active /\ p.resuming = page.resuming /\ p.refresh = page.refresh
        /\ p.stopped = page.stopped /\ p.stopping = page.stopping
    BY <1>0, <2>2 DEF PageType, SessionOrNone
  <2> HIDE DEF p
  <2> QED
    BY <1>5, <1>7, <2>1, <2>3
<1> QED
  BY <1>2, <1>3, <1>4, <1>6, <1>7 DEF Socket, Timers

-----------------------------------------------------------------------------
(* The requests and the rows.                                              *)

RequestsOK ==
  /\ row \in RowType
  /\ start \in [phase : {"none", "sent", "ok"}, id : SessionOrNone, slug : Slugs \cup {None}]
  /\ stop \in [phase : {"none", "sent", "ok"}, id : SessionOrNone, here : BOOLEAN]
  /\ start.phase = "sent" => start.slug \in Slugs
  /\ start.phase = "ok" => start.id \in Ids

LEMMA InvSplit == PageInv <=> RequestsOK /\ Sound(page) /\ Stopping
BY TypeSplit DEF PageInv, RequestsOK, Sound

LEMMA RowEnds ==
  ASSUME NEW i \in Ids, NEW s \in Slugs, RequestsOK
  PROVE  /\ [row EXCEPT ![i] = Ended(row[i])] \in RowType
         /\ Inserted(i, s) => row' \in RowType
<1>1. \A j \in Ids : Ended(row[j]) \in [status : {"none", "running", "ended"}, slug : Slugs \cup {None}]
  BY DEF RequestsOK, RowType, Ended
<1>2. [status |-> "running", slug |-> s] \in [status : {"none", "running", "ended"}, slug : Slugs \cup {None}]
  OBVIOUS
<1>3. [row EXCEPT ![i] = Ended(row[i])] \in RowType
  BY <1>1 DEF RequestsOK, RowType
<1>4. ASSUME Inserted(i, s)  PROVE row' \in RowType
  BY <1>1, <1>2, <1>4 DEF Inserted, RequestsOK, RowType
<1> QED
  BY <1>3, <1>4

LEMMA RequestsStep ==
  ASSUME PageInv, [Next]_vars
  PROVE  RequestsOK'
<1>0. RequestsOK /\ page \in PageType /\ Stopping
  BY InvSplit DEF Sound
<1>1. CASE Start
  <2>1. start' = [phase |-> "sent", id |-> None, slug |-> page.slug] /\ UNCHANGED <<row, stop>>
    BY <1>1 DEF Start
  <2>2. page.slug \in Slugs
    BY <1>0 DEF PageType
  <2> QED
    BY <1>0, <2>1, <2>2 DEF RequestsOK, SessionOrNone
<1>2. CASE Stop
  <2>1. stop' = [phase |-> "sent", id |-> page.session, here |-> TRUE] /\ UNCHANGED <<row, start>>
    BY <1>2 DEF Stop
  <2>2. page.session \in SessionOrNone
    BY <1>0 DEF PageType
  <2> QED
    BY <1>0, <2>1, <2>2 DEF RequestsOK
<1>3. CASE Reconnect \/ Refetch \/ RefetchFails \/ TicketGranted \/ TicketRefused \/ Socket \/ Timers
  <2>1. UNCHANGED <<row, start, stop>>
    BY <1>3 DEF Reconnect, Refetch, RefetchFails, TicketGranted, TicketRefused, Socket, Timers,
       SocketOpens, SocketCloses, LateClose, TimerFires, StrayFires
  <2> QED
    BY <1>0, <2>1 DEF RequestsOK
<1>4. ASSUME NEW s \in Slugs, Navigate(s)  PROVE RequestsOK'
  <2>1. stop' = [stop EXCEPT !.here = FALSE] /\ UNCHANGED <<row, start>>
    BY <1>4 DEF Navigate
  <2> QED
    BY <1>0, <2>1 DEF RequestsOK
<1>5. CASE Started \/ StartFails
  <2>1. start' = NoStart /\ UNCHANGED <<row, stop>>
    BY <1>5 DEF Started, StartFails
  <2> QED
    BY <1>0, <2>1 DEF RequestsOK, NoStart, SessionOrNone
<1>6. CASE Stopped \/ StopFails
  <2>1. stop' = NoStop /\ UNCHANGED <<row, start>>
    BY <1>6 DEF Stopped, StopFails
  <2> QED
    BY <1>0, <2>1 DEF RequestsOK, NoStop, SessionOrNone
<1>7. CASE StartServed
  <2>1. PICK i \in Ids : /\ Inserted(i, start.slug)
                         /\ start' = [phase |-> "ok", id |-> i, slug |-> None]
    BY <1>7 DEF StartServed
  <2>2. start.slug \in Slugs /\ UNCHANGED stop
    BY <1>0, <1>7 DEF StartServed, RequestsOK
  <2>3. row' \in RowType
    BY <1>0, <2>1, <2>2, RowEnds
  <2> QED
    BY <1>0, <2>1, <2>2, <2>3 DEF RequestsOK, SessionOrNone
<1>8. CASE StopServed
  <2>1. /\ stop.id \in Ids /\ row' = [row EXCEPT ![stop.id] = Ended(row[stop.id])]
        /\ stop' = [stop EXCEPT !.phase = "ok"] /\ UNCHANGED start
    BY <1>0, <1>8 DEF StopServed, Stopping
  <2>2. row' \in RowType
    BY <1>0, <2>1 DEF RequestsOK, RowType, Ended
  <2> QED
    BY <1>0, <2>1, <2>2 DEF RequestsOK
<1>9. CASE Others
  <2>1. UNCHANGED <<start, stop>>
    BY <1>9 DEF Others, EndsElsewhere, StartsElsewhere
  <2>2. row' \in RowType
    <3>1. ASSUME NEW i \in Ids, EndsElsewhere(i)  PROVE row' \in RowType
      <4>1. row' = [row EXCEPT ![i] = Ended(row[i])]
        BY <3>1 DEF EndsElsewhere
      <4> QED
        BY <1>0, <4>1 DEF RequestsOK, RowType, Ended
    <3>2. ASSUME NEW s \in Slugs, StartsElsewhere(s)  PROVE row' \in RowType
      BY <1>0, <3>2, RowEnds DEF StartsElsewhere
    <3> QED
      BY <1>9, <3>1, <3>2 DEF Others
  <2> QED
    BY <1>0, <2>1, <2>2 DEF RequestsOK
<1>10. CASE UNCHANGED vars
  BY <1>0, <1>10 DEF vars, RequestsOK
<1> QED
  BY <1>1, <1>2, <1>3, <1>4, <1>5, <1>6, <1>7, <1>8, <1>9, <1>10
  DEF Next, UserActs, Answers, Backend

LEMMA PageStep ==
  ASSUME PageInv, [Next]_vars
  PROVE  PageInv'
<1>0. Sound(page)' /\ Stopping' => PageInv'
  <2>1. RequestsOK'
    BY RequestsStep
  <2> QED
    BY <2>1 DEF PageInv, TypeOK, RequestsOK, RowType, Sound, PageType
<1>2. CASE Backend \/ Others \/ UNCHANGED vars
  <2>1. UNCHANGED page
    BY <1>2 DEF Backend, Others, StartServed, StopServed, EndsElsewhere, StartsElsewhere, vars
  <2>2. CASE StopServed
    <3>1. stop' = [stop EXCEPT !.phase = "ok"] /\ stop.phase = "sent"
      BY <2>2 DEF StopServed
    <3>2. stop'.id = stop.id /\ stop'.here = stop.here /\ stop'.phase = "ok"
      BY <3>1, InvSplit DEF RequestsOK
    <3>3. Sound(page)' /\ Stopping'
      BY <2>1, <3>1, <3>2, InvSplit DEF Sound, Asking, Handled, Shown, Checking, Stopping
    <3> QED
      BY <1>0, <3>3
  <2>3. CASE ~StopServed
    <3>1. UNCHANGED stop
      BY <1>2, <2>3 DEF Backend, Others, StartServed, EndsElsewhere, StartsElsewhere, vars
    <3>2. Sound(page)' /\ Stopping'
      BY <2>1, <3>1, InvSplit DEF Sound, Asking, Handled, Shown, Checking, Stopping
    <3> QED
      BY <1>0, <3>2
  <2> QED
    BY <2>2, <2>3
<1>3. CASE UserActs \/ Answers \/ Socket \/ Timers
  <2>1. Sound(page)' /\ Stopping'
    BY <1>3, UserStep, AnswerStep, SocketStep
  <2> QED
    BY <1>0, <2>1
<1> QED
  BY <1>2, <1>3 DEF Next

-----------------------------------------------------------------------------
LEMMA PageInvariant == Spec => []PageInv
BY InitPage, PageStep, PTL DEF Spec

\* Types are kept, and with them the bound on the attempts of a retry.
THEOREM TypeCorrect == Spec => []TypeOK
<1>1. PageInv => TypeOK
  BY DEF PageInv
<1> QED
  BY <1>1, PageInvariant, PTL

\* A terminal that lost its socket is being retried, or its attempts are over.
THEOREM DropsAreHandledAlways == Spec => []DropsAreHandled
<1>1. PageInv => DropsAreHandled
  BY DEF PageInv, Sound, Handled, DropsAreHandled
<1> QED
  BY <1>1, PageInvariant, PTL

\* The page says that it resumes a session exactly while a ticket request is
\* under way whose answer ends that.
THEOREM ResumeSettlesAlways == Spec => []ResumeSettles
<1>1. PageInv => ResumeSettles
  BY DEF PageInv, Sound, Asking, ResumeSettles
<1> QED
  BY <1>1, PageInvariant, PTL

\* The answer to a stop does not make the page resume the session it stopped.
THEOREM StoppedNotResumedAlways == Spec => StoppedNotResumed
<1>1. ASSUME PageInv, Stopped, stop.here
      PROVE  ~(page'.refresh.why = "resume" /\ page'.refresh.id = stop.id)
  <2> DEFINE q == [page EXCEPT !.session = None]
  <2>1. Sound(page) /\ page \in PageType /\ Stopping /\ Commit(q, FALSE)
    BY <1>1 DEF PageInv, Sound, Stopped
  <2>2. /\ q \in PageType /\ q.session = None /\ q.sock = page.sock /\ q.stopped = page.stopped
        /\ q.refresh = page.refresh /\ q.resuming = page.resuming
    BY <2>1 DEF PageType, SessionOrNone
  <2> HIDE DEF q
  <2>3. Asking(q) /\ ~Shown(q)
    BY <2>1, <2>2 DEF Sound, Asking, Shown
  <2>4. Begun(q, page')
    BY <2>1, <2>2, <2>3, CommitFacts
  <2>5. page.refresh.why # "resume" /\ stop.id \in page.stopped
    BY <1>1, <2>1 DEF Stopping
  <2> QED
    BY <2>2, <2>4, <2>5 DEF Begun, AskTicket
<1>2. PageInv => [Stopped /\ stop.here =>
                    ~(page'.refresh.why = "resume" /\ page'.refresh.id = stop.id)]_vars
  BY <1>1
<1> QED
  BY <1>2, PageInvariant, PTL DEF StoppedNotResumed

-----------------------------------------------------------------------------
(* Nothing is carried over from one challenge to another by anything but   *)
(* the answer to a start, or to a resume, that is due when the page moves. *)

\* The page moves while neither is due.
MovesSettled ==
  [][page'.slug # page.slug => start.phase = "none" /\ page.refresh.why # "resume"]_vars

OwnRow(i, s) == i \in Ids /\ row[i].slug = s

\* What page p shows, or will when its ticket is granted, is of its challenge.
Owns(p) ==
  /\ p.session # None => OwnRow(p.session, p.slug)
  /\ p.refresh.why = "resume" => OwnRow(p.refresh.id, p.slug)

\* A start is for the challenge of the page; a row has a challenge for good.
OwnInv ==
  /\ \A i \in Ids : row[i].status = "none" => row[i].slug = None
  /\ Owns(page)
  /\ start.phase = "sent" => start.slug = page.slug
  /\ start.phase = "ok" => OwnRow(start.id, page.slug)

LEMMA OwnsEffects ==
  ASSUME NEW p, NEW q \in PageType, NEW ticket \in BOOLEAN, Owns(q)
  PROVE  /\ Owns(Resumed(q)) /\ Resumed(q).slug = q.slug
         /\ Owns(Repaned(p, q, ticket)) /\ Repaned(p, q, ticket).slug = q.slug
<1>1. Owns(Resumed(q)) /\ Resumed(q).slug = q.slug
  <2>1. CASE Resumed(q) = q
    BY <2>1
  <2>2. CASE Resumed(q) # q
    <3>1. /\ q.active \in Ids /\ row[q.active].slug = q.slug
          /\ Resumed(q) = [q EXCEPT !.resuming = "asked",
                                    !.refresh = AskTicket(q.active, "resume")]
      BY <2>2 DEF Resumed
    <3> QED
      BY <3>1 DEF PageType, Owns, OwnRow, AskTicket
  <2> QED
    BY <2>1, <2>2
<1>2. ASSUME NEW r, r = Repaned(p, q, ticket)  PROVE Owns(r) /\ r.slug = q.slug
  <2>1. r.session = q.session /\ r.refresh = q.refresh /\ r.slug = q.slug
    BY <1>2 DEF Repaned, PageType
  <2> QED
    BY <2>1 DEF Owns
<1> QED
  BY <1>1, <1>2

LEMMA OwnsCommit ==
  ASSUME NEW q \in PageType, NEW ticket \in BOOLEAN, Owns(q), Asking(q), Commit(q, ticket)
  PROVE  Owns(page') /\ page'.slug = q.slug
<1>1. Resumed(q) \in PageType
  BY ResumedFacts
<1>2. Owns(Resumed(q)) /\ Resumed(q).slug = q.slug
  BY OwnsEffects
<1>3. page' = Repaned(page, q, ticket) \/ page' = Repaned(page, Resumed(q), ticket)
  BY DEF Commit
<1> QED
  BY <1>1, <1>2, <1>3, OwnsEffects

\* A row that was inserted keeps its challenge, and nothing else has one.
LEMMA OwnRows ==
  ASSUME PageInv, OwnInv, [Next]_vars, NEW i \in Ids
  PROVE  /\ row'[i].status = "none" => row'[i].slug = None
         /\ row[i].slug \in Slugs => row'[i].slug = row[i].slug
<1>0. row \in RowType /\ (stop.phase # "none" => stop.id \in Ids) /\ None \notin Slugs
  BY NoneAssumption DEF PageInv, TypeOK, RowType, Stopping
<1>1. ASSUME NEW j \in Ids, NEW s, Inserted(j, s)
      PROVE  /\ row'[i].status = "none" => row'[i].slug = None
             /\ row[i].slug \in Slugs => row'[i].slug = row[i].slug
  <2>1. row[j].status = "none" /\ row[j].slug = None
    BY <1>1 DEF Inserted, OwnInv
  <2>2. row'[i] = IF i = j THEN [status |-> "running", slug |-> s]
                  ELSE IF ActiveRow(i) THEN Ended(row[i]) ELSE row[i]
    BY <1>1 DEF Inserted
  <2>3. CASE i = j
    BY <1>0, <2>1, <2>2, <2>3
  <2>4. CASE i # j
    <3>1. row'[i] = row[i] \/ row'[i] = [row[i] EXCEPT !.status = "ended"]
      BY <2>2, <2>4 DEF Ended
    <3> QED
      BY <1>0, <3>1 DEF RowType, OwnInv
  <2> QED
    BY <2>3, <2>4
<1>2. ASSUME NEW j \in Ids, row' = [row EXCEPT ![j] = Ended(row[j])]
      PROVE  /\ row'[i].status = "none" => row'[i].slug = None
             /\ row[i].slug \in Slugs => row'[i].slug = row[i].slug
  <2>1. row'[i] = row[i] \/ row'[i] = [row[i] EXCEPT !.status = "ended"]
    BY <1>0, <1>2 DEF Ended, RowType
  <2> QED
    BY <1>0, <2>1 DEF RowType, OwnInv
<1>3. CASE UNCHANGED row
  BY <1>3 DEF OwnInv
<1>4. CASE Backend \/ Others
  <2>1. ASSUME StartServed
        PROVE  \E j \in Ids : Inserted(j, start.slug)
    BY <2>1 DEF StartServed
  <2>2. ASSUME StopServed
        PROVE  stop.id \in Ids /\ row' = [row EXCEPT ![stop.id] = Ended(row[stop.id])]
    BY <1>0, <2>2 DEF StopServed
  <2>3. ASSUME Others
        PROVE  \E j \in Ids : \/ row' = [row EXCEPT ![j] = Ended(row[j])]
                              \/ \E s \in Slugs : Inserted(j, s)
    BY <2>3 DEF Others, EndsElsewhere, StartsElsewhere
  <2> QED
    BY <1>1, <1>2, <1>4, <2>1, <2>2, <2>3 DEF Backend
<1>5. CASE ~(Backend \/ Others)
  <2>1. UNCHANGED row
    BY <1>5 DEF Next, UserActs, Answers, Socket, Timers, Start, Stop, Reconnect, Navigate,
       Started, StartFails, Stopped, StopFails, Refetch, RefetchFails, TicketGranted,
       TicketRefused, SocketOpens, SocketCloses, LateClose, TimerFires, StrayFires, vars
  <2> QED
    BY <1>3, <2>1
<1> QED
  BY <1>4, <1>5

\* No event makes the page show, or begin to resume, what is not its own.
LEMMA OwnsPage ==
  ASSUME PageInv, OwnInv, [Next]_vars,
         page'.slug # page.slug => start.phase = "none" /\ page.refresh.why # "resume"
  PROVE  /\ Owns(page')
         /\ page'.slug = page.slug \/ start'.phase = "none"
<1>0. /\ page \in PageType /\ Asking(page) /\ Owns(page) /\ None \notin Ids
      /\ start.phase = "ok" => OwnRow(start.id, page.slug)
  BY NoneNoId DEF PageInv, Sound, OwnInv
<1>1. ASSUME NEW q, q.session = page.session \/ q.session = None, q.slug = page.slug,
             q.refresh = page.refresh \/ q.refresh.why # "resume"
      PROVE  Owns(q)
  BY <1>0, <1>1 DEF Owns
<1>2. NoRequest.why # "resume"
      /\ NoRequest \in [id : SessionOrNone, why : {"none", "resume", "manual", "auto"}]
  BY DEF NoRequest, SessionOrNone
<1>3. ASSUME NEW s \in Slugs, Navigate(s)  PROVE Owns(page') /\ start'.phase = "none"
  <2>1. PICK q : q = [page EXCEPT !.slug = s, !.session = None, !.stopping = FALSE,
                                  !.stopped = {}, !.attempts = 0, !.timer = None]
    OBVIOUS
  <2>2. Commit(q, FALSE) /\ UNCHANGED start /\ s # page.slug
    BY <1>3, <2>1 DEF Navigate
  <2>3. /\ q \in PageType /\ q.session = None /\ q.slug = s
        /\ q.refresh = page.refresh /\ q.resuming = page.resuming
    <3>1. None \in SessionOrNone /\ {} \in SUBSET Ids /\ 0 \in 0 .. MaxAttempts
      BY BoundsAssumption DEF SessionOrNone
    <3> QED
      BY <1>0, <2>1, <3>1 DEF PageType
  <2>4. Asking(q)
    BY <1>0, <2>3 DEF Asking
  <2>5. page'.slug = s
    <3>1. page' = Repaned(page, q, FALSE) \/ page' = Repaned(page, Resumed(q), FALSE)
      BY <2>2 DEF Commit
    <3>2. Resumed(q) \in PageType /\ Resumed(q).slug = s
      BY <2>3, <2>4, ResumedFacts DEF PageType
    <3> QED
      BY <2>3, <3>1, <3>2 DEF Repaned, PageType
  <2>6. start.phase = "none" /\ Owns(q)
    BY <2>2, <2>3, <2>5 DEF Owns
  <2> QED
    BY <2>2, <2>3, <2>4, <2>6, OwnsCommit
<1>4. CASE Started
  <2>1. PICK q : q = [page EXCEPT !.session = start.id]
    OBVIOUS
  <2>2. Commit(q, TRUE) /\ OwnRow(start.id, page.slug)
    BY <1>0, <1>4, <2>1 DEF Started
  <2>3. /\ q \in PageType /\ q.session = start.id /\ q.slug = page.slug
        /\ q.refresh = page.refresh /\ q.resuming = page.resuming
    BY <1>0, <2>1, <2>2 DEF PageType, SessionOrNone, OwnRow
  <2>4. Asking(q) /\ Owns(q)
    BY <1>0, <2>2, <2>3 DEF Asking, Owns
  <2> QED
    BY <2>2, <2>3, <2>4, OwnsCommit
<1>5. CASE Stopped \/ RefetchFails
  <2>1. PICK q : \/ Stopped /\ q = [page EXCEPT !.session = None]
                 \/ RefetchFails /\ q = [page EXCEPT !.active = None]
    BY <1>5
  <2>2. Commit(q, FALSE)
    BY <2>1 DEF Stopped, RefetchFails
  <2>3. /\ q \in PageType /\ q.slug = page.slug /\ q.session \in {page.session, None}
        /\ q.refresh = page.refresh /\ q.resuming = page.resuming
    BY <1>0, <2>1 DEF PageType, SessionOrNone
  <2>4. Asking(q) /\ Owns(q)
    BY <1>0, <1>1, <2>3 DEF Asking
  <2> QED
    BY <2>2, <2>3, <2>4, OwnsCommit
<1>6. CASE Refetch
  <2>0. PICK a \in {None} \cup Ids :
          page' = Repaned(page, Resumed([page EXCEPT !.active = a]), FALSE)
    BY <1>6 DEF Refetch
  <2>1. PICK q : q = [page EXCEPT !.active = a] /\ page' = Repaned(page, Resumed(q), FALSE)
    BY <2>0
  <2>2. /\ q \in PageType /\ q.slug = page.slug /\ q.session = page.session
        /\ q.refresh = page.refresh /\ q.resuming = page.resuming
    BY <1>0, <2>1 DEF PageType, SessionOrNone
  <2>3. Asking(q) /\ Owns(q)
    BY <1>0, <1>1, <2>2 DEF Asking
  <2>4. Resumed(q) \in PageType
    BY <2>2, <2>3, ResumedFacts
  <2>5. Owns(Resumed(q)) /\ Resumed(q).slug = page.slug
    BY <2>2, <2>3, OwnsEffects
  <2> QED
    BY <2>1, <2>4, <2>5, OwnsEffects
<1>7. CASE TicketGranted
  <2>1. PICK q : q = [page EXCEPT !.refresh = NoRequest]
    OBVIOUS
  <2>2. /\ q \in PageType /\ q.slug = page.slug /\ q.session = page.session
        /\ q.refresh = NoRequest /\ q.resuming = page.resuming
    BY <1>0, <1>2, <2>1 DEF PageType
  <2>3. CASE page.refresh.why = "resume"
    <3>1. PICK z : z = [q EXCEPT !.session = page.refresh.id, !.resuming = "no"]
      OBVIOUS
    <3>2. Commit(z, TRUE) /\ OwnRow(page.refresh.id, page.slug)
      BY <1>0, <1>7, <2>1, <2>3, <3>1 DEF TicketGranted, Owns
    <3>3. /\ z \in PageType /\ z.slug = page.slug /\ z.session = page.refresh.id
          /\ z.refresh = NoRequest /\ z.resuming = "no"
      BY <2>2, <3>1, <3>2 DEF PageType, OwnRow, SessionOrNone
    <3>4. Asking(z) /\ Owns(z)
      BY <1>2, <3>2, <3>3 DEF Asking, Owns
    <3> QED
      BY <3>2, <3>3, <3>4, OwnsCommit
  <2>4. CASE page.refresh.why # "resume"
    <3>1. Asking(q) /\ Owns(q)
      BY <1>0, <1>1, <1>2, <2>2, <2>4 DEF Asking
    <3>2. page' = q \/ Commit(q, TRUE)
      BY <1>7, <2>1, <2>4 DEF TicketGranted
    <3> QED
      BY <2>2, <3>1, <3>2, OwnsCommit
  <2> QED
    BY <2>3, <2>4
<1>8. CASE TicketRefused
  <2>1. CASE page.refresh.why = "resume"
    <3>1. PICK q : q = [page EXCEPT !.refresh = NoRequest, !.resuming = "no"]
      OBVIOUS
    <3>2. Commit(q, FALSE)
      BY <1>8, <2>1, <3>1 DEF TicketRefused
    <3>3. /\ q \in PageType /\ q.slug = page.slug /\ q.session = page.session
          /\ q.refresh = NoRequest /\ q.resuming = "no"
      BY <1>0, <1>2, <3>1 DEF PageType
    <3>4. Asking(q) /\ Owns(q)
      BY <1>1, <1>2, <3>3 DEF Asking
    <3> QED
      BY <3>2, <3>3, <3>4, OwnsCommit
  <2>2. CASE page.refresh.why # "resume"
    <3>1. page' = Over([page EXCEPT !.refresh = NoRequest])
      BY <1>8, <2>2 DEF TicketRefused
    <3>2. page'.session = page.session /\ page'.slug = page.slug /\ page'.refresh = NoRequest
      BY <1>0, <3>1 DEF Over, PageType
    <3> QED
      BY <1>1, <1>2, <3>2
  <2> QED
    BY <2>1, <2>2
<1>9. CASE \/ Start \/ Stop \/ Reconnect \/ StartFails \/ StopFails
           \/ Socket \/ Timers \/ Backend \/ Others \/ UNCHANGED vars
  <2>1. /\ page'.session = page.session /\ page'.slug = page.slug
        /\ page'.refresh = page.refresh \/ page'.refresh.why # "resume"
    <3>1. CASE StopFails
      BY <1>0, <3>1 DEF StopFails, Over, PageType
    <3>2. CASE Start \/ Stop
      BY <1>0, <3>2 DEF Start, Stop, PageType
    <3>3. CASE Reconnect
      <4>1. page' = [page EXCEPT !.refresh = AskTicket(page.session, "manual")]
        BY <3>3 DEF Reconnect
      <4>2. /\ page'.session = page.session /\ page'.slug = page.slug
            /\ page'.refresh = AskTicket(page.session, "manual")
        BY <1>0, <4>1 DEF PageType
      <4> QED
        BY <4>2 DEF AskTicket
    <3>4. CASE StartFails \/ Backend \/ Others \/ UNCHANGED vars
      BY <3>4 DEF StartFails, Backend, Others, StartServed, StopServed, EndsElsewhere,
         StartsElsewhere, vars
    <3>5. CASE SocketOpens \/ SocketCloses \/ LateClose
      BY <1>0, <3>5 DEF SocketOpens, SocketCloses, LateClose, Exited, Disconnected, PageType
    <3>6. CASE Timers
      <4>1. ASSUME NEW q \in PageType, NEW i, q.session = page.session, q.slug = page.slug,
                   q.refresh = page.refresh, page' = Retried(q, i)
            PROVE  /\ page'.session = page.session /\ page'.slug = page.slug
                   /\ page'.refresh = page.refresh \/ page'.refresh.why # "resume"
        <5>1. CASE q.stopping
          BY <4>1, <5>1 DEF Retried
        <5>2. CASE ~q.stopping
          <6>1. /\ page'.session = q.session /\ page'.slug = q.slug
                /\ page'.refresh = AskTicket(i, "auto")
            BY <4>1, <5>2 DEF Retried, PageType
          <6> QED
            BY <4>1, <6>1 DEF AskTicket
        <5> QED
          BY <5>1, <5>2
      <4>2. CASE TimerFires
        <5>1. PICK q : q = [page EXCEPT !.timer = None]
          OBVIOUS
        <5>2. /\ q \in PageType /\ q.session = page.session /\ q.slug = page.slug
              /\ q.refresh = page.refresh
          BY <1>0, <5>1 DEF PageType, SessionOrNone
        <5> QED
          BY <4>1, <4>2, <5>1, <5>2 DEF TimerFires
      <4>3. ASSUME NEW i \in Ids, StrayFires(i)
            PROVE  /\ page'.session = page.session /\ page'.slug = page.slug
                   /\ page'.refresh = page.refresh \/ page'.refresh.why # "resume"
        <5>1. PICK q : q = [page EXCEPT !.stray = (page.stray \ {i}) \cup ({page.timer} \ {None}),
                                        !.timer = None]
          OBVIOUS
        <5>2. (page.stray \ {i}) \cup ({page.timer} \ {None}) \in SUBSET Ids
          BY <1>0 DEF PageType, SessionOrNone
        <5>3. /\ q \in PageType /\ q.session = page.session /\ q.slug = page.slug
              /\ q.refresh = page.refresh
          BY <1>0, <5>1, <5>2 DEF PageType, SessionOrNone
        <5> QED
          BY <4>1, <4>3, <5>1, <5>3 DEF StrayFires
      <4> QED
        BY <3>6, <4>2, <4>3 DEF Timers
    <3> QED
      BY <1>9, <3>1, <3>2, <3>3, <3>4, <3>5, <3>6 DEF Socket
  <2> QED
    BY <1>1, <2>1
<1> QED
  BY <1>3, <1>4, <1>5, <1>6, <1>7, <1>8, <1>9 DEF Next, UserActs, Answers

LEMMA OwnStep ==
  ASSUME PageInv, OwnInv, [Next]_vars,
         page'.slug # page.slug => start.phase = "none" /\ page.refresh.why # "resume"
  PROVE  OwnInv'
<1>1. Owns(page') /\ (page'.slug = page.slug \/ start'.phase = "none")
  BY OwnsPage
<1>2. page.slug \in Slugs /\ page'.slug \in Slugs
  BY PageStep DEF PageInv, Sound, PageType
<1>3. \A i \in Ids : row'[i].status = "none" => row'[i].slug = None
  BY OwnRows
<1>4. ASSUME NEW i, NEW s \in Slugs, OwnRow(i, s)  PROVE i \in Ids /\ row'[i].slug = s
  BY <1>4, OwnRows DEF OwnRow
<1>5. Owns(page)'
  BY <1>1, <1>2, <1>4 DEF Owns, OwnRow
<1>6. /\ start'.phase = "sent" => start'.slug = page'.slug
      /\ start'.phase = "ok" => start'.id \in Ids /\ row'[start'.id].slug = page'.slug
  <2>1. CASE Start
    BY <1>1, <2>1 DEF Start
  <2>2. CASE StartServed
    <3>1. PICK i \in Ids : /\ Inserted(i, start.slug)
                           /\ start' = [phase |-> "ok", id |-> i, slug |-> None]
      BY <2>2 DEF StartServed
    <3>2. row'[i].slug = start.slug /\ start.slug = page.slug /\ page' = page
      BY <2>2, <3>1 DEF StartServed, Inserted, OwnInv
    <3> QED
      BY <3>1, <3>2
  <2>3. CASE ~Start /\ ~StartServed
    <3>1. start' = start \/ start' = NoStart
      BY <2>3 DEF Next, UserActs, Answers, Socket, Timers, Stop, Reconnect, Navigate, Backend,
         Others, Started, StartFails, Stopped, StopFails, Refetch, RefetchFails, TicketGranted,
         TicketRefused, SocketOpens, SocketCloses, LateClose, TimerFires, StrayFires,
         StopServed, EndsElsewhere, StartsElsewhere, vars
    <3>2. CASE start' = start
      BY <1>1, <1>2, <1>4, <3>2 DEF OwnInv
    <3>3. CASE start' = NoStart
      BY <3>3 DEF NoStart
    <3> QED
      BY <3>1, <3>2, <3>3
  <2> QED
    BY <2>1, <2>2, <2>3
<1> QED
  BY <1>3, <1>5, <1>6 DEF OwnInv, OwnRow

\* "Navigating between challenges doesn't carry over stale state": so it is for any
\* interleaving of drops, retries, stops and other tabs, as long as the page does not
\* move while the answer to a start or to a resume is due.
THEOREM NoCarryOverAlways == Spec /\ MovesSettled => []NoCarryOver
<1>1. Init => OwnInv
  <2> SUFFICES ASSUME Init  PROVE OwnInv
    OBVIOUS
  <2>1. \A i \in Ids : row[i].status = "none" => row[i].slug = None
    BY DEF Init, NoRow, RunningRow
  <2>2. start.phase = "none"
    BY DEF Init, NoStart
  <2>3. Owns(page)
    <3>1. ASSUME NEW s \in Slugs, NEW q, q = Mounted(s) \/ q = [Mounted(s) EXCEPT !.active = 1]
          PROVE  q \in PageType /\ Owns(q)
      <4>1. /\ 0 \in 0 .. MaxAttempts /\ 0 \in 0 .. MaxClosing /\ 1 \in Ids \cap SessionOrNone
            /\ NoRequest \in [id : SessionOrNone, why : {"none", "resume", "manual", "auto"}]
        BY BoundsAssumption, NumSessionsAssumption DEF Ids, NoRequest, SessionOrNone
      <4>2. Mounted(s) \in PageType
        BY <4>1 DEF Mounted, PageType, SessionOrNone
      <4>3. q \in PageType /\ q.session = None /\ q.refresh = NoRequest
        <5>1. Mounted(s).session = None /\ Mounted(s).refresh = NoRequest
          BY DEF Mounted
        <5>2. CASE q = Mounted(s)
          BY <4>2, <5>1, <5>2
        <5>3. CASE q = [Mounted(s) EXCEPT !.active = 1]
          BY <4>1, <4>2, <5>1, <5>3 DEF PageType
        <5> QED
          BY <3>1, <5>2, <5>3
      <4> QED
        BY <4>3 DEF Owns, NoRequest
    <3>2. CASE \E s \in Slugs : page = Mounted(s)
      BY <3>1, <3>2
    <3>3. CASE page \in Continued
      <4>1. /\ page = Resumed([Mounted(row[1].slug) EXCEPT !.active = 1])
            /\ row[1].slug \in Slugs
        BY <3>3, NumSessionsAssumption DEF Continued, Init, ActiveRow, NoRow, RunningRow, Ids
      <4> QED
        BY <3>1, <4>1, OwnsEffects
    <3> QED
      BY <3>2, <3>3 DEF Init
  <2> QED
    BY <2>1, <2>2, <2>3 DEF OwnInv
<1>2. PageInv /\ OwnInv /\ [Next]_vars
        /\ [page'.slug # page.slug => start.phase = "none" /\ page.refresh.why # "resume"]_vars
        => OwnInv'
  BY OwnStep DEF vars
<1>3. OwnInv => NoCarryOver
  BY DEF OwnInv, Owns, OwnRow, NoCarryOver
<1> QED
  BY <1>1, <1>2, <1>3, PageInvariant, PTL DEF Spec, MovesSettled
=============================================================================
