------------------------ MODULE SessionServiceProofs ------------------------
(***************************************************************************)
(* Theorems about SessionService for every value of its constants: the     *)
(* types; what the boot leaves behind (StaleMarked, OrphansRemoved); the   *)
(* verdicts (ProgressSticky, SolvedBacked, CreditGranted); one active      *)
(* session per user; the containers in sight (NoOrphanContainer); the cap. *)
(*                                                                         *)
(* Some hold only while handlers do not overlap in a way the code does not *)
(* exclude.  Such a condition is a state predicate (OneStartEach, OneStart,*)
(* ChecksLive, StopsSettled) and stands on the left of the theorem, under  *)
(* a []; the last section discharges them for a backend that serves one    *)
(* request at a time.                                                      *)
(***************************************************************************)
EXTENDS SessionService, FiniteSetTheorems, TLAPS

\* A handler that moves on keeps the shape of a handler.
LEMMA GotoType ==
  ASSUME req \in [Requests -> Handlers], NEW r \in Requests, NEW pc \in Pcs, Goto(r, pc)
  PROVE  req' \in [Requests -> Handlers]
BY DEF Goto, Handlers

LEMMA OnType ==
  ASSUME req \in [Requests -> Handlers], NEW r \in Requests,
         NEW s \in Sessions \cup {NoSession}, NEW pc \in Pcs, On(r, s, pc)
  PROVE  req' \in [Requests -> Handlers]
BY DEF On, Handlers

LEMMA FinishType ==
  ASSUME req \in [Requests -> Handlers], NEW r \in Requests, Finish(r)
  PROVE  req' \in [Requests -> Handlers]
BY DEF Finish, NoReq, Handlers, Pcs

LEMMA ArriveType ==
  ASSUME req \in [Requests -> Handlers], NEW r \in Requests, NEW op, NEW u \in Users,
         NEW s \in Sessions \cup {NoSession}, NEW pc \in Pcs, Arrive(r, op, u, s, pc)
  PROVE  req' \in [Requests -> Handlers]
BY DEF Arrive, Handlers

\* The shared writes keep the types of what they write.
LEMMA WriteStatusType ==
  ASSUME status \in [Sessions -> Statuses \cup {"none", "deleted"}],
         grace \in [Sessions -> BOOLEAN],
         NEW s, NEW st \in Statuses, WriteStatus(s, st)
  PROVE  /\ status' \in [Sessions -> Statuses \cup {"none", "deleted"}]
         /\ grace' \in [Sessions -> BOOLEAN]
BY DEF WriteStatus

LEMMA RemoveType ==
  ASSUME container \in [Sessions -> {"none", "stopped", "running", "removed"}],
         NEW s, Remove(s) \/ RemoveRefused(s)
  PROVE  container' \in [Sessions -> {"none", "stopped", "running", "removed"}]
BY DEF Remove, RemoveRefused

LEMMA SelectType ==
  ASSUME sweep \in [Sweeps -> SweepRuns], NEW p \in Sweeps,
         NEW job \in {"none", "expire", "clear", "abandon"}, NEW S \in SUBSET Sessions,
         Select(p, job, S)
  PROVE  sweep' \in [Sweeps -> SweepRuns]
BY DEF Select, SweepRuns, NoSession

\* The type invariant: rows, containers, handlers and sweeps stay in their sets
\* whatever the handlers, the reaper, the shutdown and the boot do.
THEOREM TypeCorrect == Spec => []TypeOK
<1>1. Init => TypeOK
  BY DEF Init, TypeOK, NoReq, NoSweep, Handlers, SweepRuns, Statuses, Pcs
<1>2. TypeOK /\ [Next]_vars => TypeOK'
  <2> SUFFICES ASSUME TypeOK, [Next]_vars PROVE TypeOK'
    OBVIOUS
  <2> USE DEF TypeOK, records, row, process
  <2>1. ASSUME NEW r \in Requests, ClientRequest(r) PROVE TypeOK'
    <3>1. PICK u \in accounts :
            \/ StartRequest(r, u) \/ DeleteRequest(r, u)
            \/ \E s \in Sessions : StopRequest(r, u, s) \/ CheckRequest(r, u, s)
      BY <2>1 DEF ClientRequest
    <3>2. /\ u \in Users
          /\ {"count", "stopRead", "read", "active"} \subseteq Pcs
      BY DEF Pcs
    <3>3. CASE StartRequest(r, u)
      BY <3>2, <3>3, ArriveType DEF StartRequest, Arrive
    <3>4. CASE DeleteRequest(r, u)
      BY <3>2, <3>4, ArriveType DEF DeleteRequest, Arrive
    <3>5. ASSUME NEW s \in Sessions, StopRequest(r, u, s) \/ CheckRequest(r, u, s) PROVE TypeOK'
      BY <3>2, <3>5, ArriveType DEF StopRequest, CheckRequest, Arrive
    <3> QED
      BY <3>1, <3>3, <3>4, <3>5
  <2>2. ASSUME NEW r \in Requests, StartStep(r) PROVE TypeOK'
    <3>1. CASE StartCount(r)
      BY <3>1, GotoType, FinishType DEF StartCount, Pcs
    <3>2. CASE StartPrior(r)
      BY <3>2, GotoType, OnType DEF StartPrior, ActiveOf, ActiveSet, Pcs
    <3>3. CASE StartInsert(r)
      BY <3>3, FinishType, OnType DEF StartInsert, Unused, Pcs, Handlers, Statuses, Active
    <3>4. CASE Provision(r)
      BY <3>4, GotoType DEF Provision, Pcs
    <3>5. CASE Launch(r)
      BY <3>5, GotoType DEF Launch, Pcs
    <3>6. CASE ProvisionFails(r)
      BY <3>6, GotoType DEF ProvisionFails, Pcs
    <3>7. CASE StartPublish(r)
      <4>1. linked' \in [Sessions -> BOOLEAN]
        <5>1. linked' = [linked EXCEPT ![req[r].sess] = Row(req[r].sess)]
          BY <3>7 DEF StartPublish
        <5>2. Row(req[r].sess) \in BOOLEAN
          BY DEF Row
        <5> QED
          BY <5>1, <5>2
      <4>2. /\ status' \in [Sessions -> Statuses \cup {"none", "deleted"}]
            /\ grace' \in [Sessions -> BOOLEAN]
        BY <3>7, WriteStatusType DEF StartPublish, Statuses, Active
      <4> QED
        BY <3>7, <4>1, <4>2, FinishType DEF StartPublish
    <3>8. CASE StartFail(r)
      BY <3>8, FinishType, WriteStatusType DEF StartFail, Statuses, Active
    <3> QED
      BY <2>2, <3>1, <3>2, <3>3, <3>4, <3>5, <3>6, <3>7, <3>8 DEF StartStep
  <2>3. ASSUME NEW r \in Requests, StopStep(r) PROVE TypeOK'
    <3>1. CASE StopRead(r)
      BY <3>1, GotoType, FinishType DEF StopRead, Pcs
    <3>2. CASE StopDestroy(r)
      BY <3>2, GotoType, FinishType, RemoveType DEF StopDestroy, Pcs
    <3>3. CASE StopUpdate(r)
      <4>1. req' \in [Requests -> Handlers]
        BY <3>3, OnType, FinishType DEF StopUpdate, Pcs
      <4> QED
        BY <3>3, <4>1, WriteStatusType DEF StopUpdate, Statuses
    <3> QED
      BY <2>3, <3>1, <3>2, <3>3 DEF StopStep
  <2>4. ASSUME NEW r \in Requests, CheckStep(r) PROVE TypeOK'
    <3>1. CASE CheckRead(r)
      BY <3>1, GotoType, FinishType DEF CheckRead, Pcs
    <3>2. CASE CheckMark(r)
      BY <3>2, GotoType, WriteStatusType DEF CheckMark, Pcs, Statuses, Active
    <3>3. CASE CheckExec(r)
      BY <3>3, GotoType, FinishType DEF CheckExec, Pcs
    <3>4. CASE CheckExit(r)
      <4>1. req' \in [Requests -> Handlers]
        <5>1. ASSUME NEW passed \in BOOLEAN,
                     req' = [req EXCEPT ![r].passed = passed, ![r].pc = "record"]
              PROVE  req' \in [Requests -> Handlers]
          <6>1. [req[r] EXCEPT !.passed = passed] \in Handlers
            BY DEF Handlers
          <6>2. [[req[r] EXCEPT !.passed = passed] EXCEPT !.pc = "record"] \in Handlers
            BY <6>1 DEF Handlers, Pcs
          <6>3. req' = [req EXCEPT ![r] = [[req[r] EXCEPT !.passed = passed] EXCEPT !.pc = "record"]]
            BY <5>1
          <6> QED
            BY <6>2, <6>3
        <5> QED
          BY <3>4, <5>1, FinishType DEF CheckExit
      <4> QED
        BY <3>4, <4>1 DEF CheckExit
    <3>5. CASE CheckRecord(r)
      BY <3>5, GotoType, FinishType DEF CheckRecord, Pcs, Handlers
    <3>6. CASE CheckVerdict(r)
      BY <3>6, GotoType, WriteStatusType DEF CheckVerdict, Pcs, Statuses, Active
    <3>7. CASE CheckProgress(r)
      BY <3>7, FinishType DEF CheckProgress, BestStatus
    <3> QED
      BY <2>4, <3>1, <3>2, <3>3, <3>4, <3>5, <3>6, <3>7 DEF CheckStep
  <2>5. ASSUME NEW r \in Requests, DeleteStep(r) PROVE TypeOK'
    <3>1. CASE DeleteActive(r)
      BY <3>1, GotoType, OnType DEF DeleteActive, ActiveOf, ActiveSet, Pcs
    <3>2. CASE DeleteUser(r)
      BY <3>2, FinishType DEF DeleteUser
    <3> QED
      BY <2>5, <3>1, <3>2 DEF DeleteStep
  <2>6. ASSUME NEW r \in Requests, QueryFails(r) PROVE TypeOK'
    BY <2>6, GotoType, FinishType DEF QueryFails, Pcs
  <2>7. ASSUME NEW u \in accounts, NEW s \in Sessions, Heartbeat(u, s) PROVE TypeOK'
    BY <2>7 DEF Heartbeat
  <2>8. ASSUME NEW s \in Sessions, Passage(s) PROVE TypeOK'
    BY <2>8 DEF Passage, Age, GraceOver, ContainerExit
  <2>9. ASSUME NEW p \in Reapers, Reap(p) PROVE TypeOK'
    <3>1. p \in Sweeps
      BY DEF Sweeps
    <3>2. CASE ReapTick(p)
      BY <3>1, <3>2, SelectType DEF ReapTick, ActiveSet
    <3>3. CASE ReapSolved(p)
      BY <3>1, <3>3, SelectType DEF ReapSolved
    <3>4. CASE ReapDone(p)
      BY <3>4 DEF ReapDone, NoSweep, SweepRuns
    <3> QED
      BY <2>9, <3>2, <3>3, <3>4 DEF Reap
  <2>10. ASSUME NEW p \in Sweeps, SweepStep(p) PROVE TypeOK'
    <3>1. CASE SweepDestroy(p)
      <4>1. sweep' \in [Sweeps -> SweepRuns]
        <5>1. PICK s \in sweep[p].rows :
                     sweep' = [sweep EXCEPT ![p].rows = @ \ {s}, ![p].cur = s]
          BY <3>1 DEF SweepDestroy
        <5>2. s \in Sessions /\ sweep[p].rows \ {s} \subseteq Sessions
          BY DEF SweepRuns
        <5> QED
          <6> DEFINE rest == [sweep[p] EXCEPT !.rows = @ \ {s}]
          <6>1. rest \in SweepRuns
            BY <5>2 DEF SweepRuns
          <6>2. [rest EXCEPT !.cur = s] \in SweepRuns
            BY <5>2, <6>1 DEF SweepRuns
          <6>3. sweep' = [sweep EXCEPT ![p] = [rest EXCEPT !.cur = s]]
            BY <5>1
          <6> QED
            BY <6>2, <6>3
      <4> QED
        BY <3>1, <4>1, RemoveType DEF SweepDestroy
    <3>2. CASE SweepUpdate(p)
      <4>1. sweep' \in [Sweeps -> SweepRuns]
        BY <3>2 DEF SweepUpdate, SweepRuns
      <4>2. /\ status' \in [Sessions -> Statuses \cup {"none", "deleted"}]
            /\ grace' \in [Sessions -> BOOLEAN]
            /\ linked' \in [Sessions -> BOOLEAN]
        BY <3>2, WriteStatusType DEF SweepUpdate, Statuses
      <4> QED
        BY <3>2, <4>1, <4>2 DEF SweepUpdate
    <3>3. CASE SweepQueryFails(p)
      BY <3>3 DEF SweepQueryFails, NoSweep, SweepRuns
    <3> QED
      BY <2>10, <3>1, <3>2, <3>3 DEF SweepStep
  <2>11. CASE Boot
    <3>1. CASE BootList \/ BootScan \/ BootListen
      BY <3>1 DEF BootList, BootScan, BootListen, ActiveSet
    <3>2. ASSUME NEW s \in Sessions, BootRemove(s) PROVE TypeOK'
      BY <3>2, RemoveType DEF BootRemove
    <3>3. ASSUME NEW s \in Sessions, BootMark(s) PROVE TypeOK'
      BY <3>3, WriteStatusType DEF BootMark, Statuses
    <3> QED
      BY <2>11, <3>1, <3>2, <3>3 DEF Boot
  <2>12. CASE Sigterm
    <3>1. Drainer \in Sweeps /\ {s \in ActiveSet : linked[s]} \in SUBSET Sessions
      BY DEF Sweeps, ActiveSet
    <3> QED
      BY <2>12, <3>1, SelectType DEF Sigterm
  <2>13. CASE DrainExit \/ Crash
    <3>1. NoReq \in Handlers /\ NoSweep \in SweepRuns
      BY DEF NoReq, NoSweep, Handlers, SweepRuns, Pcs
    <3> QED
      BY <2>13, <3>1 DEF DrainExit, Crash, ProcessEnds
  <2>14. CASE UNCHANGED vars
    BY <2>14 DEF vars
  <2> QED
    BY <2>1, <2>2, <2>3, <2>4, <2>5, <2>6, <2>7, <2>8, <2>9, <2>10, <2>11, <2>12, <2>13, <2>14
    DEF Next, Handle
<1> QED
  BY <1>1, <1>2, PTL DEF Spec

-----------------------------------------------------------------------------
(* The boot.  Until the server listens nobody but the boot touches rows    *)
(* and containers (Quiet), so its two lists still hold what they listed.   *)

Quiet ==
  phase \in {"down", "reconcile", "mark"} =>
    /\ \A r \in Requests : req[r] = NoReq
    /\ \A p \in Sweeps : sweep[p] = NoSweep

\* The dead containers' rows that are still to be marked.
MarkListed ==
  phase = "mark" => \A s \in ActiveSet : linked[s] => Exists(s) \/ s \in todo

\* The orphans that are still to be removed; afterwards there are none.
OrphansListed ==
  /\ phase = "reconcile" =>
       \A s \in Sessions : Exists(s) => s \in todo \/ (status[s] \in Active /\ linked[s])
  /\ phase = "mark" =>
       /\ \A s \in Sessions : Exists(s) => status[s] \in Active /\ linked[s]
       /\ \A s \in todo : ~Exists(s)

\* A handler that stands at a step is not NoReq, so the process is not booting.
LEMMA NotBooting ==
  ASSUME Quiet, NEW r \in Requests, req[r].pc # "idle"
  PROVE  phase \notin {"down", "reconcile", "mark"}
BY DEF Quiet, NoReq

LEMMA HandlerUp ==
  ASSUME TypeOK, Quiet, NEW r \in Requests, ClientRequest(r) \/ Handle(r)
  PROVE  phase \notin {"down", "reconcile", "mark"} /\ phase' = phase
<1>1. CASE ClientRequest(r)
  BY <1>1 DEF ClientRequest, StartRequest, StopRequest, CheckRequest, DeleteRequest, Arrive, process
<1>2. CASE Handle(r)
  <2>1. req[r].pc # "idle"
    BY <1>2 DEF Handle, StartStep, StopStep, CheckStep, DeleteStep, At, StartCount, StartPrior,
       StartInsert, Provision, Launch, ProvisionFails, StartPublish, StartFail, StopRead,
       StopDestroy, StopUpdate, CheckRead, CheckMark, CheckExec, CheckExit, CheckRecord,
       CheckVerdict, CheckProgress, DeleteActive, DeleteUser, QueryFails
  <2>2. phase' = phase
    BY <1>2 DEF Handle, StartStep, StopStep, CheckStep, DeleteStep, process, StartCount, StartPrior,
       StartInsert, Provision, Launch, ProvisionFails, StartPublish, StartFail, StopRead,
       StopDestroy, StopUpdate, CheckRead, CheckMark, CheckExec, CheckExit, CheckRecord,
       CheckVerdict, CheckProgress, DeleteActive, DeleteUser, QueryFails
  <2> QED
    BY <2>1, <2>2, NotBooting
<1> QED
  BY <1>1, <1>2

LEMMA SweepUp ==
  ASSUME TypeOK, Quiet, NEW p \in Sweeps, SweepStep(p) \/ (p \in Reapers /\ Reap(p))
  PROVE  phase \notin {"down", "reconcile", "mark"} /\ phase' = phase
<1>1. CASE SweepStep(p)
  <2>1. phase' = phase
    BY <1>1 DEF SweepStep, SweepDestroy, SweepUpdate, SweepQueryFails, process
  <2>2. sweep[p] # NoSweep
    <3> SUFFICES ASSUME sweep[p] = NoSweep PROVE FALSE
      OBVIOUS
    <3>1. sweep[p].rows = {} /\ sweep[p].cur = NoSession /\ sweep[p].job = "none"
      BY DEF NoSweep
    <3> QED
      BY <1>1, <3>1 DEF SweepStep, SweepDestroy, SweepUpdate, SweepQueryFails
  <2> QED
    BY <2>1, <2>2 DEF Quiet
<1>2. CASE Reap(p)
  BY <1>2 DEF Reap, ReapTick, ReapSolved, ReapDone, Quiet, NoSweep, process
<1> QED
  BY <1>1, <1>2

\* What a step of a booting backend can be.
LEMMA BootStep ==
  ASSUME TypeOK, Quiet, [Next]_vars
  PROVE  \/ phase' \notin {"down", "reconcile", "mark"}
         \/ Boot \/ DrainExit \/ Crash
         \/ \E s \in Sessions : Passage(s)
         \/ UNCHANGED vars
<1>1. ASSUME NEW r \in Requests, ClientRequest(r) \/ Handle(r)
      PROVE  phase' \notin {"down", "reconcile", "mark"}
  BY <1>1, HandlerUp
<1>2. ASSUME NEW p \in Sweeps, SweepStep(p) \/ (p \in Reapers /\ Reap(p))
      PROVE  phase' \notin {"down", "reconcile", "mark"}
  BY <1>2, SweepUp
<1>3. ASSUME NEW u \in accounts, NEW s \in Sessions, Heartbeat(u, s)
      PROVE  phase' \notin {"down", "reconcile", "mark"}
  BY <1>3 DEF Heartbeat, process
<1>4. Sigterm => phase' \notin {"down", "reconcile", "mark"}
  BY DEF Sigterm
<1> QED
  BY <1>1, <1>2, <1>3, <1>4 DEF Next, Sweeps

LEMMA QuietStep == TypeOK /\ Quiet /\ [Next]_vars => Quiet'
<1> SUFFICES ASSUME TypeOK, Quiet, [Next]_vars, phase' \in {"down", "reconcile", "mark"}
             PROVE  /\ \A r \in Requests : req'[r] = NoReq
                    /\ \A p \in Sweeps : sweep'[p] = NoSweep
  BY DEF Quiet, NoReq, NoSweep
<1>1. CASE Boot
  BY <1>1 DEF Boot, BootList, BootRemove, BootScan, BootMark, BootListen, Booted, Quiet
<1>2. CASE DrainExit \/ Crash
  BY <1>2 DEF DrainExit, Crash, ProcessEnds
<1>3. ASSUME NEW s \in Sessions, Passage(s)
      PROVE  req' = req /\ sweep' = sweep /\ phase' = phase
  BY <1>3 DEF Passage, Age, GraceOver, ContainerExit, process
<1>4. CASE UNCHANGED vars
  BY <1>4 DEF vars, process, Quiet
<1> QED
  BY <1>1, <1>2, <1>3, <1>4, BootStep DEF Quiet

\* The boot list of stale rows is complete: when the server starts to listen no
\* active row points at a container that does not exist.
THEOREM StaleMarkedAlways == Spec => []StaleMarked
<1>1. Init => Quiet /\ MarkListed
  BY DEF Init, Quiet, MarkListed
<1>2. TypeOK /\ Quiet /\ MarkListed /\ [Next]_vars => MarkListed'
  <2> SUFFICES ASSUME TypeOK, Quiet, MarkListed, [Next]_vars, phase' = "mark",
                      NEW s \in Sessions, status'[s] \in Active, linked'[s]
               PROVE  Exists(s)' \/ s \in todo'
    BY DEF MarkListed, ActiveSet
  <2>1. CASE BootScan
    BY <2>1 DEF BootScan, ActiveSet, row, Exists
  <2>2. ASSUME NEW t \in Sessions, BootMark(t) PROVE Exists(s)' \/ s \in todo'
    <3>1. ASSUME t = s PROVE FALSE
      <4>1. status'[s] = IF Row(s) THEN "error" ELSE status[s]
        BY <2>2, <3>1 DEF BootMark, WriteStatus, TypeOK
      <4> QED
        BY <4>1 DEF Row, Statuses, Active
    <3>2. t # s
      BY <3>1
    <3> QED
      BY <2>2, <3>2 DEF BootMark, WriteStatus, TypeOK, MarkListed, ActiveSet, Exists
  <2>3. ASSUME NEW t \in Sessions, Passage(t) PROVE Exists(s)' \/ s \in todo'
    <3>1. phase = "mark" /\ status' = status /\ linked' = linked /\ todo' = todo
      BY <2>3 DEF Passage, Age, GraceOver, ContainerExit, row, process
    <3>2. Exists(s) => Exists(s)'
      BY <2>3 DEF Passage, Age, GraceOver, ContainerExit, TypeOK, Exists
    <3> QED
      BY <3>1, <3>2 DEF MarkListed, ActiveSet
  <2>4. CASE UNCHANGED vars
    BY <2>4 DEF vars, row, process, MarkListed, ActiveSet, Exists
  <2>5. CASE Boot
    BY <2>1, <2>2, <2>5 DEF Boot, BootList, BootListen, BootRemove
  <2>6. ~DrainExit /\ ~Crash
    BY DEF DrainExit, Crash, ProcessEnds
  <2> QED
    BY <2>3, <2>4, <2>5, <2>6, BootStep
<1>3. MarkListed => StaleMarked
  BY DEF MarkListed, StaleMarked, Booted
<1> QED
  BY <1>1, <1>2, <1>3, TypeCorrect, QuietStep, PTL DEF Spec

\* The boot list of orphans is complete: if Docker removes what it is told to,
\* the server starts to listen with no container but those of active rows.
THEOREM OrphansRemovedAlways ==
  ASSUME "remove" \notin Faults
  PROVE  Spec => []OrphansRemoved
<1>1. Init => Quiet /\ OrphansListed
  BY DEF Init, Quiet, OrphansListed
<1>2. TypeOK /\ Quiet /\ OrphansListed /\ [Next]_vars => OrphansListed'
  <2> SUFFICES ASSUME TypeOK, Quiet, OrphansListed, [Next]_vars,
                      phase' \in {"reconcile", "mark"}
               PROVE  OrphansListed'
    BY DEF OrphansListed
  <2>1. CASE BootList
    BY <2>1 DEF BootList, OrphansListed, row, Exists
  <2>2. CASE BootScan
    BY <2>2 DEF BootScan, OrphansListed, row, Exists
  <2>3. ASSUME NEW t \in Sessions, BootRemove(t) PROVE OrphansListed'
    <3>1. \A s \in Sessions : Exists(s)' => Exists(s) /\ s # t
      BY <2>3 DEF BootRemove, Remove, RemoveRefused, Exists, TypeOK
    <3>2. phase = "reconcile" /\ phase' = phase /\ status' = status /\ linked' = linked
      BY <2>3 DEF BootRemove, row
    <3>3. todo' = todo \ {t}
      BY <2>3 DEF BootRemove
    <3> QED
      BY <3>1, <3>2, <3>3 DEF OrphansListed
  <2>4. ASSUME NEW t \in Sessions, BootMark(t) PROVE OrphansListed'
    <3>1. phase = "mark" /\ phase' = phase /\ todo' = todo \ {t} /\ linked' = linked
      BY <2>4 DEF BootMark
    <3>2. \A s \in Sessions : Exists(s)' = Exists(s)
      BY <2>4 DEF BootMark, Exists
    <3>3. ~Exists(t)
      BY <2>4, <3>1 DEF BootMark, OrphansListed
    <3>4. \A s \in Sessions : s # t => status'[s] = status[s]
      BY <2>4 DEF BootMark, WriteStatus, TypeOK
    <3>5. \A s \in todo' : ~Exists(s)'
      BY <3>1, <3>2 DEF OrphansListed, TypeOK
    <3> QED
      BY <3>1, <3>2, <3>3, <3>4, <3>5 DEF OrphansListed
  <2>5. ASSUME NEW t \in Sessions, Passage(t) PROVE OrphansListed'
    <3>1. status' = status /\ linked' = linked /\ todo' = todo /\ phase' = phase
      BY <2>5 DEF Passage, Age, GraceOver, ContainerExit, row, process
    <3>2. \A s \in Sessions : Exists(s)' = Exists(s)
      BY <2>5 DEF Passage, Age, GraceOver, ContainerExit, TypeOK, Exists
    <3> QED
      BY <3>1, <3>2 DEF OrphansListed, TypeOK
  <2>6. CASE UNCHANGED vars
    BY <2>6 DEF vars, row, process, OrphansListed, Exists
  <2>7. ~BootListen /\ ~DrainExit /\ ~Crash
    BY DEF BootListen, DrainExit, Crash, ProcessEnds
  <2> QED
    BY <2>1, <2>2, <2>3, <2>4, <2>5, <2>6, <2>7, BootStep DEF Boot
<1>3. OrphansListed => OrphansRemoved
  BY DEF OrphansListed, OrphansRemoved, Booted
<1> QED
  BY <1>1, <1>2, <1>3, TypeCorrect, QuietStep, PTL DEF Spec

-----------------------------------------------------------------------------
(* Verdicts.                                                               *)

\* A solved challenge is never taken back from an account that still exists.
THEOREM ProgressStickyAlways == Spec => ProgressSticky
<1>1. TypeOK /\ [Next]_vars =>
        [\A u \in accounts' : progress[u] = "solved" => progress'[u] = "solved"]_vars
  <2> SUFFICES ASSUME TypeOK, Next, NEW u \in accounts', progress[u] = "solved"
               PROVE  progress'[u] = "solved"
    OBVIOUS
  <2>1. ASSUME NEW r \in Requests, CheckProgress(r) PROVE progress'[u] = "solved"
    BY <2>1 DEF CheckProgress, BestStatus, TypeOK
  <2>2. ASSUME NEW r \in Requests, DeleteUser(r) PROVE progress'[u] = "solved"
    BY <2>2 DEF DeleteUser, TypeOK
  <2>3. CASE progress' = progress
    BY <2>3
  <2>4. \/ progress' = progress
        \/ \E r \in Requests : CheckProgress(r) \/ DeleteUser(r)
    <3>1. ASSUME NEW r \in Requests, ClientRequest(r) PROVE progress' = progress
      BY <3>1 DEF ClientRequest, StartRequest, StopRequest, CheckRequest, DeleteRequest, Arrive,
         records
    <3>2. ASSUME NEW r \in Requests, Handle(r)
          PROVE  progress' = progress \/ CheckProgress(r) \/ DeleteUser(r)
      BY <3>2 DEF Handle, StartStep, StopStep, CheckStep, DeleteStep, records, StartCount,
         StartPrior, StartInsert, Provision, Launch, ProvisionFails, StartPublish, StartFail,
         StopRead, StopDestroy, StopUpdate, CheckRead, CheckMark, CheckExec, CheckExit,
         CheckRecord, CheckVerdict, DeleteActive, QueryFails
    <3>3. ASSUME NEW p \in Sweeps, SweepStep(p) \/ (p \in Reapers /\ Reap(p))
          PROVE  progress' = progress
      BY <3>3 DEF SweepStep, SweepDestroy, SweepUpdate, SweepQueryFails, Reap, ReapTick,
         ReapSolved, ReapDone, records
    <3>4. Boot \/ Sigterm \/ DrainExit \/ Crash => progress' = progress
      BY DEF Boot, BootList, BootRemove, BootScan, BootMark, BootListen, Sigterm, DrainExit,
         Crash, ProcessEnds, records
    <3>5. ASSUME NEW s \in Sessions, Passage(s) \/ \E v \in accounts : Heartbeat(v, s)
          PROVE  progress' = progress
      BY <3>5 DEF Passage, Age, GraceOver, ContainerExit, Heartbeat, records
    <3> QED
      BY <3>1, <3>2, <3>3, <3>4, <3>5 DEF Next, Sweeps
  <2> QED
    BY <2>1, <2>2, <2>3, <2>4
<1> QED
  BY <1>1, TypeCorrect, PTL DEF Spec, ProgressSticky

Checking == {"read", "mark", "exec", "exit", "record", "verdict", "progress"}

\* What a handler inside checkSession knows: the session it works on is its
\* user's, and a passed verdict it still carries has been recorded.
HandlerOK(h) ==
  /\ h.pc \in Checking => h.sess \in Sessions
  /\ h.pc \in Checking \ {"read"} => status[h.sess] # "none" /\ owner[h.sess] = h.user
  /\ h.pc \in {"verdict", "progress"} /\ h.passed /\ h.user \in accounts => credited[h.sess]

\* The inductive invariant under SolvedBacked: the foreign keys of sessions and
\* check_attempts, and HandlerOK of every handler in flight.
Recorded ==
  /\ \A s \in Sessions : Row(s) => owner[s] \in accounts
  /\ \A s \in Sessions : credited[s] => Row(s)
  /\ \A r \in Requests : HandlerOK(req[r])
  /\ SolvedBacked

\* A step that leaves the records alone, writes no verdict and moves a handler
\* within checkSession only as HandlerOK allows keeps the invariant.
LEMMA RecordedFrame ==
  ASSUME TypeOK, Recorded, UNCHANGED records,
         status' = status \/ \E s \in Sessions \cup {NoSession}, st \in Statuses \ {"solved"} : WriteStatus(s, st),
         \A r \in Requests :
           req'[r] = req[r] \/ req'[r].pc \notin Checking \/ HandlerOK(req'[r])
  PROVE  Recorded'
<1>1. \A s \in Sessions : /\ Row(s)' = Row(s)
                          /\ (status'[s] = "none") = (status[s] = "none")
                          /\ status'[s] = "solved" => status[s] = "solved"
  BY DEF WriteStatus, Row, TypeOK, Statuses, Active
<1>2. accounts' = accounts /\ owner' = owner /\ credited' = credited /\ progress' = progress
  BY DEF records
<1>3. ASSUME NEW r \in Requests PROVE HandlerOK(req[r])'
  <2>1. CASE req'[r].pc \notin Checking
    BY <2>1 DEF HandlerOK, Checking
  <2>2. CASE HandlerOK(req'[r])
    BY <1>1, <1>2, <2>2 DEF HandlerOK
  <2> QED
    BY <2>1, <2>2 DEF Recorded
<1>4. SolvedBacked'
  BY <1>1, <1>2 DEF Recorded, SolvedBacked
<1> QED
  BY <1>1, <1>2, <1>3, <1>4 DEF Recorded

\* Where the handlers stand after each kind of move.
LEMMA GotoMoves ==
  ASSUME TypeOK, NEW r \in Requests, NEW pc, Goto(r, pc)
  PROVE  /\ req'[r].pc = pc /\ req'[r].sess = req[r].sess
         /\ req'[r].user = req[r].user /\ req'[r].passed = req[r].passed
         /\ \A q \in Requests \ {r} : req'[q] = req[q]
BY DEF TypeOK, Handlers, Goto

LEMMA OtherMoves ==
  ASSUME TypeOK, NEW r \in Requests,
         Finish(r) \/ (\E s, pc : pc \notin Checking /\ On(r, s, pc))
                   \/ (\E op, u, s, pc : pc \notin Checking /\ Arrive(r, op, u, s, pc))
  PROVE  \A q \in Requests : req'[q] = req[q] \/ req'[q].pc \notin Checking
<1>1. CASE Finish(r)
  BY <1>1 DEF TypeOK, Finish, NoReq, Checking
<1>2. ASSUME NEW s, NEW pc, pc \notin Checking, On(r, s, pc)
      PROVE  \A q \in Requests : req'[q] = req[q] \/ req'[q].pc \notin Checking
  <2>1. req' = [req EXCEPT ![r] = [[req[r] EXCEPT !.sess = s] EXCEPT !.pc = pc]]
    BY <1>2 DEF On
  <2>2. [[req[r] EXCEPT !.sess = s] EXCEPT !.pc = pc].pc = pc
    BY DEF TypeOK, Handlers
  <2> QED
    BY <1>2, <2>1, <2>2 DEF TypeOK
<1>3. ASSUME NEW op, NEW u, NEW s, NEW pc, pc \notin Checking, Arrive(r, op, u, s, pc)
      PROVE  \A q \in Requests : req'[q] = req[q] \/ req'[q].pc \notin Checking
  BY <1>3 DEF TypeOK, Arrive
<1> QED
  BY <1>1, <1>2, <1>3

LEMMA RecordedInit == Init => Recorded
BY DEF Init, Recorded, HandlerOK, NoReq, Checking, SolvedBacked, Row, Statuses, Active

LEMMA RecordedStep == TypeOK /\ Recorded /\ [Next]_vars => Recorded'
<1> SUFFICES ASSUME TypeOK, Recorded, [Next]_vars PROVE Recorded'
  OBVIOUS
<1> DEFINE Away == \A q \in Requests : req'[q] = req[q] \/ req'[q].pc \notin Checking
           Kept == status' = status \/ \E s \in Sessions \cup {NoSession},
                     st \in Statuses \ {"solved"} : WriteStatus(s, st)
<1>0. \A r \in Requests : req[r].sess \in Sessions \cup {NoSession}
  BY DEF TypeOK, Handlers
<1>1. ASSUME NEW r \in Requests, ClientRequest(r) PROVE Recorded'
  <2>1. UNCHANGED records /\ status' = status
    BY <1>1 DEF ClientRequest, StartRequest, StopRequest, CheckRequest, DeleteRequest, Arrive, row
  <2>2. CASE \E u \in accounts, s \in Sessions : CheckRequest(r, u, s)
    <3>1. \A q \in Requests : q # r => req'[q] = req[q]
      BY <2>2 DEF CheckRequest, Arrive, TypeOK
    <3>2. req'[r].pc = "read" /\ req'[r].sess \in Sessions
      BY <2>2 DEF CheckRequest, Arrive, TypeOK
    <3> QED
      BY <2>1, <3>1, <3>2 DEF Recorded, HandlerOK, SolvedBacked, Row, records
  <2>3. CASE ~\E u \in accounts, s \in Sessions : CheckRequest(r, u, s)
    <3>1. Away
      BY <1>1, <2>3, OtherMoves DEF ClientRequest, StartRequest, StopRequest, DeleteRequest, Checking
    <3> QED
      BY <2>1, <3>1, RecordedFrame
  <2> QED
    BY <2>2, <2>3
<1>2. ASSUME NEW r \in Requests, StartStep(r), ~StartInsert(r) PROVE Recorded'
  <2>1. Away
    <3>1. CASE StartCount(r)
      BY <3>1, GotoMoves, OtherMoves DEF StartCount, Checking
    <3>2. CASE StartPrior(r)
      BY <3>2, GotoMoves, OtherMoves DEF StartPrior, Checking
    <3>3. CASE Provision(r) \/ Launch(r) \/ ProvisionFails(r)
      BY <3>3, GotoMoves DEF Provision, Launch, ProvisionFails, Checking
    <3>4. CASE StartPublish(r) \/ StartFail(r)
      BY <3>4, OtherMoves DEF StartPublish, StartFail
    <3> QED
      BY <1>2, <3>1, <3>2, <3>3, <3>4 DEF StartStep
  <2>2. UNCHANGED records
    BY <1>2 DEF StartStep, StartCount, StartPrior, Provision, Launch, ProvisionFails,
       StartPublish, StartFail
  <2>3. Kept
    BY <1>0, <1>2 DEF StartStep, StartCount, StartPrior, Provision, Launch, ProvisionFails,
       StartPublish, StartFail, row, Statuses, Active
  <2> QED
    BY <2>1, <2>2, <2>3, RecordedFrame
<1>4. ASSUME NEW r \in Requests, StopStep(r) PROVE Recorded'
  <2>1. Away
    <3>1. CASE StopRead(r)
      BY <3>1, GotoMoves, OtherMoves DEF StopRead, Checking
    <3>2. CASE StopDestroy(r)
      BY <3>2, GotoMoves, OtherMoves DEF StopDestroy, Checking
    <3>3. CASE StopUpdate(r)
      BY <3>3, OtherMoves DEF StopUpdate, Checking
    <3> QED
      BY <1>4, <3>1, <3>2, <3>3 DEF StopStep
  <2>2. UNCHANGED records
    BY <1>4 DEF StopStep, StopRead, StopDestroy, StopUpdate
  <2>3. Kept
    BY <1>0, <1>4 DEF StopStep, StopRead, StopDestroy, StopUpdate, row, Statuses
  <2> QED
    BY <2>1, <2>2, <2>3, RecordedFrame
<1>6. ASSUME NEW r \in Requests, DeleteActive(r) \/ QueryFails(r) PROVE Recorded'
  <2>1. Away
    BY <1>6, GotoMoves, OtherMoves DEF DeleteActive, QueryFails, Checking
  <2>2. UNCHANGED records /\ status' = status
    BY <1>6 DEF DeleteActive, QueryFails, row
  <2> QED
    BY <2>1, <2>2, RecordedFrame
<1>8. ASSUME NEW s \in Sessions, Passage(s) \/ \E u \in accounts : Heartbeat(u, s)
      PROVE  Recorded'
  BY <1>8, RecordedFrame DEF Passage, Age, GraceOver, ContainerExit, Heartbeat, records, row
<1>9. ASSUME NEW p \in Sweeps, SweepStep(p) \/ (p \in Reapers /\ Reap(p)) PROVE Recorded'
  <2>1. UNCHANGED records /\ req' = req
    BY <1>9 DEF SweepStep, SweepDestroy, SweepUpdate, SweepQueryFails, Reap, ReapTick,
       ReapSolved, ReapDone
  <2>2. Kept
    <3>1. sweep[p].cur \in Sessions \cup {NoSession}
      BY DEF TypeOK, SweepRuns
    <3>2. CASE SweepUpdate(p)
      BY <3>1, <3>2 DEF SweepUpdate, Statuses
    <3>3. CASE ~SweepUpdate(p)
      BY <1>9, <3>3 DEF SweepStep, SweepDestroy, SweepQueryFails, Reap, ReapTick,
         ReapSolved, ReapDone, row
    <3> QED
      BY <3>2, <3>3
  <2> QED
    BY <2>1, <2>2, RecordedFrame
<1>11. CASE Boot
  <2>1. UNCHANGED records /\ req' = req
    BY <1>11 DEF Boot, BootList, BootRemove, BootScan, BootMark, BootListen
  <2>2. Kept
    BY <1>11 DEF Boot, BootList, BootRemove, BootScan, BootMark, BootListen, row, Statuses
  <2> QED
    BY <2>1, <2>2, RecordedFrame
<1>12. CASE Sigterm \/ DrainExit \/ Crash
  <2>1. UNCHANGED records /\ status' = status
    BY <1>12 DEF Sigterm, DrainExit, Crash, ProcessEnds, row
  <2>2. Away
    BY <1>12 DEF Sigterm, DrainExit, Crash, ProcessEnds, NoReq, Checking
  <2> QED
    BY <2>1, <2>2, RecordedFrame
<1>14. CASE UNCHANGED vars
  BY <1>14, RecordedFrame DEF vars, row
<1>3. ASSUME NEW r \in Requests, StartInsert(r) PROVE Recorded'
  <2>1. CASE req[r].user \notin accounts
    BY <1>3, <2>1, OtherMoves, RecordedFrame DEF StartInsert, row
  <2>2. CASE req[r].user \in accounts
    <3>1. PICK s \in Unused : /\ status' = [status EXCEPT ![s] = "starting"]
                              /\ owner' = [owner EXCEPT ![s] = req[r].user]
                              /\ On(r, s, "provision")
      BY <1>3, <2>2 DEF StartInsert
    <3>2. accounts' = accounts /\ credited' = credited /\ progress' = progress
      BY <1>3, <2>2 DEF StartInsert
    <3>3. s \in Sessions /\ status[s] = "none" /\ ~credited[s]
      BY DEF Unused, Recorded, Row, Statuses, Active
    <3>4. \A t \in Sessions : t # s => status'[t] = status[t] /\ owner'[t] = owner[t]
      BY <3>1 DEF TypeOK
    <3>5. status'[s] = "starting" /\ owner'[s] \in accounts
      BY <2>2, <3>1, <3>3 DEF TypeOK
    <3>6. Away
      BY <3>1, OtherMoves DEF Checking
    <3>7. ASSUME NEW q \in Requests PROVE HandlerOK(req[q])'
      <4>1. CASE req'[q].pc \notin Checking
        BY <4>1 DEF HandlerOK, Checking
      <4>2. CASE req'[q] = req[q] /\ req[q].pc \in Checking
        BY <4>2, <3>2, <3>3, <3>4, <3>5 DEF HandlerOK, Recorded
      <4> QED
        BY <4>1, <4>2, <3>6
    <3>8. SolvedBacked'
      BY <3>2, <3>3, <3>4, <3>5 DEF SolvedBacked, Recorded
    <3>9. \A t \in Sessions : Row(t)' => owner'[t] \in accounts'
      BY <3>2, <3>4, <3>5 DEF Recorded, Row
    <3>10. \A t \in Sessions : credited'[t] => Row(t)'
      BY <3>2, <3>3, <3>4 DEF Recorded, Row
    <3> QED
      BY <3>7, <3>8, <3>9, <3>10 DEF Recorded
  <2> QED
    BY <2>1, <2>2
<1>5. ASSUME NEW r \in Requests, CheckStep(r) PROVE Recorded'
  <2> DEFINE s == req[r].sess
  <2>1. CASE CheckRead(r)
    <3>1. UNCHANGED records /\ status' = status
      BY <2>1 DEF CheckRead, row
    <3>2. CASE Finish(r)
      BY <3>1, <3>2, OtherMoves, RecordedFrame
    <3>3. CASE Row(s) /\ owner[s] = req[r].user /\ Goto(r, "mark")
      <4>1. HandlerOK(req'[r])
        BY <2>1, <3>3, GotoMoves DEF CheckRead, At, HandlerOK, Recorded, Checking, Row, Statuses, Active
      <4> QED
        BY <3>1, <3>3, <4>1, GotoMoves, RecordedFrame
    <3> QED
      BY <2>1, <3>2, <3>3 DEF CheckRead
  <2>2. CASE CheckMark(r)
    <3>1. HandlerOK(req'[r])
      BY <2>2, GotoMoves DEF CheckMark, At, HandlerOK, Recorded, Checking
    <3>2. \A q \in Requests \ {r} : req'[q] = req[q]
      BY <2>2, GotoMoves DEF CheckMark
    <3>3. UNCHANGED records /\ WriteStatus(s, "checking") /\ "checking" \in Statuses \ {"solved"}
      BY <2>2 DEF CheckMark, Statuses, Active
    <3> QED
      BY <1>0, <3>1, <3>2, <3>3, RecordedFrame
  <2>3. CASE CheckExec(r)
    <3>1. UNCHANGED records /\ status' = status
      BY <2>3 DEF CheckExec, row
    <3>2. CASE Finish(r)
      BY <3>1, <3>2, OtherMoves, RecordedFrame
    <3>3. CASE Goto(r, "exit")
      <4>1. HandlerOK(req'[r])
        BY <2>3, <3>3, GotoMoves DEF CheckExec, At, HandlerOK, Recorded, Checking
      <4> QED
        BY <3>1, <3>3, <4>1, GotoMoves, RecordedFrame
    <3> QED
      BY <2>3, <3>2, <3>3 DEF CheckExec
  <2>4. CASE CheckExit(r)
    <3>1. UNCHANGED records /\ status' = status
      BY <2>4 DEF CheckExit, row
    <3>2. CASE Finish(r)
      BY <3>1, <3>2, OtherMoves, RecordedFrame
    <3>3. CASE ~Finish(r)
      <4>1. PICK passed \in BOOLEAN :
              req' = [req EXCEPT ![r].passed = passed, ![r].pc = "record"]
        BY <2>4, <3>3 DEF CheckExit
      <4>2. req' = [req EXCEPT ![r] = [[req[r] EXCEPT !.passed = passed] EXCEPT !.pc = "record"]]
        BY <4>1
      <4>3. /\ req'[r].pc = "record" /\ req'[r].sess = s /\ req'[r].user = req[r].user
            /\ \A q \in Requests \ {r} : req'[q] = req[q]
        BY <4>2 DEF TypeOK, Handlers
      <4>4. HandlerOK(req'[r])
        BY <2>4, <4>3 DEF CheckExit, At, HandlerOK, Recorded, Checking
      <4> QED
        BY <3>1, <4>3, <4>4, RecordedFrame
    <3> QED
      BY <3>2, <3>3
  <2>5. CASE CheckRecord(r)
    <3>1. CASE ~Row(s)
      BY <2>5, <3>1, OtherMoves, RecordedFrame DEF CheckRecord, records, row
    <3>2. CASE Row(s)
      <4>1. /\ accounts' = accounts /\ owner' = owner /\ progress' = progress /\ status' = status
            /\ credited' = [credited EXCEPT ![s] = credited[s] \/ req[r].passed]
            /\ Goto(r, "verdict")
        BY <2>5, <3>2 DEF CheckRecord, row
      <4>2. s \in Sessions /\ status[s] # "none" /\ owner[s] = req[r].user
        BY <2>5 DEF CheckRecord, At, Recorded, HandlerOK, Checking
      <4>3. \A t \in Sessions : credited[t] => credited'[t]
        BY <4>1 DEF TypeOK
      <4>4. req[r].passed => credited'[s]
        BY <4>1, <4>2 DEF TypeOK
      <4>5. HandlerOK(req[r])'
        BY <4>1, <4>2, <4>4, GotoMoves DEF HandlerOK, Checking
      <4>6. ASSUME NEW q \in Requests \ {r} PROVE HandlerOK(req[q])'
        BY <4>1, <4>3, GotoMoves DEF HandlerOK, Recorded, Checking
      <4>7. \A t \in Sessions : credited'[t] => Row(t)'
        BY <3>2, <4>1, <4>2 DEF Recorded, Row, TypeOK
      <4> QED
        BY <4>1, <4>3, <4>5, <4>6, <4>7 DEF Recorded, SolvedBacked, Row
    <3> QED
      BY <3>1, <3>2
  <2>6. CASE CheckVerdict(r)
    <3>1. /\ UNCHANGED records /\ Goto(r, "progress")
          /\ WriteStatus(s, IF req[r].passed THEN "solved" ELSE "running")
      BY <2>6 DEF CheckVerdict
    <3>2. HandlerOK(req[r]) /\ req[r].pc = "verdict"
      BY <2>6 DEF CheckVerdict, At, Recorded
    <3>3. HandlerOK(req'[r]) /\ \A q \in Requests \ {r} : req'[q] = req[q]
      BY <3>1, <3>2, GotoMoves DEF HandlerOK, Checking
    <3>4. CASE ~req[r].passed
      <4>1. WriteStatus(s, "running") /\ "running" \in Statuses \ {"solved"}
        BY <3>1, <3>4 DEF Statuses, Active
      <4> QED
        BY <1>0, <3>1, <3>3, <4>1, RecordedFrame
    <3>5. CASE req[r].passed
      <4>1. s \in Sessions /\ owner[s] = req[r].user /\ (req[r].user \in accounts => credited[s])
        BY <3>2, <3>5 DEF HandlerOK, Checking
      <4>2. Row(s) => credited[s]
        BY <4>1 DEF Recorded
      <4>3. \A t \in Sessions : /\ Row(t)' = Row(t)
                                /\ (status'[t] = "none") = (status[t] = "none")
                                /\ status'[t] = "solved" => status[t] = "solved" \/ (t = s /\ Row(s))
        BY <3>1, <3>5 DEF WriteStatus, Row, TypeOK, Statuses, Active
      <4>4. accounts' = accounts /\ owner' = owner /\ credited' = credited /\ progress' = progress
        BY <3>1 DEF records
      <4>5. ASSUME NEW q \in Requests PROVE HandlerOK(req[q])'
        <5>1. HandlerOK(req'[q])
          BY <3>3 DEF Recorded
        <5> QED
          BY <4>3, <4>4, <5>1 DEF HandlerOK
      <4>6. SolvedBacked'
        BY <4>2, <4>3, <4>4 DEF SolvedBacked, Recorded
      <4> QED
        BY <4>3, <4>4, <4>5, <4>6 DEF Recorded
    <3> QED
      BY <3>4, <3>5
  <2>7. CASE CheckProgress(r)
    <3>1. /\ accounts' = accounts /\ owner' = owner /\ credited' = credited /\ status' = status
          /\ Finish(r)
      BY <2>7 DEF CheckProgress, row
    <3>2. Away
      BY <3>1, OtherMoves
    <3>3. ASSUME NEW q \in Requests PROVE HandlerOK(req[q])'
      <4>1. CASE req'[q].pc \notin Checking
        BY <4>1 DEF HandlerOK, Checking
      <4>2. CASE req'[q] = req[q]
        BY <3>1, <4>2 DEF HandlerOK, Recorded
      <4> QED
        BY <3>2, <4>1, <4>2
    <3>4. ASSUME NEW u \in Users, progress'[u] = "solved"
          PROVE  \E t \in Sessions : owner[t] = u /\ credited[t]
      <4>1. CASE progress[u] = "solved"
        BY <4>1 DEF Recorded, SolvedBacked
      <4>2. CASE progress[u] # "solved"
        <5>1. u = req[r].user /\ u \in accounts /\ req[r].passed
          BY <2>7, <3>4, <4>2 DEF CheckProgress, BestStatus, TypeOK
        <5>2. HandlerOK(req[r]) /\ req[r].pc = "progress"
          BY <2>7 DEF CheckProgress, At, Recorded
        <5> QED
          BY <5>1, <5>2 DEF HandlerOK, Checking
      <4> QED
        BY <4>1, <4>2
    <3> QED
      BY <3>1, <3>3, <3>4 DEF Recorded, SolvedBacked, Row
  <2> QED
    BY <1>5, <2>1, <2>2, <2>3, <2>4, <2>5, <2>6, <2>7 DEF CheckStep
<1>7. ASSUME NEW r \in Requests, DeleteUser(r) PROVE Recorded'
  <2> DEFINE u == req[r].user
             gone == {s \in Sessions : Row(s) /\ owner[s] = u}
  <2>1. /\ accounts' = accounts \ {u} /\ owner' = owner
        /\ progress' = [progress EXCEPT ![u] = "none"]
        /\ status' = [s \in Sessions |-> IF s \in gone THEN "deleted" ELSE status[s]]
        /\ credited' = [s \in Sessions |-> credited[s] /\ s \notin gone]
    BY <1>7 DEF DeleteUser
  <2>2. \A s \in Sessions : /\ Row(s)' = (Row(s) /\ owner[s] # u)
                            /\ credited'[s] = (credited[s] /\ owner[s] # u)
                            /\ status'[s] # "none" \/ status[s] = "none"
    BY <2>1 DEF Row, Recorded, TypeOK, Statuses, Active
  <2>3. Away
    BY <1>7, OtherMoves DEF DeleteUser
  <2>4. ASSUME NEW q \in Requests PROVE HandlerOK(req[q])'
    <3>1. CASE req'[q].pc \notin Checking
      BY <3>1 DEF HandlerOK, Checking
    <3>2. CASE req'[q] = req[q] /\ req[q].pc \in Checking
      BY <2>1, <2>2, <3>2 DEF HandlerOK, Recorded, Checking
    <3> QED
      BY <2>3, <3>1, <3>2
  <2>5. SolvedBacked'
    <3>1. ASSUME NEW s \in Sessions, status'[s] = "solved" PROVE credited'[s]
      BY <2>1, <2>2, <3>1 DEF Recorded, SolvedBacked, Row, Statuses
    <3>2. ASSUME NEW v \in Users, progress'[v] = "solved"
          PROVE  \E s \in Sessions : owner'[s] = v /\ credited'[s]
      <4>1. v # u /\ progress[v] = "solved"
        BY <2>1, <3>2 DEF TypeOK
      <4>2. PICK s \in Sessions : owner[s] = v /\ credited[s]
        BY <4>1 DEF Recorded, SolvedBacked
      <4> QED
        BY <2>1, <2>2, <4>1, <4>2
    <3> QED
      BY <3>1, <3>2 DEF SolvedBacked
  <2>6. \A s \in Sessions : Row(s)' => owner'[s] \in accounts'
    BY <2>1, <2>2 DEF Recorded
  <2>7. \A s \in Sessions : credited'[s] => Row(s)'
    BY <2>1, <2>2 DEF Recorded
  <2> QED
    BY <2>4, <2>5, <2>6, <2>7 DEF Recorded
<1> QED
  BY <1>1, <1>2, <1>3, <1>4, <1>5, <1>6, <1>7, <1>8, <1>9, <1>11, <1>12, <1>14
     DEF Next, Handle, DeleteStep, Sweeps

\* A verdict is never invented: solved sessions and solved progress rows have a
\* passed attempt on record, whatever interleaves, fails or crashes.
THEOREM SolvedBackedAlways == Spec => []SolvedBacked
<1>1. Recorded => SolvedBacked
  BY DEF Recorded
<1> QED
  BY <1>1, RecordedInit, RecordedStep, TypeCorrect, PTL DEF Spec

-----------------------------------------------------------------------------
(* What a step of one actor leaves to the others.                          *)

\* A step of a handler moves no other handler.
LEMMA OnlyOwn ==
  ASSUME TypeOK, NEW r \in Requests, ClientRequest(r) \/ Handle(r)
  PROVE  \A q \in Requests \ {r} : req'[q] = req[q]
<1>1. CASE ClientRequest(r)
  BY <1>1 DEF ClientRequest, StartRequest, StopRequest, CheckRequest, DeleteRequest, Arrive, TypeOK
<1>2. ASSUME \/ Finish(r) \/ \E pc : Goto(r, pc) \/ \E s : On(r, s, pc)
             \/ \E passed : req' = [req EXCEPT ![r].passed = passed, ![r].pc = "record"]
      PROVE  \A q \in Requests \ {r} : req'[q] = req[q]
  BY <1>2 DEF Finish, Goto, On, TypeOK
<1>3. CASE StartStep(r)
  BY <1>2, <1>3 DEF StartStep, StartCount, StartPrior, StartInsert, Provision, Launch,
     ProvisionFails, StartPublish, StartFail
<1>4. CASE StopStep(r)
  BY <1>2, <1>4 DEF StopStep, StopRead, StopDestroy, StopUpdate
<1>5. CASE CheckStep(r)
  BY <1>2, <1>5 DEF CheckStep, CheckRead, CheckMark, CheckExec, CheckExit, CheckRecord,
     CheckVerdict, CheckProgress
<1>6. CASE DeleteStep(r) \/ QueryFails(r)
  BY <1>2, <1>6 DEF DeleteStep, DeleteActive, DeleteUser, QueryFails
<1> QED
  BY <1>1, <1>3, <1>4, <1>5, <1>6 DEF Handle

\* Nobody else moves the handlers, but the end of the process takes them all.
LEMMA NoHandler ==
  ASSUME [Next]_vars, \A r \in Requests : ~ClientRequest(r) /\ ~Handle(r)
  PROVE  \/ UNCHANGED req
         \/ (DrainExit \/ Crash) /\ req' = [r \in Requests |-> NoReq]
BY DEF Next, Heartbeat, Passage, Age, GraceOver, ContainerExit, Reap, ReapTick, ReapSolved,
   ReapDone, SweepStep, SweepDestroy, SweepUpdate, SweepQueryFails, Boot, BootList, BootScan,
   BootListen, BootRemove, BootMark, Sigterm, DrainExit, Crash, ProcessEnds, vars

\* The records are written by four steps.
LEMMA RecordWriters ==
  ASSUME [Next]_vars
  PROVE  \/ UNCHANGED records
         \/ \E r \in Requests : StartInsert(r) \/ CheckRecord(r) \/ CheckProgress(r) \/ DeleteUser(r)
<1>1. ASSUME NEW r \in Requests, ClientRequest(r) \/ Handle(r)
      PROVE  \/ UNCHANGED records
             \/ StartInsert(r) \/ CheckRecord(r) \/ CheckProgress(r) \/ DeleteUser(r)
  <2>1. CASE ClientRequest(r)
    BY <2>1 DEF ClientRequest, StartRequest, StopRequest, CheckRequest, DeleteRequest, Arrive
  <2>2. CASE Handle(r)
    BY <2>2 DEF Handle, StartStep, StopStep, CheckStep, DeleteStep, StartCount, StartPrior,
       Provision, Launch, ProvisionFails, StartPublish, StartFail, StopRead, StopDestroy,
       StopUpdate, CheckRead, CheckMark, CheckExec, CheckExit, CheckVerdict, DeleteActive,
       QueryFails
  <2> QED
    BY <1>1, <2>1, <2>2
<1>2. ASSUME \A r \in Requests : ~ClientRequest(r) /\ ~Handle(r)
      PROVE  UNCHANGED records
  BY <1>2 DEF Next, Heartbeat, Passage, Age, GraceOver, ContainerExit, Reap, ReapTick,
     ReapSolved, ReapDone, SweepStep, SweepDestroy, SweepUpdate, SweepQueryFails, Boot,
     BootList, BootScan, BootListen, BootRemove, BootMark, Sigterm, DrainExit, Crash,
     ProcessEnds, vars
<1> QED
  BY <1>1, <1>2

-----------------------------------------------------------------------------
(* Credit.                                                                 *)

Granting(r, s) ==
  req[r].sess = s /\ req[r].passed /\ req[r].pc \in {"verdict", "progress"}

\* A handler that owes the user its progress keeps at it.
LEMMA GrantingStep ==
  ASSUME TypeOK, "query" \notin Faults, [Next]_vars, ~DrainExit, ~Crash,
         NEW r \in Requests, NEW s \in Sessions, Granting(r, s)
  PROVE  Granting(r, s)' \/ (CheckProgress(r) /\ req[r].pc = "progress")
<1>1. CASE Handle(r)
  <2>1. CheckVerdict(r) \/ CheckProgress(r)
    BY <1>1 DEF Granting, Handle, StartStep, StopStep, CheckStep, DeleteStep, At, StartCount,
       StartPrior, StartInsert, Provision, Launch, ProvisionFails, StartPublish, StartFail,
       StopRead, StopDestroy, StopUpdate, CheckRead, CheckMark, CheckExec, CheckExit,
       CheckRecord, DeleteActive, DeleteUser, QueryFails
  <2>2. CASE CheckVerdict(r)
    BY <2>2, GotoMoves DEF CheckVerdict, Granting
  <2> QED
    BY <2>1, <2>2 DEF CheckProgress, At
<1>2. CASE ~Handle(r)
  <2>1. ~ClientRequest(r)
    BY DEF Granting, ClientRequest, StartRequest, StopRequest, CheckRequest, DeleteRequest,
       Arrive, At
  <2>2. req'[r] = req[r]
    BY <1>2, <2>1, OnlyOwn, NoHandler
  <2> QED
    BY <2>2 DEF Granting
<1> QED
  BY <1>1, <1>2

\* While the process lives, what is owed is granted.
Owing ==
  /\ phase # "draining"
  /\ \A s \in Sessions : credited[s] =>
       progress[owner[s]] = "solved" \/ \E r \in Requests : Granting(r, s)

LEMMA OwingStep ==
  ASSUME {"crash", "query", "term"} \cap Faults = {}, TypeOK, Recorded, Owing, [Next]_vars
  PROVE  Owing'
<1>1. ~Sigterm /\ ~Crash /\ ~DrainExit
  BY DEF Sigterm, Crash, DrainExit, Owing
<1>2. phase' # "draining"
  <2>1. ASSUME NEW r \in Requests, ClientRequest(r) \/ Handle(r)
        PROVE  phase' = phase
    <3>1. CASE ClientRequest(r)
      BY <3>1 DEF ClientRequest, StartRequest, StopRequest, CheckRequest, DeleteRequest, Arrive,
         process
    <3>2. CASE Handle(r)
      BY <3>2 DEF Handle, StartStep, StopStep, CheckStep, DeleteStep, process, StartCount,
         StartPrior, StartInsert, Provision, Launch, ProvisionFails, StartPublish, StartFail,
         StopRead, StopDestroy, StopUpdate, CheckRead, CheckMark, CheckExec, CheckExit,
         CheckRecord, CheckVerdict, CheckProgress, DeleteActive, DeleteUser, QueryFails
    <3> QED
      BY <2>1, <3>1, <3>2
  <2>2. ASSUME \A r \in Requests : ~ClientRequest(r) /\ ~Handle(r)
        PROVE  phase' = phase \/ phase' # "draining"
    BY <1>1, <2>2 DEF Next, process, Heartbeat, Passage, Age, GraceOver, ContainerExit, Reap,
       ReapTick, ReapSolved, ReapDone, SweepStep, SweepDestroy, SweepUpdate, SweepQueryFails,
       Boot, BootList, BootScan, BootListen, BootRemove, BootMark, vars
  <2> QED
    BY <2>1, <2>2 DEF Owing
<1> SUFFICES ASSUME NEW s \in Sessions, credited'[s]
             PROVE  progress'[owner'[s]] = "solved" \/ \E r \in Requests : Granting(r, s)'
  BY <1>2 DEF Owing
\* Whoever owes s its progress now, or is done with it.
<1>3. ASSUME NEW r \in Requests, Granting(r, s), ~(CheckProgress(r) /\ req[r].pc = "progress")
      PROVE  \E q \in Requests : Granting(q, s)'
  BY <1>1, <1>3, GrantingStep
<1>4. CASE UNCHANGED records
  <2>1. UNCHANGED <<owner, credited, progress>>
    BY <1>4 DEF records
  <2>2. ASSUME NEW r \in Requests, CheckProgress(r), Granting(r, s)
        PROVE  progress'[owner'[s]] = "solved"
    <3>1. req[r].user = owner[s] /\ owner[s] \in accounts
      BY <2>1, <2>2 DEF Recorded, HandlerOK, Checking, Granting
    <3> QED
      BY <2>1, <2>2, <3>1 DEF CheckProgress, Granting, BestStatus, TypeOK
  <2> QED
    BY <1>3, <2>1, <2>2 DEF Owing
<1>5. ASSUME NEW r \in Requests, StartInsert(r)
      PROVE  progress'[owner'[s]] = "solved" \/ \E q \in Requests : Granting(q, s)'
  <2>1. credited[s] /\ progress' = progress
    BY <1>5 DEF StartInsert, records
  <2>2. owner'[s] = owner[s]
    <3>1. s \notin Unused
      BY <2>1 DEF Recorded, Row, Unused, Statuses, Active
    <3> QED
      BY <1>5, <3>1 DEF StartInsert, records, TypeOK
  <2>3. ASSUME NEW q \in Requests  PROVE ~(CheckProgress(q) /\ req[q].pc = "progress")
    <3>1. req'[q] = NoReq => req[q] = NoReq \/ q = r
      BY <1>5, OnlyOwn DEF Handle, StartStep
    <3>2. CheckProgress(q) => req'[q] = NoReq
      BY DEF CheckProgress, Finish, TypeOK
    <3> QED
      BY <1>5, <3>1, <3>2 DEF StartInsert, At, NoReq
  <2> QED
    BY <1>3, <2>1, <2>2, <2>3 DEF Owing
<1>6. ASSUME NEW r \in Requests, CheckRecord(r)
      PROVE  progress'[owner'[s]] = "solved" \/ \E q \in Requests : Granting(q, s)'
  <2>1. owner' = owner /\ progress' = progress /\ req[r].pc = "record"
    BY <1>6 DEF CheckRecord, At
  <2>2. CASE credited[s]
    <3>1. ASSUME NEW q \in Requests  PROVE ~(CheckProgress(q) /\ req[q].pc = "progress")
      <4>1. req'[q] = NoReq => req[q] = NoReq \/ q = r
        BY <1>6, OnlyOwn DEF Handle, CheckStep
      <4>2. CheckProgress(q) => req'[q] = NoReq
        BY DEF CheckProgress, Finish, TypeOK
      <4> QED
        BY <2>1, <4>1, <4>2 DEF NoReq
    <3> QED
      BY <1>3, <2>1, <2>2, <3>1 DEF Owing
  <2>3. CASE ~credited[s]
    <3>1. s = req[r].sess /\ req[r].passed /\ Goto(r, "verdict")
      BY <1>6, <2>3 DEF CheckRecord, TypeOK
    <3>2. Granting(r, s)'
      BY <3>1, GotoMoves DEF Granting
    <3> QED
      BY <3>2
  <2> QED
    BY <2>2, <2>3
<1>7. ASSUME NEW r \in Requests, CheckProgress(r)
      PROVE  progress'[owner'[s]] = "solved" \/ \E q \in Requests : Granting(q, s)'
  <2>1. credited[s] /\ owner' = owner /\ req[r].pc = "progress"
    BY <1>7 DEF CheckProgress, At
  <2>2. owner[s] \in accounts
    BY <2>1 DEF Recorded
  <2>3. CASE progress[owner[s]] = "solved"
    BY <1>7, <2>1, <2>3 DEF CheckProgress, BestStatus, TypeOK
  <2>4. CASE Granting(r, s)
    <3>1. req[r].user = owner[s]
      BY <2>4 DEF Recorded, HandlerOK, Checking, Granting
    <3> QED
      BY <1>7, <2>1, <2>2, <2>4, <3>1 DEF CheckProgress, Granting, BestStatus, TypeOK
  <2>5. ASSUME NEW q \in Requests, Granting(q, s), q # r
        PROVE  Granting(q, s)'
    <3>1. req'[q] = req[q]
      BY <1>7, <2>5, OnlyOwn DEF Handle, CheckStep
    <3> QED
      BY <2>5, <3>1 DEF Granting
  <2> QED
    BY <2>1, <2>3, <2>4, <2>5 DEF Owing
<1>8. ASSUME NEW r \in Requests, DeleteUser(r)
      PROVE  progress'[owner'[s]] = "solved" \/ \E q \in Requests : Granting(q, s)'
  <2>1. credited[s] /\ owner' = owner /\ owner[s] # req[r].user
    BY <1>8 DEF DeleteUser, Recorded, TypeOK
  <2>2. progress'[owner[s]] = progress[owner[s]]
    BY <1>8, <2>1 DEF DeleteUser, TypeOK
  <2>3. ASSUME NEW q \in Requests, Granting(q, s)
        PROVE  Granting(q, s)'
    <3>1. q # r
      BY <1>8, <2>3 DEF DeleteUser, At, Granting
    <3>2. req'[q] = req[q]
      BY <1>8, <3>1, OnlyOwn DEF Handle, DeleteStep
    <3> QED
      BY <2>3, <3>2 DEF Granting
  <2> QED
    BY <2>1, <2>2, <2>3 DEF Owing
<1> QED
  BY <1>4, <1>5, <1>6, <1>7, <1>8, RecordWriters

\* A verdict is never lost.  What can lose one is that the process ends, or the
\* query fails, between the recorded attempt and upsertProgress; without that,
\* no interleaving of checks, stops, reaper runs and deletions does.
THEOREM CreditGrantedAlways ==
  ASSUME {"crash", "query", "term"} \cap Faults = {}
  PROVE  Spec => []CreditGranted
<1>1. Init => Owing
  BY DEF Init, Owing
<1>2. TypeOK /\ Recorded /\ Owing /\ [Next]_vars => Owing'
  BY OwingStep
<1>3. Owing => CreditGranted
  BY DEF Owing, CreditGranted, Granting
<1> QED
  BY <1>1, <1>2, <1>3, RecordedInit, RecordedStep, TypeCorrect, PTL DEF Spec

-----------------------------------------------------------------------------
(* startSession.                                                           *)

Provisions == {"provision", "launch", "publish", "fail"}
Stops == {"stopRead", "stopDestroy", "stopUpdate"}

\* The steps that only startSession takes, and what it knows of its new row.
StartOK(h) ==
  /\ h.pc \in {"count", "prior", "insert"} \cup Provisions => h.op = "start"
  /\ h.op = "start" => h.pc \in {"count", "prior", "insert"} \cup Stops \cup Provisions
  /\ h.pc \in Provisions =>
       h.sess \in Sessions /\ owner[h.sess] = h.user /\ status[h.sess] # "none"

Starting == \A r \in Requests : StartOK(req[r])

\* What a handler that stays with its request does to it.
LEMMA OnMoves ==
  ASSUME TypeOK, NEW r \in Requests, NEW s, NEW pc, On(r, s, pc)
  PROVE  /\ req'[r].pc = pc /\ req'[r].sess = s
         /\ req'[r].user = req[r].user /\ req'[r].op = req[r].op
<1>1. req' = [req EXCEPT ![r] = [[req[r] EXCEPT !.sess = s] EXCEPT !.pc = pc]]
  BY DEF On
<1> PICK h : h = req[r]
  OBVIOUS
<1>2. req'[r] = [[h EXCEPT !.sess = s] EXCEPT !.pc = pc] /\ h \in Handlers
  BY <1>1 DEF TypeOK
<1> QED
  BY <1>2 DEF Handlers

LEMMA GotoKeeps ==
  ASSUME TypeOK, NEW r \in Requests, NEW pc, Goto(r, pc)
  PROVE  req'[r].op = req[r].op
BY DEF TypeOK, Handlers, Goto

LEMMA FinishMoves ==
  ASSUME TypeOK, NEW r \in Requests, Finish(r)
  PROVE  req'[r] = NoReq
BY DEF TypeOK, Finish

\* How a handler comes to stand where a start stands.
LEMMA StartMoves ==
  ASSUME TypeOK, Starting, [Next]_vars, NEW r \in Requests,
         req'[r] # req[r], req'[r].op = "start"
  PROVE  \/ ClientRequest(r) /\ req'[r].pc = "count"
         \/ /\ req[r].op = "start" /\ req'[r].user = req[r].user
            /\ \/ StartCount(r) /\ req[r].pc = "count" /\ req'[r].pc = "prior"
                  /\ ~(Cardinality(ActiveSet) >= MaxConcurrentSessions)
               \/ StartPrior(r) /\ req[r].pc = "prior" /\ req'[r].pc = "insert"
                  /\ ActiveOf(req[r].user) = {}
               \/ StartPrior(r) /\ req[r].pc = "prior" /\ req'[r].pc = "stopRead"
                  /\ req'[r].sess \in ActiveOf(req[r].user)
               \/ StopRead(r) /\ req[r].pc = "stopRead" /\ req'[r].sess = req[r].sess
                  /\ req'[r].pc = (IF linked[req[r].sess] THEN "stopDestroy" ELSE "stopUpdate")
               \/ StopDestroy(r) /\ req[r].pc = "stopDestroy" /\ req'[r].pc = "stopUpdate"
                  /\ req'[r].sess = req[r].sess /\ Remove(req[r].sess)
               \/ StopUpdate(r) /\ req[r].pc = "stopUpdate" /\ req'[r].pc = "insert"
               \/ StartInsert(r) /\ req[r].pc = "insert" /\ req'[r].pc = "provision"
                  /\ req'[r].sess \in Unused
                  /\ status' = [status EXCEPT ![req'[r].sess] = "starting"]
                  /\ owner' = [owner EXCEPT ![req'[r].sess] = req[r].user]
               \/ ~StartPublish(r) /\ req'[r].sess = req[r].sess
                  /\ req[r].pc \in {"provision", "launch", "publish"}
                  /\ req'[r].pc \in {"launch", "publish", "fail"}
<1>0. req'[r] # NoReq
  BY DEF NoReq
<1>1. CASE ClientRequest(r)
  BY <1>1 DEF ClientRequest, StartRequest, StopRequest, CheckRequest, DeleteRequest, Arrive, TypeOK
<1>2. CASE StartStep(r)
  <2>1. CASE StartCount(r)
    BY <1>0, <2>1, GotoMoves, GotoKeeps, FinishMoves DEF StartCount, At
  <2>2. CASE StartPrior(r)
    <3>1. CASE ActiveOf(req[r].user) = {}
      BY <2>2, <3>1, GotoMoves, GotoKeeps DEF StartPrior, At
    <3>2. CASE ActiveOf(req[r].user) # {}
      <4>1. PICK s \in ActiveOf(req[r].user) : On(r, s, "stopRead")
        BY <2>2, <3>2 DEF StartPrior
      <4> QED
        BY <2>2, <4>1, OnMoves DEF StartPrior, At
    <3> QED
      BY <3>1, <3>2
  <2>3. CASE StartInsert(r)
    <3>1. PICK s \in Unused : /\ status' = [status EXCEPT ![s] = "starting"]
                              /\ owner'  = [owner EXCEPT ![s] = req[r].user]
                              /\ On(r, s, "provision")
      BY <1>0, <2>3, FinishMoves DEF StartInsert
    <3>2. /\ req[r].pc = "insert" /\ req'[r].pc = "provision" /\ req'[r].sess = s
          /\ req'[r].op = req[r].op /\ req'[r].user = req[r].user
      BY <2>3, <3>1, OnMoves DEF StartInsert, At
    <3> QED
      BY <2>3, <3>1, <3>2
  <2>4. CASE Provision(r) \/ Launch(r) \/ ProvisionFails(r)
    <3>1. /\ req[r].pc \in {"provision", "launch"}
          /\ \E pc \in {"launch", "publish", "fail"} : Goto(r, pc)
      BY <2>4 DEF Provision, Launch, ProvisionFails, At
    <3> QED
      BY <3>1, GotoMoves, GotoKeeps DEF StartPublish, At, Finish
  <2>5. CASE StartPublish(r) \/ StartFail(r)
    BY <1>0, <2>5, FinishMoves DEF StartPublish, StartFail
  <2> QED
    BY <1>2, <2>1, <2>2, <2>3, <2>4, <2>5 DEF StartStep
<1>3. CASE StopStep(r)
  <2>1. CASE StopRead(r)
    BY <1>0, <2>1, GotoMoves, GotoKeeps, FinishMoves DEF StopRead, At
  <2>2. CASE StopDestroy(r)
    BY <1>0, <2>2, GotoMoves, GotoKeeps, FinishMoves DEF StopDestroy, At
  <2>3. CASE StopUpdate(r)
    BY <1>0, <2>3, OnMoves, FinishMoves DEF StopUpdate, At
  <2> QED
    BY <1>3, <2>1, <2>2, <2>3 DEF StopStep
<1>4. CASE CheckStep(r)
  <2>1. req[r].pc \in Checking
    BY <1>4 DEF CheckStep, CheckRead, CheckMark, CheckExec, CheckExit, CheckRecord, CheckVerdict,
       CheckProgress, At, Checking
  <2>2. req[r].op # "start"
    BY <2>1 DEF Starting, StartOK, Checking, Stops, Provisions
  <2>3. ASSUME NEW passed \in BOOLEAN, req' = [req EXCEPT ![r].passed = passed, ![r].pc = "record"]
        PROVE  req'[r].op = req[r].op
    <3> PICK h : h = req[r]
      OBVIOUS
    <3>1. req' = [req EXCEPT ![r] = [[h EXCEPT !.passed = passed] EXCEPT !.pc = "record"]]
      BY <2>3
    <3>2. req'[r] = [[h EXCEPT !.passed = passed] EXCEPT !.pc = "record"] /\ h \in Handlers
      BY <3>1 DEF TypeOK
    <3> QED
      BY <3>2 DEF Handlers
  <2>4. req'[r].op = req[r].op
    BY <1>0, <1>4, <2>3, GotoKeeps, FinishMoves DEF CheckStep, CheckRead, CheckMark, CheckExec,
       CheckExit, CheckRecord, CheckVerdict, CheckProgress
  <2> QED
    BY <2>2, <2>4
<1>5. CASE DeleteStep(r)
  <2>1. req[r].op # "start"
    BY <1>5 DEF Starting, StartOK, DeleteStep, DeleteActive, DeleteUser, At, Stops, Provisions
  <2>2. req'[r].op = req[r].op
    BY <1>0, <1>5, GotoKeeps, OnMoves, FinishMoves DEF DeleteStep, DeleteActive, DeleteUser
  <2> QED
    BY <2>1, <2>2
<1>6. CASE QueryFails(r)
  <2>1. req[r].pc = "publish" /\ Goto(r, "fail")
    BY <1>0, <1>6, FinishMoves DEF QueryFails, At
  <2>2. ~StartPublish(r)
    BY <1>0, FinishMoves DEF StartPublish
  <2> QED
    BY <2>1, <2>2, GotoMoves, GotoKeeps
<1>7. CASE ~ClientRequest(r) /\ ~Handle(r)
  <2>1. req'[r] = req[r] \/ req'[r] = NoReq
    BY <1>7, OnlyOwn, NoHandler
  <2> QED
    BY <1>0, <2>1
<1> QED
  BY <1>1, <1>2, <1>3, <1>4, <1>5, <1>6, <1>7 DEF Handle

\* The statuses are written by five steps, and by those that end a session.
LEMMA StatusWriters ==
  ASSUME TypeOK, [Next]_vars
  PROVE  \/ UNCHANGED status
         \/ \E r \in Requests : StartInsert(r) \/ DeleteUser(r) \/ StartPublish(r)
                                \/ CheckMark(r) \/ CheckVerdict(r)
         \/ \E s \in Sessions \cup {NoSession}, st \in {"abandoned", "expired", "error"} :
              WriteStatus(s, st)
<1>0. /\ \A r \in Requests : req[r].sess \in Sessions \cup {NoSession}
      /\ \A p \in Sweeps : sweep[p].cur \in Sessions \cup {NoSession}
  BY DEF TypeOK, Handlers, SweepRuns
<1>1. ASSUME NEW r \in Requests, ClientRequest(r) \/ Handle(r)
      PROVE  \/ UNCHANGED status
             \/ StartInsert(r) \/ DeleteUser(r) \/ StartPublish(r) \/ CheckMark(r) \/ CheckVerdict(r)
             \/ \E st \in {"abandoned", "error"} : WriteStatus(req[r].sess, st)
  <2>1. CASE ClientRequest(r)
    BY <2>1 DEF ClientRequest, StartRequest, StopRequest, CheckRequest, DeleteRequest, Arrive, row
  <2>2. CASE Handle(r)
    BY <2>2 DEF Handle, StartStep, StopStep, CheckStep, DeleteStep, row, StartCount, StartPrior,
       Provision, Launch, ProvisionFails, StartFail, StopRead, StopDestroy, StopUpdate,
       CheckRead, CheckExec, CheckExit, CheckRecord, CheckProgress, DeleteActive, QueryFails
  <2> QED
    BY <1>1, <2>1, <2>2
<1>2. ASSUME NEW p \in Sweeps, SweepStep(p)
      PROVE  \/ UNCHANGED status
             \/ \E st \in {"abandoned", "expired", "error"} : WriteStatus(sweep[p].cur, st)
  BY <1>2 DEF SweepStep, SweepDestroy, SweepUpdate, SweepQueryFails, row
<1>3. ASSUME NEW s \in Sessions, BootRemove(s) \/ BootMark(s)
      PROVE  UNCHANGED status \/ WriteStatus(s, "error")
  BY <1>3 DEF BootRemove, BootMark, row
<1>4. ASSUME \/ \E u \in accounts, s \in Sessions : Heartbeat(u, s)
             \/ \E s \in Sessions : Passage(s)
             \/ \E p \in Reapers : Reap(p)
             \/ BootList \/ BootScan \/ BootListen \/ Sigterm \/ DrainExit \/ Crash
             \/ UNCHANGED vars
      PROVE  UNCHANGED status
  BY <1>4 DEF Heartbeat, Passage, Age, GraceOver, ContainerExit, Reap, ReapTick, ReapSolved,
     ReapDone, BootList, BootScan, BootListen, Sigterm, DrainExit, Crash, ProcessEnds, vars, row
<1> QED
  BY <1>0, <1>1, <1>2, <1>3, <1>4 DEF Next, Boot

\* The owner of a row is written with the row.
LEMMA OwnerWriters ==
  ASSUME [Next]_vars
  PROVE  UNCHANGED owner \/ \E r \in Requests : StartInsert(r)
BY RecordWriters DEF CheckRecord, CheckProgress, DeleteUser, records

LEMMA InsertWrites ==
  ASSUME TypeOK, NEW r \in Requests, StartInsert(r)
  PROVE  \/ UNCHANGED <<status, owner>> /\ req'[r] = NoReq
         \/ \E s \in Unused :
              /\ status'[s] = "starting" /\ owner'[s] = req[r].user
              /\ \A t \in Sessions : t # s => status'[t] = status[t] /\ owner'[t] = owner[t]
              /\ req'[r].sess = s /\ req'[r].pc = "provision"
              /\ req'[r].op = req[r].op /\ req'[r].user = req[r].user
<1>1. CASE req[r].user \notin accounts
  BY <1>1, FinishMoves DEF StartInsert, records, row
<1>2. CASE req[r].user \in accounts
  <2>1. PICK s \in Unused : /\ status' = [status EXCEPT ![s] = "starting"]
                            /\ owner'  = [owner EXCEPT ![s] = req[r].user]
                            /\ On(r, s, "provision")
    BY <1>2 DEF StartInsert
  <2>2. s \in Sessions
    BY DEF Unused
  <2> QED
    BY <2>1, <2>2, OnMoves DEF TypeOK
<1> QED
  BY <1>1, <1>2

\* Only the new row of a start, the end of a start and a check make a session
\* active that was not; no row goes back to nothing.
LEMMA Activations ==
  ASSUME TypeOK, [Next]_vars, NEW s \in Sessions
  PROVE  /\ status[s] # "none" => status'[s] # "none" /\ owner'[s] = owner[s]
         /\ status'[s] \in Active =>
              \/ status[s] \in Active /\ owner'[s] = owner[s]
              \/ \E r \in Requests :
                   \/ StartInsert(r) /\ status[s] = "none" /\ owner'[s] = req[r].user
                      /\ req'[r].sess = s /\ req'[r].pc = "provision" /\ req'[r].op = req[r].op
                      /\ req'[r].user = req[r].user
                   \/ StartPublish(r) /\ req[r].sess = s /\ Row(s) /\ owner' = owner
                   \/ CheckMark(r) /\ req[r].sess = s /\ Row(s) /\ owner' = owner
                   \/ CheckVerdict(r) /\ req[r].sess = s /\ Row(s) /\ owner' = owner
<1>1. ASSUME NEW r \in Requests, StartInsert(r)
      PROVE  /\ status[s] # "none" => status'[s] # "none" /\ owner'[s] = owner[s]
             /\ status'[s] \in Active =>
                  \/ status[s] \in Active /\ owner'[s] = owner[s]
                  \/ status[s] = "none" /\ owner'[s] = req[r].user
                     /\ req'[r].sess = s /\ req'[r].pc = "provision" /\ req'[r].op = req[r].op
                     /\ req'[r].user = req[r].user
  BY <1>1, InsertWrites DEF Unused
<1>2. ASSUME owner' = owner, NEW t, NEW st \in Statuses, WriteStatus(t, st)
      PROVE  /\ status[s] # "none" => status'[s] # "none" /\ owner'[s] = owner[s]
             /\ status'[s] \in Active =>
                  status[s] \in Active \/ (st \in Active /\ s = t /\ Row(s))
  BY <1>2 DEF WriteStatus, TypeOK, Statuses, Active
<1>3. ASSUME NEW r \in Requests, StartPublish(r) \/ CheckMark(r) \/ CheckVerdict(r)
      PROVE  owner' = owner /\ \E st \in Statuses : WriteStatus(req[r].sess, st)
  BY <1>3 DEF StartPublish, CheckMark, CheckVerdict, records, Statuses, Active
<1>4. ASSUME NEW r \in Requests, DeleteUser(r)
      PROVE  owner' = owner /\ (status'[s] = status[s] \/ (status[s] # "none" /\ status'[s] = "deleted"))
  BY <1>4 DEF DeleteUser, Row, Statuses, Active, TypeOK
<1>5. CASE \E r \in Requests : StartInsert(r)
  BY <1>1, <1>5
<1>6. CASE owner' = owner
  <2>1. CASE UNCHANGED status
    BY <1>6, <2>1
  <2>2. CASE \E r \in Requests : StartPublish(r) \/ CheckMark(r) \/ CheckVerdict(r)
    BY <1>2, <1>3, <2>2
  <2>3. CASE \E r \in Requests : DeleteUser(r)
    BY <1>4, <1>6, <2>3 DEF Active
  <2>4. CASE \E t \in Sessions \cup {NoSession}, st \in {"abandoned", "expired", "error"} :
               WriteStatus(t, st)
    BY <1>2, <1>6, <2>4 DEF Statuses, Active
  <2> QED
    BY <1>5, <2>1, <2>2, <2>3, <2>4, StatusWriters
<1> QED
  BY <1>5, <1>6, OwnerWriters

LEMMA StartingStep == TypeOK /\ Starting /\ [Next]_vars => Starting'
<1> SUFFICES ASSUME TypeOK, Starting, [Next]_vars, NEW r \in Requests
             PROVE  StartOK(req[r])'
  BY DEF Starting
<1>1. StartOK(req[r]) /\ req[r].sess \in Sessions \cup {NoSession}
  BY DEF Starting, TypeOK, Handlers
<1>2. CASE req'[r] = req[r]
  BY <1>1, <1>2, Activations DEF StartOK
<1>3. CASE req'[r] # req[r] /\ req'[r].op = "start"
  <2>1. req'[r].pc \in {"count", "prior", "insert"} \cup Stops \cup Provisions
    BY <1>3, StartMoves DEF Stops, Provisions
  <2>2. ASSUME req'[r].pc \in Provisions
        PROVE  req'[r].sess \in Sessions /\ owner'[req'[r].sess] = req'[r].user
               /\ status'[req'[r].sess] # "none"
    <3>1. CASE StartInsert(r)
      BY <3>1, <2>2, InsertWrites DEF Unused, NoReq, Provisions
    <3>2. CASE ~StartInsert(r)
      <4>1. /\ req[r].pc \in Provisions /\ req'[r].sess = req[r].sess
            /\ req'[r].user = req[r].user
        BY <1>3, <2>2, <3>2, StartMoves DEF Provisions, Stops
      <4> QED
        BY <1>1, <4>1, Activations DEF StartOK
    <3> QED
      BY <3>1, <3>2
  <2> QED
    BY <1>3, <2>1, <2>2 DEF StartOK
<1>4. CASE req'[r] # req[r] /\ req'[r].op # "start"
  <2>1. req'[r].pc \notin {"count", "prior", "insert"} \cup Provisions
    <3>1. CASE req'[r] = NoReq
      BY <3>1 DEF NoReq, Provisions
    <3>2. CASE ClientRequest(r)
      BY <1>4, <3>2 DEF ClientRequest, StartRequest, StopRequest, CheckRequest, DeleteRequest,
         Arrive, TypeOK, Provisions
    <3>3. CASE StartStep(r)
      <4>1. req[r].op = "start"
        BY <1>1, <3>3 DEF StartOK, StartStep, StartCount, StartPrior, StartInsert, Provision,
           Launch, ProvisionFails, StartPublish, StartFail, At, Provisions
      <4>2. req'[r] = NoReq \/ req'[r].op = req[r].op
        BY <3>3, FinishMoves, GotoKeeps, OnMoves DEF StartStep, StartCount, StartPrior,
           StartInsert, Provision, Launch, ProvisionFails, StartPublish, StartFail
      <4> QED
        BY <1>4, <3>1, <4>1, <4>2
    <3>4. CASE StopRead(r) \/ StopDestroy(r)
      BY <3>1, <3>4, GotoMoves, FinishMoves DEF StopRead, StopDestroy, Provisions
    <3>5. CASE StopUpdate(r)
      <4>1. \/ req'[r] = NoReq \/ req'[r].pc = "deleteUser"
            \/ req[r].op = "start" /\ req'[r].op = req[r].op
        BY <3>5, OnMoves, FinishMoves DEF StopUpdate
      <4> QED
        BY <1>4, <3>1, <4>1 DEF Provisions
    <3>6. CASE CheckStep(r)
      <4>1. ASSUME NEW passed, req' = [req EXCEPT ![r].passed = passed, ![r].pc = "record"]
            PROVE  req'[r].pc = "record"
        <5> PICK h : h = req[r]
          OBVIOUS
        <5>1. req' = [req EXCEPT ![r] = [[h EXCEPT !.passed = passed] EXCEPT !.pc = "record"]]
          BY <4>1
        <5>2. req'[r] = [[h EXCEPT !.passed = passed] EXCEPT !.pc = "record"] /\ h \in Handlers
          BY <5>1 DEF TypeOK
        <5> QED
          BY <5>2 DEF Handlers
      <4>2. \/ Finish(r) \/ \E pc \in Checking : Goto(r, pc)
            \/ \E passed : req' = [req EXCEPT ![r].passed = passed, ![r].pc = "record"]
        BY <3>6 DEF CheckStep, CheckRead, CheckMark, CheckExec, CheckExit, CheckRecord,
           CheckVerdict, CheckProgress, Checking
      <4>3. req'[r] = NoReq \/ req'[r].pc \in Checking
        BY <4>1, <4>2, GotoMoves, FinishMoves DEF Checking
      <4> QED
        BY <3>1, <4>3 DEF Checking, Provisions
    <3>7. CASE DeleteStep(r)
      BY <3>1, <3>7, GotoMoves, OnMoves, FinishMoves DEF DeleteStep, DeleteActive, DeleteUser,
         Provisions
    <3>8. CASE QueryFails(r)
      <4>1. req'[r] = NoReq \/ (req[r].pc = "publish" /\ req'[r].op = req[r].op)
        BY <3>8, GotoKeeps, FinishMoves DEF QueryFails, At
      <4> QED
        BY <1>1, <1>4, <3>1, <4>1 DEF StartOK, Provisions
    <3>9. CASE ~ClientRequest(r) /\ ~Handle(r)
      BY <1>4, <3>1, <3>9, OnlyOwn, NoHandler
    <3> QED
      BY <3>2, <3>3, <3>4, <3>5, <3>6, <3>7, <3>8, <3>9 DEF Handle, StopStep
  <2> QED
    BY <1>4, <2>1 DEF StartOK
<1> QED
  BY <1>2, <1>3, <1>4

-----------------------------------------------------------------------------
(* One active session per user, and the cap on all of them.  The code has  *)
(* no lock between the query that looks and the INSERT, and a check writes *)
(* the status of whatever session it was asked about: what keeps both      *)
(* promises is that starts do not overlap and that no session ends while   *)
(* it is checked.  These say so of the handlers in flight, at every moment.*)

OneStartEach ==
  \A q, r \in Requests :
    req[q].op = "start" /\ req[r].op = "start" /\ req[q].user = req[r].user => q = r

OneStart == \A q, r \in Requests : req[q].op = "start" /\ req[r].op = "start" => q = r

\* A check that is about to write a status finds its session active, or gone.
ChecksLive ==
  \A r \in Requests :
    req[r].pc \in {"mark", "verdict"} /\ Row(req[r].sess) => status[req[r].sess] \in Active

\* With checks of live sessions only, it takes a start to make one active.
LEMMA ActivatedByStart ==
  ASSUME TypeOK, Starting, ChecksLive, [Next]_vars, NEW s \in Sessions, status'[s] \in Active,
         status[s] \notin Active
  PROVE  \E r \in Requests :
           /\ req[r].op = "start"
           /\ \/ StartInsert(r) /\ status[s] = "none" /\ owner'[s] = req[r].user
                 /\ req'[r].sess = s /\ req'[r].pc = "provision" /\ req'[r].op = "start"
                 /\ req'[r].user = req[r].user
              \/ StartPublish(r) /\ req[r].sess = s /\ owner[s] = req[r].user /\ owner' = owner
<1>1. ASSUME NEW r \in Requests, CheckMark(r) \/ CheckVerdict(r), req[r].sess = s, Row(s)
      PROVE  FALSE
  BY <1>1 DEF CheckMark, CheckVerdict, At, ChecksLive
<1>2. PICK r \in Requests :
        \/ StartInsert(r) /\ status[s] = "none" /\ owner'[s] = req[r].user
           /\ req'[r].sess = s /\ req'[r].pc = "provision" /\ req'[r].op = req[r].op
           /\ req'[r].user = req[r].user
        \/ StartPublish(r) /\ req[r].sess = s /\ owner' = owner
  BY <1>1, Activations
<1>3. StartOK(req[r])
  BY DEF Starting
<1>4. CASE StartInsert(r) /\ status[s] = "none" /\ owner'[s] = req[r].user
           /\ req'[r].sess = s /\ req'[r].pc = "provision" /\ req'[r].op = req[r].op
           /\ req'[r].user = req[r].user
  BY <1>3, <1>4 DEF StartOK, StartInsert, At
<1>5. CASE StartPublish(r) /\ req[r].sess = s /\ owner' = owner
  BY <1>3, <1>5 DEF StartOK, StartPublish, At, Provisions
<1> QED
  BY <1>2, <1>4, <1>5

\* What a start knows of its user's active sessions: none is left when it
\* inserts, before that at most the one it stops, afterwards at most its own.
Cleared(h) ==
  h.op = "start" =>
    /\ h.pc = "insert" => ActiveOf(h.user) = {}
    /\ h.pc \in Stops \cup Provisions => ActiveOf(h.user) \subseteq {h.sess}

Alone ==
  /\ OneActivePerUser
  /\ \A r \in Requests : Cleared(req[r])

\* A start that goes on from where it was Cleared is Cleared, by the sessions
\* that are active before the step.
LEMMA ClearedMoves ==
  ASSUME TypeOK, Starting, Alone, [Next]_vars, NEW r \in Requests,
         req'[r] # req[r], req'[r].op = "start", ~StartInsert(r), ~StopUpdate(r)
  PROVE  Cleared(req'[r])
<1>1. Cleared(req[r])
  BY DEF Alone
<1>2. CASE StartPrior(r) /\ req'[r].pc = "stopRead" /\ req'[r].sess \in ActiveOf(req[r].user)
           /\ req'[r].user = req[r].user
  <2>1. ActiveOf(req[r].user) \subseteq {req'[r].sess}
    BY <1>2 DEF Alone, OneActivePerUser, ActiveOf
  <2> QED
    BY <1>2, <2>1 DEF Cleared
<1>3. CASE req'[r].pc \in {"count", "prior"}
  BY <1>3 DEF Cleared, Stops, Provisions
<1>4. CASE StartPrior(r) /\ req'[r].pc = "insert" /\ ActiveOf(req[r].user) = {}
           /\ req'[r].user = req[r].user
  BY <1>4 DEF Cleared, Stops, Provisions
<1>5. CASE /\ req[r].pc \in Stops \cup Provisions /\ req'[r].pc \in Stops \cup Provisions
           /\ req'[r].sess = req[r].sess /\ req'[r].user = req[r].user /\ req[r].op = "start"
  BY <1>1, <1>5 DEF Cleared, Stops, Provisions
<1> QED
  BY <1>2, <1>3, <1>4, <1>5, StartMoves DEF Stops, Provisions

LEMMA AloneStep ==
  ASSUME TypeOK, Starting, OneStartEach, ChecksLive, Alone, [Next]_vars
  PROVE  Alone'
\* What was active before with the same owner.
<1>1. ASSUME NEW s \in Sessions, status[s] # "none"
      PROVE  status'[s] # "none" /\ owner'[s] = owner[s]
  BY <1>1, Activations
<1>2. ASSUME NEW s \in Sessions, status'[s] \in Active, status[s] \notin Active
      PROVE  \E r \in Requests :
               /\ req[r].op = "start" /\ owner'[s] = req[r].user
               /\ ActiveOf(req[r].user) \subseteq {s}
               /\ \/ StartInsert(r) /\ req'[r].sess = s /\ req'[r].pc = "provision"
                     /\ req'[r].op = "start" /\ req'[r].user = req[r].user
                     /\ ActiveOf(req[r].user) = {}
                  \/ StartPublish(r)
  <2>1. PICK r \in Requests :
           /\ req[r].op = "start"
           /\ \/ StartInsert(r) /\ status[s] = "none" /\ owner'[s] = req[r].user
                 /\ req'[r].sess = s /\ req'[r].pc = "provision" /\ req'[r].op = "start"
                 /\ req'[r].user = req[r].user
              \/ StartPublish(r) /\ req[r].sess = s /\ owner[s] = req[r].user /\ owner' = owner
    BY <1>2, ActivatedByStart
  <2>2. Cleared(req[r])
    BY DEF Alone
  <2> QED
    BY <2>1, <2>2 DEF Cleared, StartInsert, StartPublish, At, Provisions
<1>3. OneActivePerUser'
  <2> SUFFICES ASSUME NEW s \in Sessions, NEW t \in Sessions, status'[s] \in Active,
                      status'[t] \in Active, owner'[s] = owner'[t]
               PROVE  s = t
    BY DEF OneActivePerUser, ActiveSet
  <2>1. CASE status[s] \in Active /\ status[t] \in Active
    BY <1>1, <2>1 DEF Alone, OneActivePerUser, ActiveSet, Active
  <2>2. ASSUME NEW a \in Sessions, NEW b \in Sessions, status'[a] \in Active,
               status[a] \notin Active, status[b] \in Active, owner'[a] = owner'[b]
        PROVE  a = b
    <3>1. PICK r \in Requests : owner'[a] = req[r].user /\ ActiveOf(req[r].user) \subseteq {a}
      BY <1>2, <2>2
    <3>2. b \in ActiveOf(req[r].user)
      BY <1>1, <2>2, <3>1 DEF ActiveOf, ActiveSet, Active
    <3> QED
      BY <3>1, <3>2
  <2>3. CASE status[s] \notin Active /\ status[t] \notin Active
    <3>1. PICK q \in Requests :
            /\ req[q].op = "start" /\ owner'[s] = req[q].user
            /\ \/ StartInsert(q) /\ req'[q].sess = s
               \/ StartPublish(q) /\ req[q].sess = s
      BY <2>3, ActivatedByStart
    <3>2. PICK r \in Requests :
            /\ req[r].op = "start" /\ owner'[t] = req[r].user
            /\ \/ StartInsert(r) /\ req'[r].sess = t
               \/ StartPublish(r) /\ req[r].sess = t
      BY <2>3, ActivatedByStart
    <3>3. q = r
      BY <3>1, <3>2 DEF OneStartEach
    <3> QED
      BY <3>1, <3>2, <3>3 DEF StartInsert, StartPublish, At
  <2> QED
    BY <2>1, <2>2, <2>3
\* The active sessions of a user grow only with a start of that user.
<1>4. ASSUME NEW r \in Requests, Cleared(req'[r]), req[r].op = "start", ~StartInsert(r),
             req'[r].user = req[r].user, req'[r].op = "start",
             req'[r].pc # "publish" => ~StartPublish(r)
      PROVE  Cleared(req[r])'
  <2> SUFFICES ASSUME NEW s \in Sessions, status'[s] \in Active, owner'[s] = req'[r].user
               PROVE  status[s] \in Active /\ owner[s] = req'[r].user
    BY <1>4 DEF Cleared, ActiveOf, ActiveSet
  <2>1. CASE status[s] \in Active
    BY <1>1, <2>1 DEF Active
  <2>2. CASE status[s] \notin Active
    <3>1. PICK q \in Requests :
            /\ req[q].op = "start" /\ owner'[s] = req[q].user
            /\ StartInsert(q) \/ StartPublish(q)
      BY <1>2, <2>2
    <3>2. q = r
      BY <1>4, <3>1 DEF OneStartEach
    <3>3. StartPublish(r) => req'[r].op # "start"
      BY FinishMoves DEF StartPublish, NoReq
    <3> QED
      BY <1>4, <3>1, <3>2, <3>3
  <2> QED
    BY <2>1, <2>2
<1>5. ASSUME NEW r \in Requests
      PROVE  Cleared(req[r])'
  <2>1. Cleared(req[r])
    BY DEF Alone
  <2>2. CASE req'[r] = req[r]
    <3>1. req'[r].op = "start" => ~StartInsert(r) /\ ~StartPublish(r)
      <4>1. ~StartInsert(r)
        BY <2>2, InsertWrites DEF StartInsert, At, NoReq
      <4>2. StartPublish(r) => req'[r] = NoReq
        BY FinishMoves DEF StartPublish
      <4> QED
        BY <4>1, <4>2 DEF NoReq
    <3> QED
      BY <1>4, <2>1, <2>2, <3>1 DEF Cleared
  <2>3. CASE req'[r].op # "start"
    BY <2>3 DEF Cleared
  <2>4. CASE req'[r] # req[r] /\ req'[r].op = "start" /\ StartInsert(r)
    <3>1. PICK s \in Unused :
            /\ \A t \in Sessions : t # s => status'[t] = status[t] /\ owner'[t] = owner[t]
            /\ req'[r].sess = s /\ req'[r].pc = "provision"
            /\ req'[r].op = req[r].op /\ req'[r].user = req[r].user
      BY <2>4, InsertWrites DEF NoReq
    <3>2. ActiveOf(req[r].user) = {}
      BY <2>1, <2>4, <3>1 DEF Cleared, StartInsert, At
    <3>3. ActiveOf(req[r].user)' \subseteq {s}
      BY <3>1, <3>2 DEF ActiveOf, ActiveSet
    <3> QED
      BY <3>1, <3>3 DEF Cleared, ActiveOf, ActiveSet, Provisions, Stops
  <2>5. CASE req'[r] # req[r] /\ req'[r].op = "start" /\ StopUpdate(r)
    <3>1. /\ req[r].op = "start" /\ req'[r].user = req[r].user /\ req'[r].pc = "insert"
          /\ req[r].pc = "stopUpdate"
      BY <2>5, StartMoves DEF StopUpdate, StartCount, StartPrior, StopRead, StopDestroy,
         StartInsert, At, ClientRequest, StartRequest, StopRequest, CheckRequest, DeleteRequest,
         Arrive
    <3>2. ActiveOf(req[r].user) \subseteq {req[r].sess}
      BY <2>1, <3>1 DEF Cleared, Stops
    <3>3. \A s \in Sessions : status'[s] \in Active => status[s] \in Active /\ s # req[r].sess
      BY <2>5 DEF StopUpdate, WriteStatus, Row, TypeOK, Statuses, Active
    <3>4. owner' = owner
      BY <2>5 DEF StopUpdate, records
    <3>5. ASSUME NEW s \in Sessions, status'[s] \in Active, owner'[s] = req'[r].user
          PROVE  FALSE
      BY <3>1, <3>2, <3>3, <3>4, <3>5 DEF ActiveOf, ActiveSet
    <3> QED
      BY <3>1, <3>5 DEF Cleared, ActiveOf, ActiveSet, Stops, Provisions
  <2>6. CASE req'[r] # req[r] /\ req'[r].op = "start" /\ ~StartInsert(r) /\ ~StopUpdate(r)
    <3>1. Cleared(req'[r])
      BY <2>6, ClearedMoves
    <3>2. CASE ClientRequest(r) /\ req'[r].pc = "count"
      BY <3>2 DEF Cleared, Stops, Provisions
    <3>3. CASE req[r].op = "start" /\ req'[r].user = req[r].user
      <4>1. ~StartPublish(r)
        BY <2>6, FinishMoves DEF StartPublish, NoReq
      <4> QED
        BY <1>4, <2>6, <3>1, <3>3, <4>1
    <3> QED
      BY <2>6, <3>2, <3>3, StartMoves
  <2> QED
    BY <2>2, <2>3, <2>4, <2>5, <2>6
<1> QED
  BY <1>3, <1>5 DEF Alone

\* While no two starts of one user overlap, and checks find their sessions
\* active, a user has at most one active session: the stop of the prior session
\* is over before the INSERT, whoever else writes meanwhile.
THEOREM OneActivePerUserAlways ==
  Spec /\ []OneStartEach /\ []ChecksLive => []OneActivePerUser
<1>1. Init => Starting /\ Alone
  BY DEF Init, Starting, StartOK, Alone, OneActivePerUser, Cleared, NoReq, ActiveSet, Active,
     Provisions, Stops
<1>2. TypeOK /\ Starting /\ OneStartEach /\ ChecksLive /\ Alone /\ [Next]_vars
        => Alone'
  BY AloneStep
<1>3. Alone => OneActivePerUser
  BY DEF Alone
<1> QED
  BY <1>1, <1>2, <1>3, StartingStep, TypeCorrect, PTL DEF Spec

-----------------------------------------------------------------------------
(* Containers.  Nobody but the startSession that creates the container of  *)
(* a session knows it until the row is linked, so everything that ends a   *)
(* session must find it linked, or without a container.                    *)

Live(s) == \E r \in Requests : Provisioning(r, s)

\* The code has no lock here either: a stop that reads the row of a session in
\* the hands of a startSession sees no container, and ends the session only.
StopsSettled ==
  \A r \in Requests : req[r].pc = "stopRead" => ~Live(req[r].sess)

\* The row of s is there and no startSession works on it; nor has it a container.
Settled(s) == s \in Sessions /\ status[s] # "none" /\ ~Live(s)
Gone(s)    == Settled(s) /\ ~Exists(s)

\* A handler where no account is deleted and no start fails.
Plain(h) ==
  /\ h.op # "delete" /\ h.pc \notin {"fail", "active", "deleteUser"}
  /\ h.pc \in Stops => h.sess \in Sessions

\* A row that is not there has nothing; a session being provisioned belongs to
\* one start, and is neither linked nor idle.
Launching ==
  /\ \A s \in Sessions :
       /\ status[s] = "none" => container[s] = "none" /\ ~linked[s] /\ ~idle[s]
       /\ status[s] # "deleted"
  /\ \A r \in Requests : Plain(req[r])
  /\ \A r \in Requests, s \in Sessions : Provisioning(r, s) =>
       /\ ~linked[s] /\ ~idle[s]
       /\ \A q \in Requests : Provisioning(q, s) => q = r

\* What keeps a container in sight while the backend serves: a stop or a sweep
\* that goes on to write the end of a session has seen its container go.
Kept ==
  /\ \A s \in Sessions : Exists(s) => Tracked(s) \/ Live(s)
  /\ \A r \in Requests :
       /\ req[r].pc = "stopDestroy" => Settled(req[r].sess)
       /\ req[r].pc = "stopUpdate"  => Gone(req[r].sess)
  /\ \A p \in Sweeps :
       /\ \A s \in sweep[p].rows : Settled(s) /\ (s \in sweep[p].held \/ ~Exists(s))
       /\ sweep[p].cur # NoSession => Gone(sweep[p].cur)

\* A session comes into the hands of a start with its row, and no other way.
LEMMA LiveMoves ==
  ASSUME TypeOK, Starting, [Next]_vars, NEW r \in Requests, NEW s \in Sessions,
         Provisioning(r, s)'
  PROVE  \/ Provisioning(r, s)
         \/ StartInsert(r) /\ status[s] = "none" /\ UNCHANGED <<linked, idle, container>>
<1>1. CASE req'[r] = req[r]
  BY <1>1 DEF Provisioning
<1>2. CASE req'[r] # req[r]
  <2>1. req'[r].op = "start"
    BY StartingStep DEF Starting, StartOK, Provisioning, Provisions
  <2>2. CASE /\ StartInsert(r) /\ req[r].pc = "insert" /\ req'[r].pc = "provision"
             /\ req'[r].sess \in Unused
    BY <2>2 DEF StartInsert, Unused, Provisioning, row
  <2>3. CASE req'[r].sess = req[r].sess /\ req[r].pc \in {"provision", "launch", "publish"}
    BY <2>3 DEF Provisioning
  <2>4. CASE req'[r].pc \in {"count", "prior", "insert"} \cup Stops
    BY <2>4 DEF Provisioning, Stops
  <2> QED
    BY <1>2, <2>1, <2>2, <2>3, <2>4, StartMoves DEF Stops
<1> QED
  BY <1>1, <1>2

\* It leaves them when the start is over.
LEMMA LiveStays ==
  ASSUME TypeOK, {"start", "query"} \cap Faults = {}, [Next]_vars, ~DrainExit, ~Crash,
         NEW r \in Requests, NEW s \in Sessions, Provisioning(r, s), Plain(req[r])
  PROVE  Provisioning(r, s)' \/ StartPublish(r)
<1>1. CASE Handle(r)
  <2>1. Provision(r) \/ Launch(r) \/ StartPublish(r)
    BY <1>1 DEF Plain, Provisioning, Handle, StartStep, StopStep, CheckStep, DeleteStep, At,
       StartCount, StartPrior, StartInsert, ProvisionFails, StartFail, StopRead, StopDestroy,
       StopUpdate, CheckRead, CheckMark, CheckExec, CheckExit, CheckRecord, CheckVerdict,
       CheckProgress, DeleteActive, DeleteUser, QueryFails
  <2>2. CASE Provision(r) \/ Launch(r)
    BY <2>2, GotoMoves DEF Provision, Launch, Provisioning
  <2> QED
    BY <2>1, <2>2
<1>2. CASE ~Handle(r)
  <2>1. ~ClientRequest(r)
    BY DEF Provisioning, ClientRequest, StartRequest, StopRequest, CheckRequest, DeleteRequest,
       Arrive, At
  <2>2. req'[r] = req[r]
    BY <1>2, <2>1, OnlyOwn, NoHandler
  <2> QED
    BY <2>2 DEF Provisioning
<1> QED
  BY <1>1, <1>2

\* A session whose start is over stays so.
LEMMA SettledStays ==
  ASSUME TypeOK, Starting, [Next]_vars, NEW s, Settled(s)
  PROVE  Settled(s)'
<1>1. status'[s] # "none"
  BY Activations DEF Settled
<1>2. ~Live(s)'
  BY LiveMoves DEF Settled, Live
<1> QED
  BY <1>1, <1>2 DEF Settled

\* A container appears in the hands of the start of its session.
LEMMA ContainerMoves ==
  ASSUME TypeOK, [Next]_vars, NEW s \in Sessions
  PROVE  container'[s] = container[s] \/ Exists(s) \/ Live(s)
<1>1. ASSUME NEW t, Remove(t) \/ RemoveRefused(t) \/ UNCHANGED container
      PROVE  container'[s] = container[s] \/ Exists(s)
  BY <1>1 DEF Remove, RemoveRefused, TypeOK
<1>2. ASSUME NEW r \in Requests, Provision(r) \/ Launch(r)
      PROVE  container'[s] = container[s] \/ Live(s)
  BY <1>2 DEF Provision, Launch, At, Live, Provisioning, TypeOK
<1>3. ASSUME NEW r \in Requests, ClientRequest(r) \/ Handle(r)
      PROVE  Provision(r) \/ Launch(r) \/ UNCHANGED container \/ \E t : Remove(t) \/ RemoveRefused(t)
  <2>1. CASE ClientRequest(r)
    BY <2>1 DEF ClientRequest, StartRequest, StopRequest, CheckRequest, DeleteRequest, Arrive
  <2>2. CASE Handle(r)
    BY <2>2 DEF Handle, StartStep, StopStep, CheckStep, DeleteStep, StartCount, StartPrior,
       StartInsert, ProvisionFails, StartPublish, StartFail, StopRead, StopDestroy, StopUpdate,
       CheckRead, CheckMark, CheckExec, CheckExit, CheckRecord, CheckVerdict, CheckProgress,
       DeleteActive, DeleteUser, QueryFails
  <2> QED
    BY <1>3, <2>1, <2>2
<1>4. ASSUME NEW t \in Sessions, Passage(t)
      PROVE  container'[s] = container[s] \/ Exists(s)
  BY <1>4 DEF Passage, Age, GraceOver, ContainerExit, Exists, TypeOK
<1>5. ASSUME NEW p \in Sweeps, SweepStep(p)
      PROVE  UNCHANGED container \/ \E t : Remove(t) \/ RemoveRefused(t)
  BY <1>5 DEF SweepStep, SweepDestroy, SweepUpdate, SweepQueryFails
<1>6. ASSUME \/ \E u \in accounts, t \in Sessions : Heartbeat(u, t)
             \/ \E p \in Reapers : Reap(p)
             \/ Boot \/ Sigterm \/ DrainExit \/ Crash \/ UNCHANGED vars
      PROVE  UNCHANGED container \/ \E t : Remove(t) \/ RemoveRefused(t)
  BY <1>6 DEF Heartbeat, Reap, ReapTick, ReapSolved, ReapDone, Boot, BootList, BootRemove, BootScan,
     BootMark, BootListen, Sigterm, DrainExit, Crash, ProcessEnds, vars
<1> QED
  BY <1>1, <1>2, <1>3, <1>4, <1>5, <1>6 DEF Next

LEMMA GoneStays ==
  ASSUME TypeOK, Starting, [Next]_vars, NEW s, Gone(s)
  PROVE  Gone(s)'
BY SettledStays, ContainerMoves DEF Gone, Settled, Exists

\* Where no account is deleted, no query fails and no start fails, a handler
\* stays Plain, and comes to the end of a stop by the stop.
LEMMA PlainMoves ==
  ASSUME TypeOK, {"start", "query"} \cap Faults = {}, "delete" \notin Ops, [Next]_vars,
         NEW r \in Requests, Plain(req[r])
  PROVE  /\ Plain(req'[r])
         /\ req'[r].pc \in {"stopDestroy", "stopUpdate"} =>
              \/ req'[r] = req[r]
              \/ /\ StopRead(r) /\ req[r].pc = "stopRead" /\ req'[r].sess = req[r].sess
                 /\ Row(req[r].sess) /\ UNCHANGED <<status, linked, container>>
                 /\ req'[r].pc = (IF linked[req[r].sess] THEN "stopDestroy" ELSE "stopUpdate")
              \/ /\ StopDestroy(r) /\ req[r].pc = "stopDestroy" /\ req'[r].pc = "stopUpdate"
                 /\ req'[r].sess = req[r].sess /\ Remove(req[r].sess)
<1>1. CASE req'[r] = req[r] \/ req'[r] = NoReq
  BY <1>1 DEF NoReq, Plain, Stops
<1>2. CASE ClientRequest(r)
  BY <1>2 DEF ClientRequest, StartRequest, StopRequest, CheckRequest, DeleteRequest, Arrive, TypeOK,
     Plain, Stops
<1>3. CASE StartStep(r)
  <2>1. CASE \E pc \in {"prior", "insert", "launch", "publish"} : Goto(r, pc)
    BY <2>1, GotoMoves, GotoKeeps DEF Plain, Stops
  <2>2. CASE \E s \in Sessions, pc \in {"stopRead", "provision"} : On(r, s, pc)
    BY <2>2, OnMoves DEF Plain, Stops
  <2>3. CASE ProvisionFails(r) \/ StartFail(r)
    BY <2>3 DEF ProvisionFails, StartFail, At, Plain
  <2> QED
    BY <1>1, <1>3, <2>1, <2>2, <2>3, FinishMoves DEF StartStep, StartCount, StartPrior, StartInsert,
       Provision, Launch, StartPublish, ActiveOf, ActiveSet, Unused
<1>4. CASE StopRead(r)
  <2>1. CASE Finish(r)
    BY <1>1, <2>1, FinishMoves
  <2>2. CASE Row(req[r].sess) /\ Goto(r, IF linked[req[r].sess] THEN "stopDestroy" ELSE "stopUpdate")
    <3>1. /\ req'[r].pc = (IF linked[req[r].sess] THEN "stopDestroy" ELSE "stopUpdate")
          /\ req'[r].sess = req[r].sess /\ req'[r].op = req[r].op
      BY <2>2, GotoMoves, GotoKeeps
    <3> QED
      BY <1>4, <2>2, <3>1 DEF StopRead, At, Plain, Stops, row
  <2> QED
    BY <1>4, <2>1, <2>2 DEF StopRead
<1>5. CASE StopDestroy(r)
  <2>1. CASE Finish(r)
    BY <1>1, <2>1, FinishMoves
  <2>2. CASE Remove(req[r].sess) /\ Goto(r, "stopUpdate")
    BY <1>5, <2>2, GotoMoves, GotoKeeps DEF StopDestroy, At, Plain, Stops
  <2> QED
    BY <1>5, <2>1, <2>2 DEF StopDestroy
<1>6. CASE StopUpdate(r)
  <2>1. Finish(r) \/ On(r, NoSession, "insert")
    BY <1>6 DEF StopUpdate, Plain
  <2> QED
    BY <1>1, <2>1, FinishMoves, OnMoves DEF Plain, Stops
<1>7. CASE CheckStep(r)
  <2>1. ASSUME NEW passed, req' = [req EXCEPT ![r].passed = passed, ![r].pc = "record"]
        PROVE  req'[r].pc = "record" /\ req'[r].op = req[r].op
    <3> PICK h : h = req[r]
      OBVIOUS
    <3>1. req' = [req EXCEPT ![r] = [[h EXCEPT !.passed = passed] EXCEPT !.pc = "record"]]
      BY <2>1
    <3>2. req'[r] = [[h EXCEPT !.passed = passed] EXCEPT !.pc = "record"] /\ h \in Handlers
      BY <3>1 DEF TypeOK
    <3> QED
      BY <3>2 DEF Handlers
  <2>2. \/ Finish(r) \/ \E pc \in Checking : Goto(r, pc)
        \/ \E passed : req' = [req EXCEPT ![r].passed = passed, ![r].pc = "record"]
    BY <1>7 DEF CheckStep, CheckRead, CheckMark, CheckExec, CheckExit, CheckRecord,
       CheckVerdict, CheckProgress, Checking
  <2>3. req'[r] = NoReq \/ (req'[r].pc \in Checking /\ req'[r].op = req[r].op)
    BY <2>1, <2>2, GotoMoves, GotoKeeps, FinishMoves DEF Checking
  <2> QED
    BY <1>1, <2>3 DEF Plain, Checking, Stops
<1>8. CASE DeleteStep(r) \/ QueryFails(r)
  BY <1>8 DEF DeleteStep, DeleteActive, DeleteUser, QueryFails, At, Plain
<1>9. CASE ~ClientRequest(r) /\ ~Handle(r)
  BY <1>1, <1>9, OnlyOwn, NoHandler
<1> QED
  BY <1>2, <1>3, <1>4, <1>5, <1>6, <1>7, <1>8, <1>9 DEF Handle, StopStep

\* The row of s loses its container_id in a sweep, or with its user; it gains
\* one at the end of a start.
LEMMA LinkMoves ==
  ASSUME TypeOK, [Next]_vars, NEW s \in Sessions
  PROVE  \/ linked'[s] = linked[s]
         \/ \E r \in Requests : StartPublish(r) /\ req[r].sess = s /\ linked'[s] = Row(s)
         \/ \E r \in Requests : DeleteUser(r) /\ ~linked'[s]
         \/ \E p \in Sweeps : SweepUpdate(p) /\ sweep[p].cur = s /\ ~linked'[s]
<1>1. ASSUME NEW r \in Requests, ClientRequest(r) \/ Handle(r)
      PROVE  UNCHANGED linked \/ StartPublish(r) \/ DeleteUser(r)
  <2>1. CASE ClientRequest(r)
    BY <2>1 DEF ClientRequest, StartRequest, StopRequest, CheckRequest, DeleteRequest, Arrive, row
  <2>2. CASE Handle(r)
    BY <2>2 DEF Handle, StartStep, StopStep, CheckStep, DeleteStep, row, StartCount, StartPrior,
       StartInsert, Provision, Launch, ProvisionFails, StartFail, StopRead, StopDestroy,
       StopUpdate, CheckRead, CheckMark, CheckExec, CheckExit, CheckRecord, CheckVerdict,
       CheckProgress, DeleteActive, QueryFails
  <2> QED
    BY <1>1, <2>1, <2>2
<1>2. ASSUME NEW r \in Requests, StartPublish(r)
      PROVE  linked'[s] = linked[s] \/ (req[r].sess = s /\ linked'[s] = Row(s))
  BY <1>2 DEF StartPublish, TypeOK
<1>3. ASSUME NEW r \in Requests, DeleteUser(r)
      PROVE  linked'[s] = linked[s] \/ ~linked'[s]
  BY <1>3 DEF DeleteUser, TypeOK
<1>4. ASSUME NEW p \in Sweeps, SweepStep(p)
      PROVE  linked'[s] = linked[s] \/ (SweepUpdate(p) /\ sweep[p].cur = s /\ ~linked'[s])
  BY <1>4 DEF SweepStep, SweepDestroy, SweepUpdate, SweepQueryFails, row, TypeOK
<1>5. ASSUME \/ \E u \in accounts, t \in Sessions : Heartbeat(u, t)
             \/ \E t \in Sessions : Passage(t)
             \/ \E p \in Reapers : Reap(p)
             \/ Boot \/ Sigterm \/ DrainExit \/ Crash \/ UNCHANGED vars
      PROVE  UNCHANGED linked
  BY <1>5 DEF Heartbeat, Passage, Age, GraceOver, ContainerExit, Reap, ReapTick, ReapSolved,
     ReapDone, Boot, BootList, BootRemove, BootScan, BootMark, BootListen, Sigterm, DrainExit,
     Crash, ProcessEnds, vars, row
<1> QED
  BY <1>1, <1>2, <1>3, <1>4, <1>5 DEF Next

\* Only time makes a session idle.
LEMMA IdleMoves ==
  ASSUME TypeOK, [Next]_vars, NEW s \in Sessions, idle'[s]
  PROVE  idle[s] \/ Age(s)
<1>1. ASSUME NEW r \in Requests, ClientRequest(r) \/ Handle(r)
      PROVE  idle[s]
  <2>1. CASE ClientRequest(r)
    BY <2>1 DEF ClientRequest, StartRequest, StopRequest, CheckRequest, DeleteRequest, Arrive, row
  <2>2. CASE Handle(r)
    BY <2>2 DEF Handle, StartStep, StopStep, CheckStep, DeleteStep, row, StartCount, StartPrior,
       StartInsert, Provision, Launch, ProvisionFails, StartPublish, StartFail, StopRead,
       StopDestroy, StopUpdate, CheckRead, CheckMark, CheckExec, CheckExit, CheckRecord,
       CheckVerdict, CheckProgress, DeleteActive, DeleteUser, QueryFails
  <2> QED
    BY <1>1, <2>1, <2>2
<1>2. ASSUME NEW t \in Sessions, Passage(t)
      PROVE  idle[s] \/ Age(s)
  <2>1. CASE Age(t) /\ t # s
    <3>1. idle' = [idle EXCEPT ![t] = TRUE]
      BY <2>1 DEF Age
    <3> QED
      BY <2>1, <3>1 DEF TypeOK
  <2>2. CASE GraceOver(t) \/ ContainerExit(t)
    BY <2>2 DEF GraceOver, ContainerExit, row
  <2> QED
    BY <1>2, <2>1, <2>2 DEF Passage
<1>3. ASSUME NEW u \in accounts, NEW t \in Sessions, Heartbeat(u, t)
      PROVE  idle[s]
  BY <1>3 DEF Heartbeat, TypeOK
<1>4. ASSUME \/ \E p \in Reapers : Reap(p)
             \/ \E p \in Sweeps : SweepStep(p)
             \/ Boot \/ Sigterm \/ DrainExit \/ Crash \/ UNCHANGED vars
      PROVE  idle[s]
  BY <1>4 DEF Reap, ReapTick, ReapSolved, ReapDone, SweepStep, SweepDestroy, SweepUpdate,
     SweepQueryFails, Boot, BootList, BootRemove, BootScan, BootMark, BootListen, Sigterm,
     DrainExit, Crash, ProcessEnds, vars, row
<1> QED
  BY <1>1, <1>2, <1>3, <1>4 DEF Next

LEMMA LaunchingStep ==
  ASSUME TypeOK, Starting, {"start", "query"} \cap Faults = {}, "delete" \notin Ops, ~SlowStart,
         Launching, [Next]_vars
  PROVE  Launching'
<1>1. ASSUME NEW r \in Requests  PROVE Plain(req[r])'
  <2>1. Plain(req'[r])
    BY PlainMoves DEF Launching
  <2> QED
    BY <2>1 DEF Plain
<1>2. ASSUME NEW r \in Requests, NEW s \in Sessions, Provisioning(r, s)
      PROVE  status[s] # "none"
  BY <1>2 DEF Starting, StartOK, Provisioning, Provisions
<1>3. ASSUME NEW r \in Requests  PROVE ~DeleteUser(r)
  BY DEF DeleteUser, At, Launching, Plain
<1>4. ASSUME NEW s \in Sessions, status'[s] = "none"
      PROVE  container'[s] = "none" /\ ~linked'[s] /\ ~idle'[s]
  <2>1. status[s] = "none"
    BY <1>4, Activations
  <2>2. container[s] = "none" /\ ~linked[s] /\ ~idle[s] /\ ~Live(s)
    BY <1>2, <2>1 DEF Launching, Live
  <2>3. container'[s] = "none"
    BY <2>2, ContainerMoves DEF Exists
  <2>4. ~linked'[s]
    BY <2>1, <2>2, LinkMoves DEF Row, Statuses, Active
  <2>5. ~idle'[s]
    BY <2>1, <2>2, IdleMoves DEF Age, Active
  <2> QED
    BY <2>3, <2>4, <2>5
<1>5. ASSUME NEW s \in Sessions  PROVE status'[s] # "deleted"
  <2>1. CASE \E t \in Sessions \cup {NoSession}, st \in Statuses : WriteStatus(t, st)
    BY <2>1 DEF WriteStatus, TypeOK, Launching, Statuses, Active
  <2>2. CASE \E r \in Requests : StartInsert(r)
    BY <2>2, InsertWrites DEF Launching
  <2>3. CASE UNCHANGED status
    BY <2>3 DEF Launching
  <2>4. ASSUME NEW r \in Requests, StartPublish(r) \/ CheckMark(r) \/ CheckVerdict(r)
        PROVE  \E t \in Sessions \cup {NoSession}, st \in Statuses : WriteStatus(t, st)
    BY <2>4 DEF StartPublish, CheckMark, CheckVerdict, TypeOK, Handlers, Statuses, Active
  <2> QED
    BY <1>3, <2>1, <2>2, <2>3, <2>4, StatusWriters DEF Statuses
<1>6. ASSUME NEW r \in Requests, NEW s \in Sessions, Provisioning(r, s)'
      PROVE  /\ ~linked'[s] /\ ~idle'[s]
             /\ \A q \in Requests : Provisioning(q, s)' => q = r
  <2>1. CASE StartInsert(r) /\ status[s] = "none" /\ UNCHANGED <<linked, idle, container>>
    <3>1. ~linked'[s] /\ ~idle'[s]
      BY <2>1 DEF Launching
    <3>2. ASSUME NEW q \in Requests, q # r  PROVE ~Provisioning(q, s)'
      <4>1. ~Provisioning(q, s) /\ req'[q] = req[q]
        BY <1>2, <2>1, <3>2, OnlyOwn DEF Handle, StartStep
      <4> QED
        BY <4>1 DEF Provisioning
    <3> QED
      BY <3>1, <3>2
  <2>2. CASE Provisioning(r, s)
    <3>1. /\ ~linked[s] /\ ~idle[s] /\ status[s] # "none"
          /\ \A q \in Requests : Provisioning(q, s) => q = r
      BY <1>2, <2>2 DEF Launching
    <3>2. ~linked'[s]
      <4>1. ASSUME NEW q \in Requests, StartPublish(q), req[q].sess = s  PROVE FALSE
        <5>1. q = r
          BY <3>1, <4>1 DEF StartPublish, At, Provisioning
        <5>2. req'[r] = NoReq
          BY <4>1, <5>1, FinishMoves DEF StartPublish
        <5> QED
          BY <1>6, <5>2 DEF Provisioning, NoReq
      <4> QED
        BY <3>1, <4>1, LinkMoves
    <3>3. ~idle'[s]
      BY <2>2, <3>1, IdleMoves DEF Age
    <3>4. \A q \in Requests : Provisioning(q, s)' => q = r
      BY <3>1, LiveMoves
    <3> QED
      BY <3>2, <3>3, <3>4
  <2> QED
    BY <1>6, <2>1, <2>2, LiveMoves
<1> QED
  BY <1>1, <1>4, <1>5, <1>6 DEF Launching

\* Who can lose sight of a session's container.
LEMMA TrackLost ==
  ASSUME TypeOK, [Next]_vars, NEW s \in Sessions, Tracked(s), ~Tracked(s)'
  PROVE  \/ \E r \in Requests : (StopUpdate(r) \/ StartFail(r)) /\ req[r].sess = s
         \/ \E r \in Requests : DeleteUser(r)
         \/ \E p \in Sweeps : SweepUpdate(p) /\ sweep[p].cur = s
         \/ BootMark(s)
<1>0. status[s] \in Active \cup {"solved"} /\ Row(s) /\ linked[s]
  BY DEF Tracked, Row, Statuses
<1>1. ASSUME linked' = linked, NEW t, NEW st \in Statuses, WriteStatus(t, st),
             t = s => st \in Active \cup {"solved"}
      PROVE  FALSE
  BY <1>0, <1>1 DEF WriteStatus, Tracked, TypeOK
<1>2. ASSUME linked'[s] = linked[s], status'[s] = status[s]
      PROVE  FALSE
  BY <1>2 DEF Tracked
<1>3. ASSUME NEW r \in Requests, ClientRequest(r) \/ Handle(r)
      PROVE  \/ StopUpdate(r) /\ req[r].sess = s
             \/ StartFail(r) /\ req[r].sess = s
             \/ DeleteUser(r)
  <2>1. CASE ClientRequest(r)
    BY <1>2, <2>1 DEF ClientRequest, StartRequest, StopRequest, CheckRequest, DeleteRequest, Arrive, row
  <2>2. CASE StartInsert(r)
    BY <1>0, <1>2, <2>2, InsertWrites DEF StartInsert, row, Unused, Active
  <2>3. CASE StartPublish(r)
    BY <1>0, <2>3 DEF StartPublish, WriteStatus, Tracked, TypeOK, Active
  <2>4. CASE (StopUpdate(r) \/ StartFail(r)) /\ req[r].sess # s
    <3>1. linked' = linked /\ \E st \in Statuses : WriteStatus(req[r].sess, st)
      BY <2>4 DEF StopUpdate, StartFail, Statuses
    <3> QED
      BY <1>1, <2>4, <3>1
  <2>5. CASE CheckMark(r) \/ CheckVerdict(r)
    <3>1. linked' = linked /\ \E st \in {"checking", "solved", "running"} : WriteStatus(req[r].sess, st)
      BY <2>5 DEF CheckMark, CheckVerdict
    <3> QED
      BY <1>1, <3>1 DEF Statuses, Active
  <2>6. CASE Handle(r) /\ UNCHANGED row
    BY <1>2, <2>6 DEF row
  <2>7. CASE /\ Handle(r) /\ ~StartInsert(r) /\ ~StartPublish(r) /\ ~StopUpdate(r) /\ ~StartFail(r)
             /\ ~CheckMark(r) /\ ~CheckVerdict(r) /\ ~DeleteUser(r)
    BY <2>6, <2>7 DEF Handle, StartStep, StopStep, CheckStep, DeleteStep, StartCount, StartPrior,
       Provision, Launch, ProvisionFails, StopRead, StopDestroy, CheckRead, CheckExec, CheckExit,
       CheckRecord, CheckProgress, DeleteActive, QueryFails
  <2> QED
    BY <1>3, <2>1, <2>2, <2>3, <2>4, <2>5, <2>7
<1>4. ASSUME NEW p \in Sweeps, SweepStep(p)
      PROVE  SweepUpdate(p) /\ sweep[p].cur = s
  <2>1. CASE UNCHANGED row
    BY <1>2, <2>1 DEF row
  <2>2. CASE SweepUpdate(p) /\ sweep[p].cur # s
    <3> PICK t : t = sweep[p].cur
      OBVIOUS
    <3>1. \/ linked' = linked /\ \E st \in {"expired", "abandoned"} : WriteStatus(t, st)
          \/ linked' = [linked EXCEPT ![t] = FALSE] /\ UNCHANGED status
      BY <2>2 DEF SweepUpdate
    <3>2. CASE linked' = [linked EXCEPT ![t] = FALSE] /\ UNCHANGED status
      BY <1>2, <2>2, <3>2 DEF TypeOK
    <3> QED
      BY <1>1, <2>2, <3>1, <3>2 DEF Statuses
  <2> QED
    BY <1>4, <2>1, <2>2 DEF SweepStep, SweepDestroy, SweepQueryFails
<1>5. ASSUME NEW t \in Sessions, BootMark(t)
      PROVE  t = s
  <2>1. linked' = linked /\ WriteStatus(t, "error")
    BY <1>5 DEF BootMark
  <2> QED
    BY <1>1, <2>1 DEF Statuses
<1>6. ASSUME \/ \E u \in accounts, t \in Sessions : Heartbeat(u, t)
             \/ \E t \in Sessions : Passage(t) \/ BootRemove(t)
             \/ \E p \in Reapers : Reap(p)
             \/ BootList \/ BootScan \/ BootListen \/ Sigterm \/ DrainExit \/ Crash
             \/ UNCHANGED vars
      PROVE  FALSE
  <2>1. UNCHANGED <<status, linked>>
    BY <1>6 DEF Heartbeat, Passage, Age, GraceOver, ContainerExit, Reap, ReapTick, ReapSolved,
       ReapDone, BootList, BootRemove, BootScan, BootListen, Sigterm, DrainExit, Crash,
       ProcessEnds, vars, row
  <2> QED
    BY <1>2, <2>1
<1> QED
  BY <1>3, <1>4, <1>5, <1>6 DEF Next, Boot

\* How the sweep p comes by the rows it works through, and by the next of them.
LEMMA SweepMoves ==
  ASSUME TypeOK, [Next]_vars, ~Sigterm, ~DrainExit, ~Crash, NEW p \in Sweeps
  PROVE  /\ \A s \in sweep'[p].rows :
              \/ s \in sweep[p].rows /\ sweep'[p].held = sweep[p].held
              \/ /\ s \in Sessions /\ status[s] \in Active \cup {"solved"} /\ (idle[s] \/ linked[s])
                 /\ linked[s] => s \in sweep'[p].held
         /\ sweep'[p].cur # NoSession =>
              \/ sweep'[p].cur = sweep[p].cur
              \/ /\ sweep'[p].cur \in sweep[p].rows
                 /\ sweep'[p].cur \in sweep[p].held =>
                      Remove(sweep'[p].cur) \/ RemoveRefused(sweep'[p].cur)
<1>1. CASE sweep'[p] = sweep[p] \/ sweep'[p] = NoSweep
  BY <1>1 DEF NoSweep
<1>2. ASSUME NEW job, NEW S \in SUBSET Sessions, Select(p, job, S),
             \A s \in S : status[s] \in Active \cup {"solved"} /\ (idle[s] \/ linked[s])
      PROVE  /\ sweep'[p].cur = NoSession
             /\ \A s \in sweep'[p].rows :
                  /\ s \in Sessions /\ status[s] \in Active \cup {"solved"} /\ (idle[s] \/ linked[s])
                  /\ linked[s] => s \in sweep'[p].held
  BY <1>2 DEF Select, TypeOK
<1>3. CASE ReapTick(p)
  BY <1>2, <1>3 DEF ReapTick, ActiveSet
<1>4. CASE ReapSolved(p)
  <2>1. Select(p, "clear", {s \in Sessions : status[s] = "solved" /\ linked[s] /\ grace[s]})
    BY <1>4 DEF ReapSolved
  <2> QED
    BY <1>2, <2>1
<1>5. CASE SweepDestroy(p)
  <2>1. PICK s \in sweep[p].rows :
          /\ s \in sweep[p].held => Remove(s) \/ RemoveRefused(s)
          /\ sweep' = [sweep EXCEPT ![p].rows = @ \ {s}, ![p].cur = s]
    BY <1>5 DEF SweepDestroy
  <2> PICK h : h = sweep[p]
    OBVIOUS
  <2>2. sweep' = [sweep EXCEPT ![p] = [[h EXCEPT !.rows = @ \ {s}] EXCEPT !.cur = s]]
    BY <2>1
  <2>3. sweep'[p] = [[h EXCEPT !.rows = @ \ {s}] EXCEPT !.cur = s] /\ h \in SweepRuns
    BY <2>2 DEF TypeOK
  <2>4. /\ sweep'[p].rows = sweep[p].rows \ {s} /\ sweep'[p].held = sweep[p].held
        /\ sweep'[p].cur = s
    BY <2>3 DEF SweepRuns
  <2> QED
    BY <2>1, <2>4
<1>6. CASE SweepUpdate(p)
  BY <1>6 DEF SweepUpdate, TypeOK, SweepRuns
<1>7. ASSUME NEW q \in Sweeps, q # p, SweepStep(q) \/ Reap(q)
      PROVE  sweep'[p] = sweep[p]
  BY <1>7 DEF SweepStep, SweepDestroy, SweepUpdate, SweepQueryFails, Reap, ReapTick, ReapSolved,
     ReapDone, Select, TypeOK
<1>8. ASSUME SweepStep(p) \/ Reap(p)
      PROVE  sweep'[p] = NoSweep \/ ReapTick(p) \/ ReapSolved(p) \/ SweepDestroy(p) \/ SweepUpdate(p)
  BY <1>8 DEF SweepStep, SweepQueryFails, Reap, ReapDone, TypeOK
<1>9. ASSUME NEW r \in Requests, ClientRequest(r) \/ Handle(r)
      PROVE  sweep' = sweep
  <2>1. CASE ClientRequest(r)
    BY <2>1 DEF ClientRequest, StartRequest, StopRequest, CheckRequest, DeleteRequest, Arrive
  <2>2. CASE Handle(r)
    BY <2>2 DEF Handle, StartStep, StopStep, CheckStep, DeleteStep, StartCount, StartPrior,
       StartInsert, Provision, Launch, ProvisionFails, StartPublish, StartFail, StopRead,
       StopDestroy, StopUpdate, CheckRead, CheckMark, CheckExec, CheckExit, CheckRecord,
       CheckVerdict, CheckProgress, DeleteActive, DeleteUser, QueryFails
  <2> QED
    BY <1>9, <2>1, <2>2
<1>10. ASSUME \/ \E u \in accounts, t \in Sessions : Heartbeat(u, t)
              \/ \E t \in Sessions : Passage(t)
              \/ Boot \/ UNCHANGED vars
       PROVE  sweep' = sweep
  BY <1>10 DEF Heartbeat, Passage, Age, GraceOver, ContainerExit, Boot, BootList, BootRemove,
     BootScan, BootMark, BootListen, vars
<1> QED
  BY <1>1, <1>3, <1>4, <1>5, <1>6, <1>7, <1>8, <1>9, <1>10 DEF Next, Sweeps

\* The steps of a serving backend.
LEMMA UpStep ==
  ASSUME TypeOK, Quiet, [Next]_vars, phase' = "up"
  PROVE  \/ BootListen
         \/ phase = "up" /\ ~Sigterm /\ ~DrainExit /\ ~Crash /\ \A s \in Sessions : ~BootMark(s)
<1>1. ~Sigterm /\ ~DrainExit /\ ~Crash /\ (\A s \in Sessions : ~BootMark(s) /\ ~BootRemove(s))
      /\ ~BootList /\ ~BootScan
  BY DEF Sigterm, DrainExit, Crash, ProcessEnds, BootMark, BootRemove, BootList, BootScan
<1>2. ASSUME \/ \E u \in accounts, t \in Sessions : Heartbeat(u, t)
             \/ \E t \in Sessions : Passage(t)
             \/ UNCHANGED vars
      PROVE  phase' = phase
  BY <1>2 DEF Heartbeat, Passage, Age, GraceOver, ContainerExit, vars, process
<1> QED
  BY <1>1, <1>2, HandlerUp, SweepUp DEF Next, Boot, Sweeps

LEMMA KeptStep ==
  ASSUME {"start", "remove", "query"} \cap Faults = {}, "delete" \notin Ops, ~SlowStart,
         TypeOK, Quiet, Starting, Launching, OrphansRemoved, StopsSettled,
         phase = "up" => Kept, [Next]_vars, phase' = "up"
  PROVE  Kept'
<1>1. CASE BootListen
  <2>1. /\ \A s \in Sessions : Exists(s) => Tracked(s)
        /\ \A r \in Requests : req[r].pc = "idle"
        /\ \A p \in Sweeps : sweep[p] = NoSweep
    BY <1>1 DEF BootListen, Booted, OrphansRemoved, Tracked, Quiet, NoReq
  <2>2. UNCHANGED <<status, linked, container, req, sweep>>
    BY <1>1 DEF BootListen, row
  <2>3. \A s \in Sessions : Exists(s)' => Tracked(s)'
    BY <2>1, <2>2 DEF Exists, Tracked
  <2> QED
    BY <2>1, <2>2, <2>3 DEF Kept, NoSweep
<1>2. CASE phase = "up" /\ ~Sigterm /\ ~DrainExit /\ ~Crash /\ \A s \in Sessions : ~BootMark(s)
  <2>0. Kept
    BY <1>2
  <2>1. ASSUME NEW s \in Sessions, Exists(s)'
        PROVE  Tracked(s)' \/ Live(s)'
    <3>1. Exists(s) \/ Live(s)
      BY <2>1, ContainerMoves DEF Exists
    <3>2. CASE Live(s)
      <4>1. PICK r \in Requests : Provisioning(r, s)
        BY <3>2 DEF Live
      <4>2. CASE StartPublish(r)
        <5>1. Row(s) /\ req[r].sess = s
          BY <4>1 DEF Starting, StartOK, Provisioning, Provisions, Launching, Row, TypeOK
        <5> QED
          BY <4>2, <5>1 DEF StartPublish, WriteStatus, Tracked, TypeOK, Active
      <4> QED
        BY <1>2, <4>1, <4>2, LiveStays DEF Launching, Live
    <3>3. CASE Tracked(s)
      <4>1. ~Gone(s)
        BY <3>1 DEF Gone, Settled
      <4>2. \A r \in Requests : ~((StopUpdate(r) \/ StartFail(r)) /\ req[r].sess = s) /\ ~DeleteUser(r)
        BY <2>0, <4>1 DEF Kept, Launching, Plain, StopUpdate, StartFail, DeleteUser, At
      <4>3. \A p \in Sweeps : ~(SweepUpdate(p) /\ sweep[p].cur = s)
        BY <2>0, <4>1 DEF Kept, SweepUpdate
      <4> QED
        BY <1>2, <3>3, <4>2, <4>3, TrackLost
    <3> QED
      BY <2>0, <3>1, <3>2, <3>3 DEF Kept
  <2>2. ASSUME NEW r \in Requests, req'[r].pc \in {"stopDestroy", "stopUpdate"},
               NEW s, s = req'[r].sess
        PROVE  Settled(s)' /\ (req'[r].pc = "stopUpdate" => Gone(s)')
    <3>1. CASE req'[r] = req[r]
      <4>1. Settled(s) /\ (req'[r].pc = "stopUpdate" => Gone(s))
        BY <2>0, <2>2, <3>1 DEF Kept, Gone
      <4> QED
        BY <3>1, <4>1, SettledStays, GoneStays
    <3>2. CASE /\ req[r].pc = "stopRead" /\ req[r].sess = s /\ Row(s)
               /\ req'[r].pc = (IF linked[s] THEN "stopDestroy" ELSE "stopUpdate")
      <4>1. Settled(s)
        BY <3>2 DEF Settled, StopsSettled, Launching, Plain, Stops, Row, Statuses, Active
      <4>2. ~linked[s] => Gone(s)
        BY <2>0, <4>1 DEF Kept, Gone, Settled, Tracked
      <4> QED
        BY <3>2, <4>1, <4>2, SettledStays, GoneStays
    <3>3. CASE req[r].pc = "stopDestroy" /\ req[r].sess = s /\ Remove(s)
      <4>1. Settled(s)
        BY <2>0, <3>3 DEF Kept
      <4>2. Settled(s)' /\ ~Exists(s)'
        BY <3>3, <4>1, SettledStays DEF Settled, Remove, Exists, TypeOK
      <4> QED
        BY <3>3, <4>2 DEF Gone
    <3> QED
      BY <2>2, <3>1, <3>2, <3>3, PlainMoves DEF Launching
  <2>3. ASSUME NEW p \in Sweeps, NEW s \in sweep'[p].rows
        PROVE  Settled(s)' /\ (s \in sweep'[p].held \/ ~Exists(s)')
    <3>1. CASE s \in sweep[p].rows /\ sweep'[p].held = sweep[p].held
      <4>1. Settled(s) /\ (s \in sweep[p].held \/ Gone(s))
        BY <2>0, <3>1 DEF Kept, Gone
      <4> QED
        BY <3>1, <4>1, SettledStays, GoneStays DEF Gone
    <3>2. CASE /\ s \in Sessions /\ status[s] \in Active \cup {"solved"} /\ (idle[s] \/ linked[s])
               /\ linked[s] => s \in sweep'[p].held
      <4>1. Settled(s)
        BY <3>2 DEF Settled, Live, Launching, Active
      <4>2. linked[s] \/ Gone(s)
        BY <2>0, <3>2, <4>1 DEF Kept, Gone, Settled, Tracked
      <4> QED
        BY <3>2, <4>1, <4>2, SettledStays, GoneStays DEF Gone
    <3> QED
      BY <1>2, <3>1, <3>2, SweepMoves
  <2>4. ASSUME NEW p \in Sweeps, sweep'[p].cur # NoSession, NEW s, s = sweep'[p].cur
        PROVE  Gone(s)'
    <3>1. CASE s = sweep[p].cur
      BY <2>0, <2>4, <3>1, GoneStays DEF Kept
    <3>2. CASE s \in sweep[p].rows /\ s \in sweep[p].held /\ Remove(s)
      <4>1. Settled(s)'
        BY <2>0, <3>2, SettledStays DEF Kept
      <4>2. ~Exists(s)'
        BY <2>0, <3>2 DEF Kept, Settled, Remove, Exists, TypeOK
      <4> QED
        BY <4>1, <4>2 DEF Gone
    <3>3. CASE s \in sweep[p].rows /\ s \notin sweep[p].held
      <4>1. Gone(s)
        BY <2>0, <3>3 DEF Kept, Gone
      <4> QED
        BY <4>1, GoneStays
    <3> QED
      BY <1>2, <2>4, <3>1, <3>2, <3>3, SweepMoves DEF RemoveRefused
  <2> QED
    BY <2>1, <2>2, <2>3, <2>4 DEF Kept, Gone, Settled, Live, Exists
<1> QED
  BY <1>1, <1>2, UpStep

\* While the backend serves, every container is in sight, whatever crashes and
\* shutdowns came before and however stops, checks and reaper runs interleave:
\* if Docker and the database do what they are told, no start outlasts the idle
\* timeout, no account is deleted, and no session is stopped while it starts.
THEOREM NoOrphanContainerAlways ==
  ASSUME {"start", "remove", "query"} \cap Faults = {}, "delete" \notin Ops, ~SlowStart
  PROVE  Spec /\ []StopsSettled => []NoOrphanContainer
<1>1. Init => Quiet /\ Starting /\ Launching /\ (phase = "up" => Kept)
  BY DEF Init, Quiet, Starting, StartOK, Launching, Plain, Provisioning, NoReq, NoSweep,
     Provisions, Stops
<1>2. TypeOK /\ Starting /\ Launching /\ [Next]_vars => Launching'
  BY LaunchingStep
<1>3. TypeOK /\ Quiet /\ Starting /\ Launching /\ OrphansRemoved /\ StopsSettled
      /\ (phase = "up" => Kept) /\ [Next]_vars => (phase = "up" => Kept)'
  BY KeptStep
<1>4. (phase = "up" => Kept) => NoOrphanContainer
  BY DEF Kept, NoOrphanContainer, Live
<1>5. Spec => []OrphansRemoved
  BY OrphansRemovedAlways
<1> QED
  BY <1>1, <1>2, <1>3, <1>4, <1>5, StartingStep, QuietStep, TypeCorrect, PTL DEF Spec

-----------------------------------------------------------------------------
(* The cap, when up to K starts overlap: each of them was let in while     *)
(* there was room for one, so K of them exceed the cap by at most K - 1.   *)

\* Sets of sessions are finite, so they are counted.
LEMMA SessionsFinite ==
  ASSUME NEW T \in SUBSET Sessions
  PROVE  /\ IsFiniteSet(T) /\ Cardinality(T) \in Nat
         /\ \A S \in SUBSET T : Cardinality(S) \in Nat /\ Cardinality(S) <= Cardinality(T)
         /\ \A s \in Sessions : Cardinality(T \cup {s}) <= Cardinality(T) + 1
<1>1. IsFiniteSet(Sessions)
  BY NumSessionsAssumption, FS_Interval DEF Sessions
<1>2. IsFiniteSet(T) /\ Cardinality(T) \in Nat
  BY <1>1, FS_Subset, FS_CardinalityType
<1>3. ASSUME NEW S \in SUBSET T
      PROVE  Cardinality(S) \in Nat /\ Cardinality(S) <= Cardinality(T)
  BY <1>2, FS_Subset, FS_CardinalityType
<1>4. ASSUME NEW s \in Sessions
      PROVE  Cardinality(T \cup {s}) <= Cardinality(T) + 1
  <2>1. CASE s \in T
    <3>1. Cardinality(T \cup {s}) = Cardinality(T)
      <4>1. T \cup {s} = T
        BY <2>1
      <4> QED
        BY <4>1
    <3> QED
      BY <1>2, <3>1
  <2>2. CASE s \notin T
    <3>1. Cardinality(T \cup {s}) = Cardinality(T) + 1
      BY <1>2, <2>2, FS_AddElement
    <3> QED
      BY <1>2, <3>1
  <2> QED
    BY <2>1, <2>2
<1> QED
  BY <1>2, <1>3, <1>4

Starters     == {r \in Requests : req[r].op = "start"}
Entering     == {r \in Starters : req[r].pc \in {"prior", "insert"} \cup Stops}
Provisioners == {r \in Starters : req[r].pc \in Provisions}
LiveSet      == {s \in Sessions : Live(s)}

AtMost(K) == IsFiniteSet(Starters) /\ Cardinality(Starters) <= K

\* The sessions that are active or will be once their start is over, and the
\* starts that still have to insert theirs.
Taken == ActiveSet \cup LiveSet

Within(K) == Cardinality(Taken) + Cardinality(Entering) <= MaxConcurrentSessions - 1 + K

LEMMA TakenFinite == IsFiniteSet(Taken) /\ Cardinality(Taken) \in Nat
BY SessionsFinite DEF Taken, ActiveSet, LiveSet

LEMMA EnteringFinite ==
  ASSUME IsFiniteSet(Starters)
  PROVE  IsFiniteSet(Entering) /\ Cardinality(Entering) \in Nat
BY FS_Subset, FS_CardinalityType DEF Entering

\* Every live session has its start.
LEMMA LiveCount ==
  ASSUME Starting, IsFiniteSet(Provisioners)
  PROVE  Cardinality(LiveSet) <= Cardinality(Provisioners)
<1> PICK f : f = [r \in Provisioners |-> req[r].sess]
  OBVIOUS
<1>1. ASSUME NEW r \in Provisioners  PROVE f[r] \in LiveSet
  BY DEF Provisioners, Starters, Starting, StartOK, LiveSet, Live, Provisioning, Provisions
<1>2. ASSUME NEW s \in LiveSet  PROVE \E r \in Provisioners : f[r] = s
  BY DEF Provisioners, Starters, Starting, StartOK, LiveSet, Live, Provisioning, Provisions
<1>3. f \in Surjection(Provisioners, LiveSet)
  BY <1>1, <1>2 DEF Surjection
<1> QED
  BY <1>3, FS_Surjection

\* A start that is let in finds room for itself and for those before it.
LEMMA Admission ==
  ASSUME NEW K \in Nat \ {0}, Starting, AtMost(K), NEW r \in Starters, req[r].pc = "count",
         ~(Cardinality(ActiveSet) >= MaxConcurrentSessions)
  PROVE  Cardinality(Taken) + Cardinality(Entering) + 1 <= MaxConcurrentSessions - 1 + K
<1>1. /\ Provisioners \in SUBSET Starters /\ Entering \in SUBSET Starters
      /\ r \notin Provisioners \cup Entering /\ Provisioners \cap Entering = {}
  BY DEF Provisioners, Entering, Provisions, Stops
<1>2. /\ IsFiniteSet(Provisioners) /\ IsFiniteSet(Entering)
      /\ Cardinality(Provisioners) \in Nat /\ Cardinality(Entering) \in Nat
  BY <1>1, FS_Subset, FS_CardinalityType DEF AtMost
<1>3. Cardinality(Provisioners \cup Entering) = Cardinality(Provisioners) + Cardinality(Entering)
      /\ IsFiniteSet(Provisioners \cup Entering)
  BY <1>1, <1>2, FS_Union, FS_EmptySet
<1>4. Cardinality((Provisioners \cup Entering) \cup {r})
        = Cardinality(Provisioners) + Cardinality(Entering) + 1
  BY <1>1, <1>3, FS_AddElement
<1>5. Cardinality((Provisioners \cup Entering) \cup {r}) <= Cardinality(Starters)
  <2>1. (Provisioners \cup Entering) \cup {r} \in SUBSET Starters
    BY <1>1
  <2> QED
    BY <2>1, FS_Subset DEF AtMost
<1>6. /\ IsFiniteSet(ActiveSet) /\ Cardinality(ActiveSet) \in Nat
      /\ IsFiniteSet(LiveSet) /\ Cardinality(LiveSet) \in Nat
      /\ Cardinality(ActiveSet \cap LiveSet) \in Nat
  BY SessionsFinite DEF ActiveSet, LiveSet
<1>7. Cardinality(Taken) <= Cardinality(ActiveSet) + Cardinality(LiveSet)
  <2>1. Cardinality(Taken) = Cardinality(ActiveSet) + Cardinality(LiveSet)
                               - Cardinality(ActiveSet \cap LiveSet)
    BY <1>6, FS_Union DEF Taken
  <2> QED
    BY <1>6, <2>1
<1>8. Cardinality(LiveSet) <= Cardinality(Provisioners)
  BY <1>2, LiveCount
<1>9. Cardinality(Starters) <= K /\ Cardinality(Starters) \in Nat
  BY FS_CardinalityType DEF AtMost
<1>10. Cardinality(Taken) \in Nat
  BY TakenFinite
<1> QED
  BY <1>2, <1>4, <1>5, <1>6, <1>7, <1>8, <1>9, <1>10, CapAssumption

\* The starts that have been let in, after a step.
LEMMA EnteringMoves ==
  ASSUME TypeOK, Starting, [Next]_vars, NEW r \in Entering'
  PROVE  \/ r \in Entering /\ ~StartInsert(r)
         \/ /\ r \in Starters /\ StartCount(r) /\ req[r].pc = "count"
            /\ ~(Cardinality(ActiveSet) >= MaxConcurrentSessions)
<1>1. r \in Requests /\ req'[r].op = "start" /\ req'[r].pc \in {"prior", "insert"} \cup Stops
  BY DEF Entering, Starters
<1>2. ~StartInsert(r)
  BY <1>1, InsertWrites DEF NoReq, Stops
<1>3. CASE req'[r] = req[r]
  BY <1>1, <1>2, <1>3 DEF Entering, Starters
<1>4. CASE req'[r] # req[r]
  BY <1>1, <1>2, <1>4, StartMoves DEF Entering, Starters, Stops
<1> QED
  BY <1>3, <1>4

\* The sessions that are taken after a step.
LEMMA TakenMoves ==
  ASSUME TypeOK, Starting, ChecksLive, [Next]_vars, NEW s \in Taken'
  PROVE  s \in Taken \/ \E r \in Entering : StartInsert(r) /\ req'[r].sess = s
<1>1. s \in Sessions
  BY DEF Taken, ActiveSet, LiveSet
<1>2. ASSUME NEW r \in Requests, StartInsert(r)  PROVE r \in Entering
  BY <1>2 DEF StartInsert, At, Entering, Starters, Starting, StartOK
<1>3. CASE Live(s)'
  <2>1. PICK r \in Requests : Provisioning(r, s)'
    BY <1>3 DEF Live
  <2>2. CASE Provisioning(r, s)
    BY <1>1, <2>2 DEF Taken, LiveSet, Live
  <2>3. CASE StartInsert(r)
    BY <1>2, <2>1, <2>3 DEF Provisioning
  <2> QED
    BY <1>1, <2>1, <2>2, <2>3, LiveMoves
<1>4. CASE status'[s] \in Active
  <2>1. CASE status[s] \in Active
    BY <1>1, <2>1 DEF Taken, ActiveSet
  <2>2. CASE status[s] \notin Active
    <3>1. PICK r \in Requests : \/ StartInsert(r) /\ req'[r].sess = s
                                \/ StartPublish(r) /\ req[r].sess = s
      BY <1>1, <1>4, <2>2, ActivatedByStart
    <3>2. CASE StartPublish(r) /\ req[r].sess = s
      BY <1>1, <3>2 DEF StartPublish, At, Taken, LiveSet, Live, Provisioning
    <3> QED
      BY <1>2, <3>1, <3>2
  <2> QED
    BY <2>1, <2>2
<1> QED
  BY <1>3, <1>4 DEF Taken, ActiveSet, LiveSet

LEMMA WithinStep ==
  ASSUME NEW K \in Nat \ {0}, TypeOK, Starting, ChecksLive, AtMost(K), Within(K), [Next]_vars
  PROVE  Within(K)'
<1>0. /\ IsFiniteSet(Taken) /\ Cardinality(Taken) \in Nat
      /\ IsFiniteSet(Entering) /\ Cardinality(Entering) \in Nat
  BY TakenFinite, EnteringFinite DEF AtMost
<1>1. CASE \E r \in Entering : StartInsert(r)
  <2>1. PICK r \in Entering : StartInsert(r)
    BY <1>1
  <2>2. /\ r \in Requests
        /\ \A q \in Requests \ {r} : req'[q] = req[q]
    BY <2>1, OnlyOwn DEF Handle, StartStep, Entering, Starters
  <2>3. ASSUME NEW q \in Entering'  PROVE q \in Entering \ {r}
    <3>1. q \in Requests /\ q # r
      BY <2>1, EnteringMoves DEF StartInsert, StartCount, At, Entering, Starters
    <3>2. req'[q] = req[q]
      BY <2>2, <3>1
    <3> QED
      BY <3>1, <3>2 DEF Entering, Starters
  <2>4. ASSUME NEW s \in Taken'  PROVE s \in Taken \cup {req'[r].sess}
    <3>1. ASSUME NEW q \in Requests, q # r, StartInsert(q)  PROVE FALSE
      BY <2>2, <3>1, InsertWrites DEF StartInsert, At, NoReq
    <3> QED
      BY <3>1, TakenMoves DEF Entering, Starters
  <2> PICK T, E : T = Taken' /\ E = Entering'
    OBVIOUS
  <2>5. T \subseteq Taken \cup {req'[r].sess} /\ E \subseteq Entering \ {r}
    BY <2>3, <2>4
  <2>6. /\ IsFiniteSet(Taken \cup {req'[r].sess})
        /\ Cardinality(Taken \cup {req'[r].sess}) <= Cardinality(Taken) + 1
        /\ Cardinality(Taken \cup {req'[r].sess}) \in Nat
    <3> PICK s : s = req'[r].sess
      OBVIOUS
    <3>1. /\ IsFiniteSet(Taken \cup {s})
          /\ Cardinality(Taken \cup {s}) = IF s \in Taken THEN Cardinality(Taken) ELSE Cardinality(Taken) + 1
      BY <1>0, FS_AddElement
    <3> QED
      BY <1>0, <3>1
  <2>7. /\ IsFiniteSet(Entering \ {r}) /\ Cardinality(Entering \ {r}) = Cardinality(Entering) - 1
        /\ Cardinality(Entering \ {r}) \in Nat
    BY <1>0, FS_RemoveElement, FS_CardinalityType
  <2>8. /\ Cardinality(T) <= Cardinality(Taken) + 1 /\ Cardinality(T) \in Nat
        /\ Cardinality(E) <= Cardinality(Entering) - 1 /\ Cardinality(E) \in Nat
    BY <1>0, <2>5, <2>6, <2>7, FS_Subset, FS_CardinalityType
  <2>9. Cardinality(T) + Cardinality(E) <= MaxConcurrentSessions - 1 + K
    BY <1>0, <2>8, CapAssumption DEF Within
  <2> QED
    BY <2>9 DEF Within
<1>2. CASE ~\E r \in Entering : StartInsert(r)
  <2>1. Taken' \subseteq Taken
    BY <1>2, TakenMoves
  <2> PICK T, E : T = Taken' /\ E = Entering'
    OBVIOUS
  <2>2. Cardinality(T) <= Cardinality(Taken) /\ Cardinality(T) \in Nat
    BY <1>0, <2>1, FS_Subset, FS_CardinalityType
  <2>3. CASE Entering' \subseteq Entering
    <3>1. Cardinality(E) <= Cardinality(Entering) /\ Cardinality(E) \in Nat
      BY <1>0, <2>3, FS_Subset, FS_CardinalityType
    <3>2. Cardinality(T) + Cardinality(E) <= MaxConcurrentSessions - 1 + K
      BY <1>0, <2>2, <3>1, CapAssumption DEF Within
    <3> QED
      BY <3>2 DEF Within
  <2>4. CASE ~(Entering' \subseteq Entering)
    <3>1. PICK r \in Starters : /\ StartCount(r) /\ req[r].pc = "count" /\ r \in Entering'
                                /\ ~(Cardinality(ActiveSet) >= MaxConcurrentSessions)
      BY <2>4, EnteringMoves
    <3>2. \A q \in Requests \ {r} : req'[q] = req[q]
      BY <3>1, OnlyOwn DEF Handle, StartStep, Starters
    <3>3. E \subseteq Entering \cup {r}
      BY <3>2 DEF Entering, Starters
    <3>4. /\ IsFiniteSet(Entering \cup {r})
          /\ Cardinality(Entering \cup {r}) <= Cardinality(Entering) + 1
          /\ Cardinality(Entering \cup {r}) \in Nat
      BY <1>0, FS_AddElement, FS_CardinalityType
    <3>5. Cardinality(E) <= Cardinality(Entering) + 1 /\ Cardinality(E) \in Nat
      BY <1>0, <3>3, <3>4, FS_Subset, FS_CardinalityType
    <3>6. Cardinality(Taken) + Cardinality(Entering) + 1 <= MaxConcurrentSessions - 1 + K
      BY <3>1, Admission
    <3>7. Cardinality(T) + Cardinality(E) <= MaxConcurrentSessions - 1 + K
      BY <1>0, <2>2, <3>5, <3>6, CapAssumption
    <3> QED
      BY <3>7 DEF Within
  <2> QED
    BY <2>3, <2>4
<1> QED
  BY <1>1, <1>2

LEMMA WithinInit ==
  ASSUME NEW K \in Nat \ {0}, Init
  PROVE  Starting /\ Within(K)
<1>1. \A r \in Requests : req[r] = NoReq
  BY DEF Init
<1>2. Taken = {} /\ Entering = {}
  BY <1>1 DEF Init, Taken, ActiveSet, LiveSet, Live, Provisioning, Entering, Starters, Active, NoReq
<1> QED
  BY <1>1, <1>2, FS_EmptySet, CapAssumption DEF Within, Starting, StartOK, NoReq, Provisions

LEMMA WithinBound ==
  ASSUME NEW K \in Nat \ {0}, AtMost(K), Within(K)
  PROVE  Cardinality(ActiveSet) <= MaxConcurrentSessions - 1 + K
<1>1. IsFiniteSet(Taken) /\ Cardinality(Taken) \in Nat /\ Cardinality(Entering) \in Nat
  BY TakenFinite, EnteringFinite DEF AtMost
<1>2. Cardinality(ActiveSet) \in Nat /\ Cardinality(ActiveSet) <= Cardinality(Taken)
  BY <1>1, FS_Subset, FS_CardinalityType DEF Taken
<1> QED
  BY <1>1, <1>2, CapAssumption DEF Within

\* Starts that overlap exceed MAX_CONCURRENT_SESSIONS by at most one session for
\* each but one of them, as long as checks find their sessions active: the count
\* and the INSERT are two queries, and nothing is held between them.
THEOREM CapOvershoot ==
  ASSUME NEW CONSTANT K \in Nat \ {0}
  PROVE  Spec /\ []AtMost(K) /\ []ChecksLive
           => [](Cardinality(ActiveSet) <= MaxConcurrentSessions - 1 + K)
<1>1. Init => Starting /\ Within(K)
  BY WithinInit
<1>2. TypeOK /\ Starting /\ ChecksLive /\ AtMost(K) /\ Within(K) /\ [Next]_vars => Within(K)'
  BY WithinStep
<1>3. AtMost(K) /\ Within(K) => Cardinality(ActiveSet) <= MaxConcurrentSessions - 1 + K
  BY WithinBound
<1> QED
  BY <1>1, <1>2, <1>3, StartingStep, TypeCorrect, PTL DEF Spec

\* While starts do not overlap, and checks find their sessions active, the
\* active sessions stay within MAX_CONCURRENT_SESSIONS: what was counted is not
\* exceeded by the time the row is inserted, nor when it is published.
THEOREM CapRespectedAlways ==
  Spec /\ []OneStart /\ []ChecksLive => []CapRespected
<1>1. OneStart => AtMost(1)
  <2> SUFFICES ASSUME OneStart  PROVE AtMost(1)
    OBVIOUS
  <2>1. CASE Starters = {}
    BY <2>1, FS_EmptySet DEF AtMost
  <2>2. CASE Starters # {}
    <3>1. PICK r : Starters = {r}
      BY <2>2 DEF Starters, OneStart
    <3> QED
      BY <3>1, FS_Singleton DEF AtMost
  <2> QED
    BY <2>1, <2>2
<1>2. Init => Starting /\ Within(1)
  BY WithinInit
<1>3. TypeOK /\ Starting /\ ChecksLive /\ AtMost(1) /\ Within(1) /\ [Next]_vars => Within(1)'
  BY WithinStep
<1>4. AtMost(1) /\ Within(1) => CapRespected
  <2>1. AtMost(1) /\ Within(1) => Cardinality(ActiveSet) <= MaxConcurrentSessions - 1 + 1
    BY WithinBound
  <2> QED
    BY <2>1, CapAssumption DEF CapRespected
<1> QED
  BY <1>1, <1>2, <1>3, <1>4, StartingStep, TypeCorrect, PTL DEF Spec

-----------------------------------------------------------------------------
(* A backend that serves one request at a time is one where the hypotheses *)
(* above hold: nothing overlaps but the reaper, the drain and the boot.    *)

Serial == \A q, r \in Requests : q = r

LEMMA SerialOrder ==
  ASSUME Serial
  PROVE  Spec => []OneStart /\ []OneStartEach /\ []StopsSettled
<1>1. OneStart /\ OneStartEach /\ StopsSettled
  BY DEF Serial, OneStart, OneStartEach, StopsSettled, Live, Provisioning
<1> QED
  BY <1>1, PTL

\* Without a check request no handler is inside checkSession.
Unchecked == \A r \in Requests : req[r].pc \notin Checking

LEMMA UncheckedStep ==
  ASSUME "check" \notin Ops, TypeOK, Unchecked, [Next]_vars
  PROVE  Unchecked'
<1> SUFFICES ASSUME NEW r \in Requests  PROVE req'[r].pc \notin Checking
  BY DEF Unchecked
<1>1. req[r].pc \notin Checking
  BY DEF Unchecked
<1>2. CASE req'[r] = req[r] \/ req'[r] = NoReq
  BY <1>1, <1>2 DEF NoReq, Checking
<1>3. CASE ClientRequest(r)
  BY <1>3 DEF ClientRequest, StartRequest, StopRequest, CheckRequest, DeleteRequest, Arrive, TypeOK,
     Checking
<1>4. CASE Handle(r)
  <2>1. \/ Finish(r) \/ \E pc : pc \notin Checking /\ Goto(r, pc)
        \/ \E s, pc : pc \notin Checking /\ On(r, s, pc)
    BY <1>1, <1>4 DEF Handle, StartStep, StopStep, CheckStep, DeleteStep, At, StartCount, StartPrior,
       StartInsert, Provision, Launch, ProvisionFails, StartPublish, StartFail, StopRead,
       StopDestroy, StopUpdate, CheckRead, CheckMark, CheckExec, CheckExit, CheckRecord,
       CheckVerdict, CheckProgress, DeleteActive, DeleteUser, QueryFails, Checking
  <2> QED
    BY <1>2, <2>1, GotoMoves, OnMoves, FinishMoves
<1>5. CASE ~ClientRequest(r) /\ ~Handle(r)
  BY <1>2, <1>5, OnlyOwn, NoHandler
<1> QED
  BY <1>3, <1>4, <1>5

\* One request at a time, and no checks: a user has one active session and the
\* cap holds, for every number of users, rows and reaper runs, and every fault.
THEOREM SerialSafe ==
  ASSUME Serial, "check" \notin Ops
  PROVE  Spec => []OneActivePerUser /\ []CapRespected
<1>1. Init => Unchecked
  BY DEF Init, Unchecked, NoReq, Checking
<1>2. TypeOK /\ Unchecked /\ [Next]_vars => Unchecked'
  BY UncheckedStep
<1>3. Unchecked => ChecksLive
  BY DEF Unchecked, ChecksLive, Checking
<1> QED
  BY <1>1, <1>2, <1>3, SerialOrder, OneActivePerUserAlways, CapRespectedAlways, TypeCorrect, PTL
     DEF Spec

\* One request at a time: a container is only lost to Docker, to the database,
\* to a start that outlasts the idle timeout or to a deleted account.
THEOREM SerialInSight ==
  ASSUME Serial, {"start", "remove", "query"} \cap Faults = {}, "delete" \notin Ops, ~SlowStart
  PROVE  Spec => []NoOrphanContainer
BY SerialOrder, NoOrphanContainerAlways, PTL
=============================================================================
