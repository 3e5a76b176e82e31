--------------------------- MODULE DurableEnd_proofs ---------------------------
(***************************************************************************)
(* What a coordinator tries, the journal takes; so one that nothing befell *)
(* leaves a run that is stopped or concluded, with passes that rest on     *)
(* passes and none that a stop caused.  Proved of DurableRun for every     *)
(* task graph and every bound.                                             *)
(***************************************************************************)
EXTENDS DurableRun_proofs

-----------------------------------------------------------------------------
(***************************************************************************)
(* A pass that is about to be recorded is an exit with 0: no other thread  *)
(* has the same attempt, so nothing happens to its process.                *)
(***************************************************************************)
JudgedPass(c, t) ==
    thread[c][t].st = "judged" /\ thread[c][t].outcome = "passed" =>
        proc[thread[c][t].attempt] = "exit0"

PassInv == \A c \in Coordinators, t \in Tasks : JudgedPass(c, t)

LEMMA OwnApart ==
    ASSUME OwnerInv, NEW c \in Coordinators, NEW t \in Tasks,
           NEW d \in Coordinators, NEW u \in Tasks,
           thread[c][t].st \in Holding, thread[d][u].st \in Holding,
           thread[c][t].attempt = thread[d][u].attempt
    PROVE  c = d /\ t = u
<1>1. HeldOwn(c, t) /\ HeldOwn(d, u) /\ Owns(c) /\ Owns(d)
  BY DEF OwnerInv, ThreadsRun, Holding, Owns
<1>2. t = u /\ co[c].generation = co[d].generation
  BY <1>1 DEF HeldOwn
<1>3. QED
  BY <1>1, <1>2 DEF OwnerInv, Places

LEMMA JudgedKept ==
    ASSUME NEW d \in Coordinators, NEW u \in Tasks, JudgedPass(d, u),
           \/ thread'[d][u] = thread[d][u]
           \/ thread'[d][u].st # "judged",
           thread[d][u].st \in Holding /\ proc[thread[d][u].attempt] = "exit0" =>
               proc'[thread[d][u].attempt] = "exit0"
    PROVE  JudgedPass(d, u)'
  BY DEF JudgedPass, Holding

\* An attempt in a thread is one the journal could have.
LEMMA HeldIsAttempt ==
    ASSUME RunInv, OwnerInv, NEW c \in Coordinators, NEW t \in Tasks,
           thread[c][t].st \in Holding
    PROVE  thread[c][t].attempt \in AttemptIds
  BY KnownIsAttempt DEF RunInv, JournalInv, OwnerInv, ThreadsRun, HeldOwn

\* The steps outside a thread keep what its processes ended with.
LEMMA QuietPass ==
    ASSUME PassInv, UNCHANGED proc,
           \A d \in Coordinators, u \in Tasks :
               thread'[d][u] = thread[d][u] \/ thread'[d][u].st # "judged"
    PROVE  PassInv'
  BY JudgedKept DEF PassInv

LEMMA ThreadPass ==
    ASSUME RunInv, OwnerInv, PassInv, NEW c \in Coordinators, NEW t \in Tasks,
           WorksOn(c, t), JudgedPass(c, t)',
           \A b \in AttemptIds : proc[b] = "exit0" =>
               \/ proc'[b] = "exit0"
               \/ thread[c][t].st \in Holding /\ b = thread[c][t].attempt
    PROVE  PassInv'
<1> SUFFICES ASSUME NEW d \in Coordinators, NEW u \in Tasks, d # c \/ u # t
             PROVE  JudgedPass(d, u)'
  BY DEF PassInv
<1>1. thread'[d][u] = thread[d][u]
  BY DEF WorksOn, OthersStand
<1>2. thread[d][u].st \in Holding /\ proc[thread[d][u].attempt] = "exit0" =>
          proc'[thread[d][u].attempt] = "exit0"
  BY OwnApart, HeldIsAttempt
<1>3. QED
  BY <1>1, <1>2, JudgedKept DEF PassInv

LEMMA LaunchPass ==
    ASSUME RunInv, OwnerInv, PassInv, NEW c \in Coordinators, NEW t \in Tasks, Launch(c, t)
    PROVE  PassInv'
<1>1. CoOK /\ WorksOn(c, t) /\ thread[c][t].st = "dispatched"
      /\ proc \in [AttemptIds -> {"none", "alive", "exit0", "exit1"}]
  BY TypeParts, ThreadEffect DEF RunInv, ThreadStep, Launch, Running
<1>2. JudgedPass(c, t)'
  <2>1. CASE Stepped(c, t, "failed") \/ Stepped(c, t, "spawned")
    BY <1>1, <2>1, SteppedFields DEF JudgedPass
  <2>2. CASE thread' = [thread EXCEPT ![c][t].st = "judged", ![c][t].outcome = "errored"]
    <3> DEFINE o == "errored"
    <3>1. /\ thread'[c][t].st = "judged"
          /\ thread'[c][t].outcome = o
          /\ thread'[c][t].attempt = thread[c][t].attempt
          /\ thread'[c][t].at = thread[c][t].at
          /\ \A u \in Tasks : u # t => thread'[c][u] = thread[c][u]
          /\ \A d \in Coordinators : d # c => thread'[d] = thread[d]
      BY <1>1, <2>2, JudgedFields
    <3>2. QED
      BY <3>1 DEF JudgedPass
  <2>3. QED
    BY <2>1, <2>2 DEF Launch
<1>3. \A b \in AttemptIds : b # thread[c][t].attempt => proc'[b] = proc[b]
  BY <1>1 DEF Launch
<1>4. QED
  BY <1>1, <1>2, <1>3, ThreadPass DEF Holding

LEMMA JudgePass ==
    ASSUME RunInv, OwnerInv, PassInv, NEW c \in Coordinators, NEW t \in Tasks, Judge(c, t)
    PROVE  PassInv'
<1>1. CoOK /\ WorksOn(c, t) /\ UNCHANGED proc
  BY TypeParts, ThreadEffect DEF RunInv, ThreadStep, Judge, world
<1>2. CASE Stepped(c, t, "stopping")
  BY <1>1, <1>2, SteppedFields, ThreadPass DEF JudgedPass
<1>3. ASSUME NEW o, thread' = [thread EXCEPT ![c][t].st = "judged", ![c][t].outcome = o],
             o = "passed" => proc[thread[c][t].attempt] = "exit0"
      PROVE  PassInv'
  <2>1. /\ thread'[c][t].st = "judged"
        /\ thread'[c][t].outcome = o
        /\ thread'[c][t].attempt = thread[c][t].attempt
        /\ thread'[c][t].at = thread[c][t].at
        /\ \A u \in Tasks : u # t => thread'[c][u] = thread[c][u]
        /\ \A d \in Coordinators : d # c => thread'[d] = thread[d]
    BY <1>1, <1>3, JudgedFields
  <2>2. JudgedPass(c, t)'
    BY <1>1, <1>3, <2>1 DEF JudgedPass
  <2>3. QED
    BY <1>1, <2>2, ThreadPass
<1>4. QED
  <2>1. CASE Flagged(c)
    BY <1>2, <2>1 DEF Judge
  <2>2. CASE ~Flagged(c)
    <3>1. PICK o : /\ thread' = [thread EXCEPT ![c][t].st = "judged", ![c][t].outcome = o]
                   /\ o = "passed" => proc[thread[c][t].attempt] = "exit0"
      BY <2>2 DEF Judge
    <3>2. QED
      BY <1>3, <3>1
  <2>3. QED
    BY <2>1, <2>2

LEMMA RecordsPass ==
    ASSUME RunInv, OwnerInv, PassInv, NEW c \in Coordinators, NEW t \in Tasks,
           Dispatch(c, t) \/ RecordStart(c, t) \/ Observe(c, t) \/ RecordFinish(c, t)
           \/ RecordInterrupt(c, t)
    PROVE  PassInv'
<1>1. CoOK /\ WorksOn(c, t)
  BY TypeParts, ThreadEffect DEF RunInv, ThreadStep
<1>2. CASE Dispatch(c, t)
  <2>1. UNCHANGED proc
    BY <1>2 DEF Dispatch, world
  <2>2. thread'[c][t].st # "judged"
    <3>1. CASE ThreadFails(c, t, AcceptsDispatched(t, co[c].generation, lineage[t]),
                           Dispatched(t, co[c].generation, lineage[t]))
      BY <1>1, <3>1, FailsFields
    <3>2. CASE thread' = [thread EXCEPT ![c][t].st = "dispatched",
                                        ![c][t].attempt = Len(attempts) + 1]
      <4>1. /\ thread'[c][t].st = "dispatched"
            /\ thread'[c][t].attempt = Len(attempts) + 1
            /\ \A u \in Tasks : u # t => thread'[c][u] = thread[c][u]
            /\ \A d \in Coordinators : d # c => thread'[d] = thread[d]
        BY <1>1, <3>2, DispatchedFields
      <4>2. QED
        BY <4>1
    <3>3. QED
      BY <1>2, <3>1, <3>2 DEF Dispatch
  <2>3. QED
    BY <1>1, <2>1, <2>2, ThreadPass DEF JudgedPass
<1>3. CASE RecordStart(c, t)
  <2>1. PICK a : a = thread[c][t].attempt
    OBVIOUS
  <2>2. thread[c][t].st \in Holding /\ a \in AttemptIds
    BY <1>3, <2>1, HeldIsAttempt DEF RecordStart, Running, Holding
  <2>3. \A b \in AttemptIds : b # a => proc'[b] = proc[b]
    BY <1>3, <2>1, TypeParts DEF RunInv, RecordStart, Killed
  <2>4. thread'[c][t].st # "judged"
    BY <1>1, <1>3, SteppedFields DEF RecordStart, ThreadFails
  <2>5. QED
    BY <1>1, <2>1, <2>2, <2>3, <2>4, ThreadPass DEF JudgedPass
<1>4. CASE Observe(c, t)
  <2>1. /\ thread'[c][t].st = "exited"
        /\ thread'[c][t].attempt = thread[c][t].attempt
        /\ thread'[c][t].outcome = thread[c][t].outcome
        /\ \A u \in Tasks : u # t => thread'[c][u] = thread[c][u]
        /\ \A d \in Coordinators : d # c => thread'[d] = thread[d]
    BY <1>1, <1>4, ObservedFields DEF Observe
  <2>2. QED
    BY <1>1, <1>4, <2>1, ThreadPass DEF JudgedPass, Observe
<1>5. CASE RecordFinish(c, t) \/ RecordInterrupt(c, t)
  <2>1. UNCHANGED proc
    BY <1>5 DEF RecordFinish, RecordInterrupt, world
  <2>2. \E st \in {"done", "interrupted", "failed"} : Stepped(c, t, st)
    <3>1. CASE RecordFinish(c, t)
      BY <3>1 DEF RecordFinish, ThreadFails
    <3>2. CASE RecordInterrupt(c, t)
      BY <3>2 DEF RecordInterrupt, ThreadFails
    <3>3. QED
      BY <1>5, <3>1, <3>2
  <2> PICK st \in {"done", "interrupted", "failed"} : Stepped(c, t, st)
    BY <2>2
  <2>4. thread'[c][t].st = st
    BY <1>1, SteppedFields
  <2>5. JudgedPass(c, t)'
    BY <2>4 DEF JudgedPass
  <2>6. QED
    BY <1>1, <2>1, <2>5, ThreadPass
<1>6. QED
  BY <1>2, <1>3, <1>4, <1>5

LEMMA PassInit == Init => PassInv
  BY DEF Init, NoThreads, NoThread, PassInv, JudgedPass

LEMMA PassNext == RunInv /\ OwnerInv /\ PassInv /\ [Next]_vars => PassInv'
<1> SUFFICES ASSUME RunInv, OwnerInv, PassInv, [Next]_vars PROVE PassInv'
  OBVIOUS
<1>1. CASE UNCHANGED <<thread, proc>>
  BY <1>1, QuietPass
<1>2. ASSUME NEW c \in Coordinators,
             MainStep(c) \/ Decline(c) \/ Crash(c) \/ StopBegins(c) \/ HandlerRuns(c)
      PROVE  PassInv'
  <2>1. CASE Walks(c)
    BY <2>1, QuietPass DEF Walks, OthersStand, world
  <2>2. CASE Leaves(c)
    BY <2>2, QuietPass, TypeParts, GoneFields DEF Leaves, OthersStand, world, RunInv
  <2>3. QED
    BY <1>2, <2>1, <2>2, MainEffect
<1>3. ASSUME NEW c \in Coordinators, Create(c) PROVE PassInv'
  <2>1. UNCHANGED proc /\ (Gone(c) \/ UNCHANGED thread)
    BY <1>3 DEF Create, world
  <2>2. QED
    BY <2>1, QuietPass, TypeParts, GoneFields DEF OthersStand, RunInv
<1>4. ASSUME NEW c \in Coordinators, NEW assume, Reopen(c, assume) PROVE PassInv'
  BY <1>1, <1>4 DEF Reopen, world
<1>5. ASSUME NEW c \in Coordinators, NEW t \in Tasks, ThreadStep(c, t) PROVE PassInv'
  BY <1>5, LaunchPass, JudgePass, RecordsPass DEF ThreadStep
<1>6. ASSUME NEW a \in AttemptIds, ProcExit(a) \/ CloseLease(a) PROVE PassInv'
  <2>1. UNCHANGED thread /\ \A b \in AttemptIds : proc[b] = "exit0" => proc'[b] = "exit0"
    BY <1>6, TypeParts DEF RunInv, ProcExit, CloseLease
  <2>2. \A d \in Coordinators, u \in Tasks :
           thread[d][u].st \in Holding /\ proc[thread[d][u].attempt] = "exit0" =>
               proc'[thread[d][u].attempt] = "exit0"
    BY <2>1, HeldIsAttempt
  <2>3. QED
    BY <2>1, <2>2, JudgedKept DEF PassInv
<1>7. CASE UNCHANGED vars \/ \E c \in Coordinators : LoseLease(c)
  BY <1>1, <1>7 DEF vars, LoseLease, world
<1>8. QED
  BY <1>2, <1>3, <1>4, <1>5, <1>6, <1>7 DEF Next, Environment

-----------------------------------------------------------------------------
(***************************************************************************)
(* A run that was reopened and not yet taken over stays as it was found:   *)
(* while leases hold, nobody else is there to record anything.             *)
(***************************************************************************)
ReopenedOpen ==
    \A c \in Coordinators : At(c, "reopened") =>
        generation \in 1 .. MaxGeneration - 1 /\ concluded = "none"

LEMMA OffIsIdle ==
    ASSUME NEW c \in Coordinators, Off(c),
           \A t \in Tasks : thread[c][t].st = "none"
    PROVE  /\ ~MainStep(c) /\ ~Decline(c) /\ ~Crash(c) /\ ~StopBegins(c) /\ ~HandlerRuns(c)
           /\ \A t \in Tasks : ~ThreadStep(c, t)
<1>1. ~MainStep(c)
  BY DEF Off, MainStep, Detach, Received, TakeOver, RecordLost, TakenOver, StartLevel, Consider,
     StartThreads, Join, WaitOutWindow, BeginWithdraw, WithdrawNext, RecordStop,
     RecordConclusion, At
<1>2. ~Decline(c) /\ ~Crash(c) /\ ~StopBegins(c) /\ ~HandlerRuns(c)
  BY DEF Off, Decline, Crash, StopBegins, HandlerRuns, Executing, At
<1>3. \A t \in Tasks : ~ThreadStep(c, t)
  BY DEF Off, ThreadStep, Dispatch, Launch, RecordStart, Observe, Judge, RecordFinish,
     RecordInterrupt, Running, At
<1>4. QED
  BY <1>1, <1>2, <1>3

\* A process that is reopened has just done so, or was and did nothing but
\* note a signal.
LEMMA StillReopened ==
    ASSUME RunInv, NEW c \in Coordinators, Moves(c), At(c, "reopened")'
    PROVE  \/ \E assume \in BOOLEAN : Reopen(c, assume)
           \/ At(c, "reopened") /\ UNCHANGED journal
<1>1. CoOK
  BY TypeParts DEF RunInv
<1>2. CASE Create(c)
  BY <1>1, <1>2, GoneFields, BegunFields DEF Create, At
<1>3. ASSUME NEW t \in Tasks, ThreadStep(c, t) PROVE FALSE
  BY <1>3, ThreadEffect DEF WorksOn, At
<1>4. CASE MainStep(c) \/ Decline(c) \/ Crash(c) \/ StopBegins(c) \/ HandlerRuns(c)
  <2>1. ~Gone(c) /\ Walks(c)
    BY <1>1, <1>4, MainEffect, GoneFields DEF Leaves, At
  <2>2. At(c, "reopened")
    BY <2>1 DEF Walks, Owns, Off, At
  <2>3. CASE StopBegins(c) \/ HandlerRuns(c)
    BY <2>2, <2>3 DEF StopBegins, HandlerRuns
  <2>4. CASE TakeOver(c)
    <3>1. co' = [co EXCEPT ![c].generation = co[c].generation + 1, ![c].pc = "losing"]
      BY <2>1, <2>4 DEF TakeOver
    <3>2. co'[c].pc = "losing"
      BY <1>1, <3>1 DEF CoOK, CoState
    <3>3. QED
      BY <3>2 DEF At
  <2>5. QED
    BY <1>4, <2>1, <2>2, <2>3, <2>4 DEF MainStep, Detach, Received, RecordLost, TakenOver,
       StartLevel, Consider, StartThreads, Join, WaitOutWindow, BeginWithdraw, WithdrawNext,
       RecordStop, RecordConclusion, Decline, Crash, At
<1>5. QED
  BY <1>2, <1>3, <1>4 DEF Moves

\* While one process has the run, nobody else does anything.
LEMMA OnlyOneMoves ==
    ASSUME RunInv, OwnerInv, Leased, NEW c \in Coordinators, ~Off(c),
           NEW d \in Coordinators, Moves(d)
    PROVE  d = c
<1> SUFFICES ASSUME d # c PROVE FALSE
  OBVIOUS
<1>1. Off(d) /\ \A t \in Tasks : thread[d][t].st = "none"
  BY OthersAreOff
<1>2. lease = c /\ c # NoOne
  BY DEF Leased, Coordinators, NoOne
<1>3. ~Create(d)
  <2>1. generation # 0
    BY DEF OwnerInv, Places
  <2>2. QED
    BY <2>1 DEF Create, AcceptsRequested
<1>4. \A assume \in BOOLEAN : ~Reopen(d, assume)
  BY <1>2 DEF Reopen
<1>5. QED
  BY <1>1, <1>3, <1>4, OffIsIdle DEF Moves

LEMMA ReopenedInit == Init => ReopenedOpen
  BY DEF Init, Unborn, ReopenedOpen, At

LEMMA ReopenedNext ==
    RunInv /\ OwnerInv /\ Leased /\ ReopenedOpen /\ [Next]_vars => ReopenedOpen'
<1> SUFFICES ASSUME RunInv, OwnerInv, Leased, ReopenedOpen, [Next]_vars,
                    NEW c \in Coordinators, At(c, "reopened")'
             PROVE  (generation \in 1 .. MaxGeneration - 1 /\ concluded = "none")'
  BY DEF ReopenedOpen
<1>1. CASE At(c, "reopened") /\ UNCHANGED journal
  BY <1>1 DEF ReopenedOpen, journal
<1>2. ASSUME NEW d \in Coordinators, Moves(d)
      PROVE  (generation \in 1 .. MaxGeneration - 1 /\ concluded = "none")'
  <2>1. d = c
    <3>1. ASSUME d # c PROVE FALSE
      <4>1. At(c, "reopened")
        BY <1>2, <3>1, OthersLeft DEF Moves, OthersStand, At
      <4>2. QED
        BY <1>2, <3>1, <4>1, OnlyOneMoves DEF Off, At
    <3>2. QED
      BY <3>1
  <2>2. CASE \E assume \in BOOLEAN : Reopen(c, assume)
    BY <2>2 DEF Reopen, journal
  <2>3. QED
    BY <1>1, <1>2, <2>1, <2>2, StillReopened
<1>3. CASE UNCHANGED <<journal, co>>
  BY <1>1, <1>3 DEF At
<1>4. QED
  BY <1>2, <1>3 DEF Next, Environment, Moves, LoseLease, ProcExit, CloseLease, vars

-----------------------------------------------------------------------------
(***************************************************************************)
(* What the journal takes, step by step.                                   *)
(***************************************************************************)
LEMMA LineageKnown ==
    ASSUME JournalInv, NEW t \in Tasks, lineage[t] # 0
    PROVE  lineage[t] \in DOMAIN attempts /\ attempts[lineage[t]].task = t
  BY AttemptFields DEF JournalInv, JournalTypeOK, WellLinked

\* With no attempt open, a run can be stopped.
LEMMA CanStop ==
    ASSUME RunInv, OwnerInv, NEW c \in Coordinators, InForce(c), Work(c), ~At(c, "losing"),
           \A t \in Tasks : thread[c][t].st = "none"
    PROVE  AcceptsStopped(generation) /\ \A a \in DOMAIN attempts : Ended(a)
<1>1. OpenAttempts = {}
  BY NoneOpen
<1>2. generation # 0
  BY DEF OwnerInv, Places, InForce, Owns, Off
<1>3. QED
  BY <1>1, <1>2 DEF AcceptsStopped, Current, Work, OpenAttempts

\* A task that its coordinator has not decided nor begun can be.
LEMMA CanDecide ==
    ASSUME RunInv, OwnerInv, NEW c \in Coordinators, InForce(c), Work(c),
           co[c].pc \in {"consider", "threads"},
           NEW t \in Tasks, ~DecidedHere(c, t), thread[c][t].st \in {"none", "ready"}
    PROVE  AcceptsReused(t, generation)
<1>1. generation # 0
  BY DEF OwnerInv, Places, InForce, Owns, Off
<1>2. ~IsDecided(t)
  BY DEF Work, Agrees, IsDecided, DecidedHere
<1>3. ~Unresolved(t)
  <2> SUFFICES ASSUME lineage[t] # 0, ~Ended(lineage[t]) PROVE FALSE
    BY DEF Unresolved
  <2>1. lineage[t] \in OpenAttempts /\ attempts[lineage[t]].task = t
    BY LineageKnown DEF RunInv, OpenAttempts
  <2>2. HeldBy(c, lineage[t])
    BY <2>1 DEF Work, Attempted, At
  <2>3. QED
    BY <2>1, <2>2 DEF HeldBy, Holding
<1>4. QED
  BY <1>1, <1>2, <1>3 DEF AcceptsReused, Current, UndecidedTask, Work

LEMMA CanWithdraw ==
    ASSUME RunInv, OwnerInv, NEW c \in Coordinators, InForce(c), Work(c), co[c].passes # << >>
    PROVE  AcceptsWithdrawn(Head(co[c].passes).task, Head(co[c].passes).attempt, generation)
<1>1. PICK p : p = Head(co[c].passes)
  OBVIOUS
<1>2. CoOK /\ JournalInv /\ PassesStand(c) /\ Open
  BY TypeParts DEF RunInv, Work
<1>3. co[c].passes \in Seq(Pass)
  BY <1>2 DEF CoOK, CoState
<1>4. 1 \in DOMAIN co[c].passes /\ p = co[c].passes[1]
  BY <1>1, <1>3
<1>5. /\ decided[p.task].attempt = p.attempt
      /\ decided[p.task].generation = generation
      /\ decided[p.task].outcome = IF p.attempt = 0 THEN "cached" ELSE "passed"
  BY <1>2, <1>4 DEF PassesStand, PassStands
<1>6. p.task \in Tasks
  BY <1>2, <1>4, PassIsDecided
<1>7. p.attempt # 0 => attempts[p.attempt].end = "passed" /\ ~attempts[p.attempt].withdrawn
  BY <1>2, <1>5, <1>6 DEF JournalInv, DecisionHasEvidence
<1>8. generation # 0
  BY DEF OwnerInv, Places, InForce, Owns, Off
<1>9. QED
  BY <1>1, <1>2, <1>5, <1>7, <1>8 DEF AcceptsWithdrawn, Current

LEMMA CanConclude ==
    ASSUME RunInv, OwnerInv, PlanInv, NEW c \in Coordinators, InForce(c), Work(c),
           At(c, "conclude")
    PROVE  AcceptsConcluded(generation)
<1>1. \A t \in Tasks : thread[c][t].st = "none"
  BY IdleThreads DEF At
<1>2. AcceptsStopped(generation) /\ \A a \in DOMAIN attempts : Ended(a)
  BY <1>1, CanStop DEF At
<1>3. \A t \in Tasks : DecidedHere(c, t) /\ Agrees(c, t)
  BY DEF PlanInv, PlanOf, Progress, Work, At
<1>4. \A t \in Tasks : IsDecided(t)
  BY <1>1, <1>3 DEF Agrees, DecidedHere, IsDecided
<1>5. QED
  BY <1>2, <1>4 DEF AcceptsConcluded, AcceptsStopped

LEMMA CanEnd ==
    ASSUME RunInv, OwnerInv, PlanInv, PassInv, NEW c \in Coordinators, InForce(c), Work(c),
           NEW t \in Tasks
    PROVE  LET a == thread[c][t].attempt
               st == thread[c][t].st
           IN  /\ st = "spawned" => AcceptsStarted(a, generation)
               /\ st = "judged" => AcceptsFinished(a, generation, proc[a] = "exit0",
                                                   thread[c][t].outcome)
               /\ st = "stopping" => AcceptsInterrupted(a, generation)
<1>1. PICK a : a = thread[c][t].attempt
  OBVIOUS
<1>2. generation # 0 /\ co[c].generation = generation
  BY DEF OwnerInv, Places, InForce, Owns, Off
<1>3. ASSUME thread[c][t].st \in Holding
      PROVE  Known(a) /\ attempts[a].generation = generation /\ ~Ended(a)
  <2>1. HeldOwn(c, t) /\ Held(c, t)
    BY DEF OwnerInv, ThreadsRun, Work
  <2>2. QED
    BY <1>1, <1>2, <1>3, <2>1 DEF HeldOwn, Held
<1>4. thread[c][t].st = "spawned" => AcceptsStarted(a, generation)
  <2>1. Held(c, t)
    BY DEF Work
  <2>2. QED
    BY <1>1, <1>2, <1>3, <2>1 DEF Held, AcceptsStarted, Current, Holding
<1>5. thread[c][t].st = "judged" =>
          AcceptsFinished(a, generation, proc[a] = "exit0", thread[c][t].outcome)
  <2>1. Held(c, t) /\ JudgedPass(c, t) /\ ThreadPlan(c, t)
    BY DEF Work, PassInv, PlanInv, PlanOf
  <2>2. thread[c][t].outcome \in FinishedEnds \cup {"none"}
    BY TypeParts DEF RunInv, CoOK, ThreadState
  <2>3. QED
    BY <1>1, <1>2, <1>3, <2>1, <2>2 DEF Held, JudgedPass, ThreadPlan, AcceptsFinished, Holding
<1>6. thread[c][t].st = "stopping" => AcceptsInterrupted(a, generation)
  BY <1>2, <1>3 DEF AcceptsInterrupted, Current, Holding
<1>7. QED
  BY <1>1, <1>4, <1>5, <1>6

\* What NeverRefused says of one coordinator.
NotRefused(c) ==
    LET g == co[c].generation
    IN  /\ At(c, "reopened") => AcceptsResumed(g + 1)
        /\ At(c, "losing") => \A a \in OpenAttempts : AcceptsLost(a, g)
        /\ At(c, "detach") \/ At(c, "received") => AcceptsStopped(g)
        /\ At(c, "withdrawing") =>
             IF co[c].passes = <<>> THEN AcceptsStopped(g)
             ELSE LET p == Head(co[c].passes)
                  IN  ~StandsBeforeStop(c, p) => AcceptsWithdrawn(p.task, p.attempt, g)
        /\ At(c, "conclude") => AcceptsConcluded(g)
        /\ At(c, "consider") => \A t \in Tasks :
             ~DecidedHere(c, t) => AcceptsReused(t, g)
        /\ At(c, "threads") => \A t \in Tasks :
             LET a == thread[c][t].attempt
                 st == thread[c][t].st
             IN  /\ st = "ready" => AcceptsDispatched(t, g, lineage[t])
                 /\ st = "spawned" => AcceptsStarted(a, g)
                 /\ st = "judged" => AcceptsFinished(a, g, proc[a] = "exit0",
                                                    thread[c][t].outcome)
                 /\ st = "stopping" => AcceptsInterrupted(a, g)

LEMMA OwnerNotRefused ==
    ASSUME RunInv, OwnerInv, PlanInv, WorkInv, PassInv, Len(attempts) < MaxAttempts,
           NEW c \in Coordinators, InForce(c)
    PROVE  NotRefused(c)
<1>1. Work(c) /\ PlanOf(c) /\ co[c].generation = generation /\ ~At(c, "reopened")
  BY DEF WorkInv, PlanInv, InForce, Owns, At
<1>2. At(c, "losing") => \A a \in OpenAttempts : AcceptsLost(a, generation)
  <2>1. generation # 0
    BY DEF OwnerInv, Places, InForce, Owns, Off
  <2>2. QED
    BY <1>1, <2>1 DEF Work, Attempted, OpenAttempts, AcceptsLost, Current, Known
<1>3. co[c].pc \in {"detach", "received", "withdrawing"} => AcceptsStopped(generation)
  BY <1>1, IdleThreads, CanStop DEF At
<1>4. At(c, "withdrawing") /\ co[c].passes # << >> =>
          AcceptsWithdrawn(Head(co[c].passes).task, Head(co[c].passes).attempt, generation)
  BY <1>1, CanWithdraw
<1>5. At(c, "conclude") => AcceptsConcluded(generation)
  BY <1>1, CanConclude
<1>6. ASSUME At(c, "consider"), NEW t \in Tasks, ~DecidedHere(c, t)
      PROVE  AcceptsReused(t, generation)
  <2>1. thread[c][t].st \in {"none", "ready"}
    BY <1>6 DEF OwnerInv, ThreadsRun, At
  <2>2. QED
    BY <1>1, <1>6, <2>1, CanDecide DEF At
<1>7. ASSUME At(c, "threads"), NEW t \in Tasks, thread[c][t].st = "ready"
      PROVE  AcceptsDispatched(t, generation, lineage[t])
  <2>1. ~DecidedHere(c, t)
    BY <1>1, <1>7 DEF PlanOf, ThreadPlan
  <2>2. AcceptsReused(t, generation)
    BY <1>1, <1>7, <2>1, CanDecide DEF At
  <2>3. QED
    BY <2>2 DEF AcceptsReused, AcceptsDispatched
<1>8. ASSUME At(c, "threads"), NEW t \in Tasks
      PROVE  LET a == thread[c][t].attempt
                 st == thread[c][t].st
             IN  /\ st = "ready" => AcceptsDispatched(t, generation, lineage[t])
                 /\ st = "spawned" => AcceptsStarted(a, generation)
                 /\ st = "judged" => AcceptsFinished(a, generation, proc[a] = "exit0",
                                                     thread[c][t].outcome)
                 /\ st = "stopping" => AcceptsInterrupted(a, generation)
  BY <1>1, <1>7, <1>8, CanEnd
<1>9. QED
  BY <1>1, <1>2, <1>3, <1>4, <1>5, <1>6, <1>8 DEF NotRefused, At

LEMMA NothingRefused ==
    ASSUME RunInv, OwnerInv, PlanInv, WorkInv, PassInv, ReopenedOpen, Len(attempts) < MaxAttempts
    PROVE  NeverRefused
<1>1. ASSUME NEW c \in Coordinators, ~Fenced(c) PROVE NotRefused(c)
  <2>1. co[c].generation = generation
    BY <1>1 DEF Fenced
  <2>2. CASE Owns(c)
    BY <2>1, <2>2, OwnerNotRefused DEF InForce
  <2>3. CASE At(c, "reopened")
    <3>1. AcceptsResumed(co[c].generation + 1)
      BY <2>1, <2>3, BoundsAssumption DEF ReopenedOpen, AcceptsResumed
    <3>2. QED
      BY <2>3, <3>1 DEF NotRefused, At
  <2>4. CASE Off(c)
    BY <2>4 DEF Off, NotRefused, At
  <2>5. QED
    BY <2>2, <2>3, <2>4 DEF Owns, Off, At
<1>2. QED
  BY <1>1 DEF NeverRefused, NotRefused

\* NeverRefused: while leases hold, and short of the model's bound on attempts,
\* the journal takes every fact its coordinator tries: whatever order its
\* threads, a stop, a crash or a resume come in, what it has in mind is what
\* the journal has.
THEOREM NothingIsRefused ==
    ASSUME "lease" \notin Events
    PROVE  Spec => [](Len(attempts) < MaxAttempts => NeverRefused)
<1>1. RunInv /\ OwnerInv /\ PlanInv /\ WorkInv /\ PassInv /\ ReopenedOpen =>
          (Len(attempts) < MaxAttempts => NeverRefused)
  BY NothingRefused
<1>2. RunInv /\ OwnerInv /\ ProcessInv /\ [Next]_vars => ProcessInv'
  BY ProcessNext
<1>3. ProcessInv => Leased
  BY DEF ProcessInv
<1>4. QED
  BY <1>1, <1>2, <1>3, RunInit, RunNext, OwnerInit, OwnerNext, PlanInit, PlanNext, WorkInit,
     WorkNext, PassInit, PassNext, ProcessInit, ReopenedInit, ReopenedNext, PTL DEF Spec

-----------------------------------------------------------------------------
(***************************************************************************)
(* How a run is left.  Where nothing is killed, every file can be written  *)
(* and leases hold, a coordinator is never fenced off and none of its      *)
(* threads fails; so it leaves by recording a stop or a conclusion.        *)
(***************************************************************************)
Orderly(c) == ~Fenced(c) /\ \A t \in Tasks : thread[c][t].st # "failed"

EndInv ==
    Len(attempts) < MaxAttempts =>
        /\ \A c \in Coordinators : ~Off(c) => Orderly(c)
        /\ \A c \in Coordinators : At(c, "reopened") => stopped
        /\ LeftIsEnded

\* What a step of coordinator c has to show.
EndsWell(c) ==
    IF Off(c)' THEN stopped' \/ concluded' # "none"
               ELSE Orderly(c)' /\ (At(c, "reopened")' => stopped')

LEMMA EndKept ==
    ASSUME NEW c \in Coordinators, OthersStand(c), EndsWell(c),
           \A d \in Coordinators : d # c => Off(d)
    PROVE  EndInv'
<1>1. \A d \in Coordinators : d # c => Off(d)'
  BY DEF OthersStand, Off
<1>2. ASSUME NEW d \in Coordinators, ~Off(d)' PROVE Orderly(d)'
  BY <1>1, <1>2 DEF EndsWell
<1>3. ASSUME NEW d \in Coordinators, At(d, "reopened")' PROVE stopped'
  BY <1>1, <1>3 DEF EndsWell, Off, At
<1>4. LeftIsEnded'
  BY DEF EndsWell, LeftIsEnded, Off
<1>5. QED
  BY <1>2, <1>3, <1>4 DEF EndInv

LEMMA MainKeepsGeneration ==
    ASSUME NEW c \in Coordinators, MainStep(c), ~TakeOver(c)
    PROVE  UNCHANGED generation
<1>1. CASE Detach(c) \/ Received(c) \/ (\E a \in AttemptIds : RecordLost(c, a)) \/ TakenOver(c)
           \/ StartLevel(c) \/ StartThreads(c) \/ Join(c) \/ WaitOutWindow(c)
           \/ BeginWithdraw(c) \/ RecordStop(c) \/ RecordConclusion(c)
  BY <1>1 DEF Detach, Received, NotStarted, RecordLost, TakenOver, StartLevel, StartThreads,
     Join, WaitOutWindow, BeginWithdraw, RecordStop, RecordConclusion, Recorded, NotRecorded,
     Stopped, Lost, Concluded, journal
<1>2. CASE Consider(c)
  BY <1>2 DEF Consider, SettleAs, Reuse, Recorded, NotRecorded, Settled, Reused, journal
<1>3. CASE WithdrawNext(c)
  BY <1>3 DEF WithdrawNext, Recorded, NotRecorded, Withdrawn, journal
<1>4. QED
  BY <1>1, <1>2, <1>3 DEF MainStep

\* A main thread that goes on in its generation stays orderly.
LEMMA WalkEndsWell ==
    ASSUME NEW c \in Coordinators, Walks(c), Orderly(c), UNCHANGED generation,
           ~At(c, "reopened")
    PROVE  EndsWell(c)
<1>1. ~Off(c)' /\ ~At(c, "reopened")'
  BY DEF Walks, Off, Owns, At
<1>2. ~Fenced(c)'
  BY DEF Walks, Orderly, Fenced
<1>3. \A t \in Tasks : thread'[c][t].st # "failed"
  BY DEF Walks, Orderly
<1>4. QED
  BY <1>1, <1>2, <1>3 DEF EndsWell, Orderly

\* The steps that may leave without their record do not: it is accepted.
LEMMA StartEndsWell ==
    ASSUME RunInv, NEW c \in Coordinators, Orderly(c), NotRefused(c), "write" \notin Events,
           Detach(c) \/ Received(c)
    PROVE  EndsWell(c)
<1>1. CoOK /\ AcceptsStopped(co[c].generation)
  BY TypeParts DEF RunInv, NotRefused, Detach, Received
<1>2. CASE NotStarted(c)
  BY <1>1, <1>2, GoneFields
     DEF NotStarted, Orderly, NotRecorded, Recorded, Stopped, EndsWell, Off
<1>3. CASE ~NotStarted(c)
  <2>1. PICK pc \in {"received", "level"} : Moved(c, pc)
    BY <1>3 DEF Detach, Received
  <2>2. co'[c].pc # "gone"
    BY <1>1, <2>1, MovedFields
  <2>3. Walks(c)
    BY <1>1, <2>2, DetachEffect, GoneFields DEF Leaves
  <2>4. QED
    BY <2>3, WalkEndsWell, MainKeepsGeneration DEF MainStep, Detach, Received, TakeOver, At
<1>4. QED
  BY <1>2, <1>3

LEMMA LostEndsWell ==
    ASSUME RunInv, NEW c \in Coordinators, Orderly(c), NotRefused(c), "write" \notin Events,
           NEW a \in AttemptIds, RecordLost(c, a)
    PROVE  EndsWell(c)
<1>1. UNCHANGED co /\ At(c, "losing")
  BY DEF RecordLost, NotRefused, Orderly, NotRecorded
<1>2. Walks(c)
  BY <1>1, RecordLostEffect, TypeParts, GoneFields DEF Leaves, RunInv, At
<1>3. QED
  BY <1>1, <1>2, WalkEndsWell, MainKeepsGeneration DEF MainStep, TakeOver, At

LEMMA ConsiderWalks ==
    ASSUME RunInv, NEW c \in Coordinators, Orderly(c), NotRefused(c), "write" \notin Events,
           Consider(c)
    PROVE  Walks(c)
<1>1. CoOK /\ At(c, "consider") /\ Considered(c) \in Tasks
  BY TypeParts, ConsideredIsTask DEF RunInv, Consider
<1>2. PICK t \in Tasks : t = Considered(c)
  BY <1>1
<1>3. ~DecidedHere(c, t) => AcceptsReused(t, co[c].generation)
  BY <1>1 DEF NotRefused
<1>4. ~DecidedHere(c, t) =>
          /\ ~NotRecorded(c, AcceptsReused(t, co[c].generation), Reused(t, co[c].generation))
          /\ \A o \in {"blocked", "errored"} :
               ~NotRecorded(c, AcceptsSettled(t, co[c].generation, o),
                            Settled(t, co[c].generation, o))
  BY <1>3 DEF NotRecorded, Orderly, AcceptsReused, AcceptsSettled
<1>5. co'[c].pc = "consider"
  <2>1. CASE co' = [co EXCEPT ![c].pos = @ + 1]
    BY <1>1, <2>1, PassesOverFields DEF At
  <2>2. CASE Decides(c, t, "blocked") \/ Decides(c, t, "errored")
    BY <1>1, <2>2, DecidesFields DEF At
  <2>3. CASE co' = [co EXCEPT ![c].decided[t] = "cached", ![c].pos = @ + 1,
                         ![c].passes = Append(@, [task |-> t, attempt |-> 0, at |-> now])]
    BY <1>1, <2>3, ReuseFields DEF At
  <2>4. QED
    BY <1>2, <1>4, <2>1, <2>2, <2>3 DEF Consider, Considered, SettleAs, Reuse
<1>6. QED
  BY <1>1, <1>5, ConsiderEffect, GoneFields DEF Leaves

LEMMA ConsiderEndsWell ==
    ASSUME RunInv, NEW c \in Coordinators, Orderly(c), NotRefused(c), "write" \notin Events,
           Consider(c)
    PROVE  EndsWell(c)
  BY ConsiderWalks, WalkEndsWell, MainKeepsGeneration DEF MainStep, Consider, TakeOver, At

LEMMA JoinEndsWell ==
    ASSUME RunInv, NEW c \in Coordinators, Orderly(c), Join(c)
    PROVE  EndsWell(c)
<1>1. CoOK
  BY TypeParts DEF RunInv
<1>2. co' = [co EXCEPT ![c].pc = "level", ![c].pos = 0,
                ![c].decided = [t \in Tasks |->
                   IF thread[c][t].st = "done" THEN thread[c][t].outcome ELSE @[t]]]
  BY DEF Join, Orderly
<1>3. co'[c].pc = "level"
  BY <1>1, <1>2 DEF CoOK, CoState
<1>4. Walks(c)
  BY <1>1, <1>3, JoinEffect, GoneFields DEF Leaves
<1>5. QED
  BY <1>4, WalkEndsWell, MainKeepsGeneration DEF MainStep, Join, TakeOver, At

LEMMA WithdrawEndsWell ==
    ASSUME RunInv, NEW c \in Coordinators, Orderly(c), NotRefused(c), "write" \notin Events,
           WaitOutWindow(c) \/ BeginWithdraw(c) \/ WithdrawNext(c)
    PROVE  EndsWell(c)
<1>1. CoOK /\ co[c].pc \in {"window", "withdraw", "withdrawing"}
  BY TypeParts DEF RunInv, WaitOutWindow, BeginWithdraw, WithdrawNext, At
<1>2. co'[c].pc # "gone"
  <2>1. CASE WaitOutWindow(c)
    <3>1. PICK pc \in {"withdraw", "conclude"} : Moved(c, pc)
      BY <2>1 DEF WaitOutWindow
    <3>2. QED
      BY <1>1, <3>1, MovedFields
  <2>2. CASE BeginWithdraw(c)
    BY <1>1, <2>2, BeginWithdrawFields
  <2>3. CASE WithdrawNext(c)
    <3>1. co' = [co EXCEPT ![c].passes = Tail(@)]
      BY <2>3 DEF WithdrawNext, NotRefused, NotRecorded, Orderly
    <3>2. QED
      BY <1>1, <3>1, WithdrawNextFields
  <2>4. QED
    BY <2>1, <2>2, <2>3
<1>3. Walks(c)
  BY <1>1, <1>2, WithdrawEffect, GoneFields DEF Leaves
<1>4. QED
  BY <1>1, <1>3, WalkEndsWell, MainKeepsGeneration DEF MainStep, TakeOver, At

\* The last record: a stop or a conclusion.
LEMMA LastEndsWell ==
    ASSUME RunInv, NEW c \in Coordinators, Orderly(c), NotRefused(c), "write" \notin Events,
           RecordStop(c) \/ RecordConclusion(c)
    PROVE  EndsWell(c)
<1>1. CoOK /\ co'[c].pc = "gone"
  BY TypeParts, GoneFields DEF RunInv, RecordStop, RecordConclusion
<1>2. CASE RecordStop(c)
  BY <1>1, <1>2 DEF RecordStop, NotRefused, NotRecorded, Recorded, Orderly, Stopped, EndsWell, Off
<1>3. CASE RecordConclusion(c)
  <2>1. Concluded(co[c].generation, RunOutcome)
    BY <1>3 DEF RecordConclusion, NotRefused, NotRecorded, Recorded, Orderly
  <2>2. concluded' \in RunOutcomes
    BY <2>1 DEF Concluded
  <2>3. QED
    BY <1>1, <2>2 DEF RunOutcomes, EndsWell, Off
<1>4. QED
  BY <1>2, <1>3

\* The steps of the main thread that write nothing.
LEMMA QuietEndsWell ==
    ASSUME RunInv, NEW c \in Coordinators, Orderly(c),
           TakenOver(c) \/ StartLevel(c) \/ StartThreads(c)
    PROVE  EndsWell(c)
<1>1. Walks(c) /\ ~At(c, "reopened") /\ ~TakeOver(c) /\ MainStep(c)
  BY TakenOverEffect, StartLevelEffect
     DEF TakenOver, StartLevel, StartThreads, At, TakeOver, MainStep
<1>2. QED
  BY <1>1, WalkEndsWell, MainKeepsGeneration

\* The takeover is recorded, and its coordinator is in the new generation.
LEMMA TakeOverEndsWell ==
    ASSUME RunInv, OwnerInv, NEW c \in Coordinators, Orderly(c), NotRefused(c),
           "write" \notin Events, TakeOver(c)
    PROVE  EndsWell(c)
<1> DEFINE g == co[c].generation + 1
<1> DEFINE r == [co[c] EXCEPT !.generation = g, !.pc = "losing"]
<1>1. AcceptsResumed(g)
  BY DEF NotRefused, TakeOver
<1>2. Resumed(g) /\ UNCHANGED thread
      /\ co' = [co EXCEPT ![c].generation = g, ![c].pc = "losing"]
  BY <1>1 DEF TakeOver, NotRecorded, Recorded, Orderly
<1>3. CoOK /\ co[c] \in CoState
  BY TypeParts DEF RunInv, CoOK
<1>4. co' = [co EXCEPT ![c] = r]
  BY <1>2, <1>3 DEF CoOK, CoState
<1>5. r.pc = "losing" /\ r.generation = g /\ r.fenced = co[c].fenced
  BY <1>3 DEF CoState
<1> HIDE DEF r
<1>6. co'[c].pc = "losing" /\ co'[c].generation = g /\ co'[c].fenced = co[c].fenced
  BY <1>3, <1>4, <1>5, CoSet
<1>7. generation' = g
  BY <1>2 DEF Resumed
<1>8. QED
  BY <1>2, <1>6, <1>7 DEF EndsWell, Orderly, Fenced, Off, At

LEMMA MainEndsWell ==
    ASSUME RunInv, OwnerInv, NEW c \in Coordinators, Orderly(c), NotRefused(c),
           "write" \notin Events, MainStep(c)
    PROVE  EndsWell(c)
  BY StartEndsWell, TakeOverEndsWell, LostEndsWell, QuietEndsWell, ConsiderEndsWell,
     JoinEndsWell, WithdrawEndsWell, LastEndsWell DEF MainStep

\* A takeover declined leaves the run stopped, as it was found.
LEMMA DeclineEndsWell ==
    ASSUME RunInv, NEW c \in Coordinators, stopped, Decline(c)
    PROVE  EndsWell(c)
<1>1. co'[c].pc = "gone"
  BY TypeParts, GoneFields DEF RunInv, Decline
<1>2. QED
  BY <1>1 DEF Decline, journal, EndsWell, Off

LEMMA SignalEndsWell ==
    ASSUME RunInv, NEW c \in Coordinators, Orderly(c), At(c, "reopened") => stopped,
           StopBegins(c) \/ HandlerRuns(c)
    PROVE  EndsWell(c)
<1>1. co'[c].pc = co[c].pc /\ KeepsSelf(c)
  BY TypeParts, SignalFields DEF RunInv
<1>2. UNCHANGED <<journal, thread>> /\ ~Off(c)
  BY DEF StopBegins, HandlerRuns, Executing, Off
<1>3. QED
  BY <1>1, <1>2 DEF EndsWell, Orderly, Fenced, KeepsSelf, journal, Off, At

LEMMA CreateEndsWell ==
    ASSUME RunInv, OwnerInv, NEW c \in Coordinators, "write" \notin Events, Create(c)
    PROVE  EndsWell(c)
<1>1. PICK pc \in {"level", "detach"} : Begin(c, 1, pc)
  BY DEF Create
<1>2. Requested /\ UNCHANGED thread /\ co[c].pc = "unborn"
  BY DEF Create, IsNext
<1>3. co'[c].pc = pc /\ co'[c].generation = 1 /\ ~co'[c].fenced
  BY <1>1, TypeParts, BegunFields DEF RunInv
<1>4. generation' = 1
  BY <1>2 DEF Requested
<1>5. \A t \in Tasks : thread'[c][t].st = "none"
  BY <1>2, IdleThreads
<1>6. QED
  BY <1>3, <1>4, <1>5 DEF EndsWell, Orderly, Fenced, Off, At

\* A run is reopened when nobody has it: whoever left it had it stopped.
LEMMA ReopenEndsWell ==
    ASSUME RunInv, OwnerInv, Leased, LeftIsEnded, NEW c \in Coordinators,
           NEW assume, Reopen(c, assume)
    PROVE  EndsWell(c)
<1>1. UNCHANGED <<journal, thread>> /\ lease = NoOne /\ concluded = "none"
      /\ generation # 0 /\ co[c].pc = "unborn"
  BY DEF Reopen, IsNext
<1>2. \A d \in Coordinators : Off(d)
  BY <1>1 DEF Leased, NoOne, Coordinators
<1>3. stopped
  BY <1>1, <1>2 DEF LeftIsEnded, Off
<1>4. co'[c].pc = "reopened" /\ co'[c].generation = generation /\ ~co'[c].fenced
  <2> DEFINE r == [Unborn EXCEPT !.pc = "reopened", !.generation = generation,
                                 !.assumed = {a \in OpenAttempts : GroupExists(a)}]
  <2>1. CoOK /\ co' = [co EXCEPT ![c] = r]
    BY TypeParts DEF RunInv, Reopen
  <2>2. r.pc = "reopened" /\ r.generation = generation /\ ~r.fenced
    BY DEF Unborn
  <2> HIDE DEF r
  <2>3. QED
    BY <2>1, <2>2, CoSet
<1>5. \A t \in Tasks : thread'[c][t].st = "none"
  BY <1>1, IdleThreads
<1>6. QED
  BY <1>1, <1>3, <1>4, <1>5 DEF EndsWell, Orderly, Fenced, journal, Off, At

\* A thread's fact is recorded, and its coordinator is not fenced off.
LEMMA ThreadGoesWell ==
    ASSUME RunInv, NEW c \in Coordinators, NEW t \in Tasks, Orderly(c), NotRefused(c),
           "write" \notin Events, ThreadStep(c, t)
    PROVE  thread'[c][t].st # "failed" /\ co'[c].fenced = co[c].fenced
<1>1. CoOK /\ ~Fenced(c) /\ At(c, "threads")
  BY TypeParts, ThreadEffect DEF RunInv, Orderly, WorksOn
<1>2. CASE Dispatch(c, t)
  <2>1. UNCHANGED co /\ thread' = [thread EXCEPT ![c][t].st = "dispatched",
                                                 ![c][t].attempt = Len(attempts) + 1]
    BY <1>1, <1>2 DEF Dispatch, NotRefused, Running, ThreadFails, NotRecorded
  <2>2. QED
    BY <1>1, <2>1, DispatchedFields
<1>3. CASE Launch(c, t)
  <2>1. UNCHANGED co
    BY <1>3 DEF Launch
  <2>2. CASE Stepped(c, t, "spawned")
    BY <1>1, <2>1, <2>2, SteppedFields
  <2>3. CASE thread' = [thread EXCEPT ![c][t].st = "judged", ![c][t].outcome = "errored"]
    BY <1>1, <2>1, <2>3, JudgedFields
  <2>4. QED
    BY <1>3, <2>2, <2>3 DEF Launch
<1>4. CASE RecordStart(c, t)
  <2>1. UNCHANGED co /\ Stepped(c, t, "running")
    BY <1>1, <1>4 DEF RecordStart, NotRefused, Running, ThreadFails, NotRecorded
  <2>2. QED
    BY <1>1, <2>1, SteppedFields
<1>5. CASE Observe(c, t)
  <2>1. UNCHANGED co
        /\ thread' = [thread EXCEPT ![c][t].st = "exited", ![c][t].at = now']
    BY <1>5 DEF Observe
  <2>2. QED
    BY <1>1, <2>1, ObservedFields
<1>6. CASE Judge(c, t)
  <2>1. UNCHANGED co
    BY <1>6 DEF Judge
  <2>2. CASE Stepped(c, t, "stopping")
    BY <1>1, <2>1, <2>2, SteppedFields
  <2>3. ASSUME NEW o, thread' = [thread EXCEPT ![c][t].st = "judged", ![c][t].outcome = o]
        PROVE  thread'[c][t].st # "failed"
    BY <1>1, <2>3, JudgedFields
  <2>4. QED
    BY <1>6, <2>1, <2>2, <2>3 DEF Judge
<1>7. CASE RecordFinish(c, t)
  <2>1. Stepped(c, t, "done")
        /\ co' = IF thread[c][t].outcome = "passed"
                 THEN [co EXCEPT ![c].passes =
                         Append(@, [task |-> t, attempt |-> thread[c][t].attempt,
                                    at |-> thread[c][t].at])]
                 ELSE co
    BY <1>1, <1>7 DEF RecordFinish, NotRefused, Running, ThreadFails, NotRecorded
  <2>2. thread'[c][t].st = "done"
    BY <1>1, <2>1, SteppedFields
  <2>3. co'[c].fenced = co[c].fenced
    BY <1>1, <2>1, PassedFields DEF KeepsSelf
  <2>4. QED
    BY <2>2, <2>3
<1>8. CASE RecordInterrupt(c, t)
  <2>1. UNCHANGED co /\ Stepped(c, t, "interrupted")
    BY <1>1, <1>8 DEF RecordInterrupt, NotRefused, Running, ThreadFails, NotRecorded
  <2>2. QED
    BY <1>1, <2>1, SteppedFields
<1>9. QED
  BY <1>2, <1>3, <1>4, <1>5, <1>6, <1>7, <1>8 DEF ThreadStep

LEMMA ThreadEndsWell ==
    ASSUME RunInv, NEW c \in Coordinators, NEW t \in Tasks, Orderly(c), NotRefused(c),
           "write" \notin Events, ThreadStep(c, t)
    PROVE  EndsWell(c)
<1>1. WorksOn(c, t) /\ UNCHANGED generation
  BY ThreadEffect, ThreadRecords
<1>2. thread'[c][t].st # "failed" /\ co'[c].fenced = co[c].fenced
  BY ThreadGoesWell
<1>3. QED
  BY <1>1, <1>2 DEF WorksOn, EndsWell, Orderly, Fenced, Off, At

\* Attempts are never forgotten.
LEMMA AttemptsGrow ==
    ASSUME RunInv, RunInv', JournalStep
    PROVE  Len(attempts) <= Len(attempts')
<1>1. DOMAIN attempts \subseteq DOMAIN attempts'
  BY JournalGrows DEF RunInv
<1>2. DOMAIN attempts = 1 .. Len(attempts) /\ Len(attempts) \in Nat
  BY AttemptFields DEF RunInv, JournalInv
<1>3. DOMAIN attempts' = 1 .. Len(attempts)' /\ Len(attempts)' \in Nat
  <2>1. attempts' \in Seq(Attempt)
    BY DEF RunInv, JournalInv, JournalTypeOK
  <2>2. QED
    BY <2>1
<1>4. QED
  BY <1>1, <1>2, <1>3

LEMMA MoveEndsWell ==
    ASSUME RunInv, OwnerInv, PlanInv, WorkInv, PassInv, ReopenedOpen, Leased, EndInv,
           Len(attempts) < MaxAttempts, Events \cap {"crash", "write", "lease"} = {},
           NEW c \in Coordinators, Moves(c)
    PROVE  EndsWell(c)
<1>1. LeftIsEnded /\ (At(c, "reopened") => stopped)
  BY DEF EndInv
<1>2. CASE Create(c) \/ \E assume \in BOOLEAN : Reopen(c, assume)
  BY <1>1, <1>2, CreateEndsWell, ReopenEndsWell
<1>3. CASE ~Off(c)
  <2>1. Orderly(c)
    BY <1>3 DEF EndInv
  <2>2. NotRefused(c)
    BY <2>1, NothingRefused DEF Orderly, NeverRefused, NotRefused
  <2>3. ~Crash(c)
    BY DEF Crash
  <2>4. CASE MainStep(c) \/ \E t \in Tasks : ThreadStep(c, t)
    BY <2>1, <2>2, <2>4, MainEndsWell, ThreadEndsWell
  <2>5. CASE Decline(c) \/ StopBegins(c) \/ HandlerRuns(c)
    BY <1>1, <2>1, <2>5, DeclineEndsWell, SignalEndsWell DEF Decline
  <2>6. QED
    BY <1>2, <2>3, <2>4, <2>5 DEF Moves
<1>4. CASE Off(c)
  BY <1>2, <1>4, IdleThreads, OffIsIdle DEF Off, Moves
<1>5. QED
  BY <1>3, <1>4

\* A process that moves has the run to itself.
LEMMA AloneAtWork ==
    ASSUME OwnerInv, Leased, NEW c \in Coordinators, Moves(c)
    PROVE  \A d \in Coordinators : d # c => Off(d)
<1>1. CASE ~Off(c)
  BY <1>1, OthersAreOff
<1>2. CASE Create(c)
  BY <1>2 DEF Create, AcceptsRequested, OwnerInv, Places
<1>3. CASE \E assume \in BOOLEAN : Reopen(c, assume)
  BY <1>3 DEF Reopen, Leased, NoOne, Coordinators
<1>4. CASE Off(c) /\ ~Create(c) /\ ~\E assume \in BOOLEAN : Reopen(c, assume)
  BY <1>4, IdleThreads, OffIsIdle DEF Off, Moves
<1>5. QED
  BY <1>1, <1>2, <1>3, <1>4

LEMMA EndInit == Init => EndInv
  BY DEF Init, JournalInit, Unborn, EndInv, LeftIsEnded, Off, At

LEMMA EndNext ==
    ASSUME Events \cap {"crash", "write", "lease"} = {}
    PROVE  RunInv /\ OwnerInv /\ PlanInv /\ WorkInv /\ PassInv /\ ReopenedOpen /\ Leased
           /\ EndInv /\ [Next]_vars /\ RunInv' /\ [JournalNext]_journal => EndInv'
<1> SUFFICES ASSUME RunInv, OwnerInv, PlanInv, WorkInv, PassInv, ReopenedOpen, Leased, EndInv,
                    [Next]_vars, RunInv', JournalStep, Len(attempts') < MaxAttempts
             PROVE  EndInv'
  BY DEF EndInv, JournalStep
<1>1. Len(attempts) < MaxAttempts
  <2>1. Len(attempts) <= Len(attempts')
    BY AttemptsGrow
  <2>2. Len(attempts) \in Nat /\ Len(attempts)' \in Nat /\ MaxAttempts \in Nat
    BY BoundsAssumption DEF RunInv, JournalInv, JournalTypeOK
  <2>3. QED
    BY <2>1, <2>2
<1>2. ASSUME NEW c \in Coordinators, Moves(c) PROVE EndInv'
  <2>1. EndsWell(c)
    BY <1>1, <1>2, MoveEndsWell
  <2>2. OthersStand(c) /\ \A d \in Coordinators : d # c => Off(d)
    BY <1>2, OthersLeft, AloneAtWork DEF Moves
  <2>3. QED
    BY <2>1, <2>2, EndKept
<1>3. CASE UNCHANGED <<journal, co, thread>>
  BY <1>1, <1>3 DEF EndInv, Orderly, Fenced, LeftIsEnded, journal, Off, At
<1>4. ASSUME NEW c \in Coordinators PROVE ~LoseLease(c)
  BY DEF LoseLease
<1>5. QED
  BY <1>2, <1>3, <1>4 DEF Next, Environment, Moves, ProcExit, CloseLease, vars

\* LeftIsEnded: where nothing is killed, every file can be written and leases
\* hold, a run nobody is at work on was stopped or concluded, whatever stops
\* come and however often it is resumed (short of the model's bound on
\* attempts): no error is left to make a coordinator leave without a record.
THEOREM RunIsLeftEnded ==
    ASSUME Events \cap {"crash", "write", "lease"} = {}
    PROVE  Spec => [](Len(attempts) < MaxAttempts => LeftIsEnded)
<1>1. EndInv => (Len(attempts) < MaxAttempts => LeftIsEnded)
  BY DEF EndInv
<1>2. RunInv /\ OwnerInv /\ ProcessInv /\ [Next]_vars => ProcessInv'
  BY ProcessNext
<1>3. ProcessInv => Leased
  BY DEF ProcessInv
<1>4. RunInv /\ OwnerInv /\ PlanInv /\ WorkInv /\ PassInv /\ ReopenedOpen /\ Leased
      /\ EndInv /\ [Next]_vars /\ RunInv' /\ [JournalNext]_journal => EndInv'
  BY EndNext
<1>5. QED
  BY <1>1, <1>2, <1>3, <1>4, RunInit, RunNext, OwnerInit, OwnerNext, PlanInit, PlanNext,
     WorkInit, WorkNext, PassInit, PassNext, ProcessInit, ReopenedInit, ReopenedNext, EndInit,
     PTL DEF Spec

-----------------------------------------------------------------------------
(***************************************************************************)
(* What a pass rests on.  Outside a withdrawal every pass stands on        *)
(* passes, those of this process in the order they ended; a withdrawal     *)
(* takes a pass with everything that was decided after it, so also what    *)
(* rests on it, and is through before the stop is recorded.                *)
(***************************************************************************)
RestsNow ==
    \A t \in Tasks : decided[t].outcome \in Good =>
        \A d \in After[t] : decided[d].outcome \in Good

\* The passes that the withdrawal under way is still to take.
Later(c) ==
    {co[c].passes[i].task :
        i \in {j \in DOMAIN co[c].passes : ~StandsBeforeStop(c, co[c].passes[j])}}

Unwinding(c) ==
    \A t \in Tasks : decided[t].outcome \in Good =>
        \/ t \in Later(c)
        \/ \A d \in After[t] : decided[d].outcome \in Good /\ d \notin Later(c)

\* What rests on a pass of this process is a pass of this process too, and
\* no earlier one.
PassOrder(c) ==
    /\ \A i \in DOMAIN co[c].passes : co[c].passes[i].at <= now
    /\ \A i \in DOMAIN co[c].passes, t \in Tasks :
         decided[t].outcome \in Good /\ co[c].passes[i].task \in After[t] =>
            \E j \in DOMAIN co[c].passes :
                co[c].passes[j].task = t /\ co[c].passes[i].at <= co[c].passes[j].at

\* A thread's process has ended; when, it noted.
Noted(c, t) ==
    \/ thread[c][t].st = "exited"
    \/ thread[c][t].st = "judged" /\ thread[c][t].outcome = "passed"

\* A thread's task is not decided, and what it rests on has passed before.
ThreadRests(c, t) ==
    /\ thread[c][t].st # "none" =>
         ~DecidedHere(c, t) /\ \A d \in After[t] : co[c].decided[d] \in Good
    /\ Noted(c, t) =>
         /\ thread[c][t].at <= now
         /\ \A i \in DOMAIN co[c].passes :
              co[c].passes[i].task \in After[t] => co[c].passes[i].at <= thread[c][t].at

Rests(c) ==
    IF At(c, "withdrawing") THEN Unwinding(c)
    ELSE RestsNow /\ PassOrder(c) /\ \A t \in Tasks : ThreadRests(c, t)

RestInv ==
    Len(attempts) < MaxAttempts =>
        /\ \A c \in Coordinators : ~Off(c) => Rests(c)
        /\ (\A c \in Coordinators : Off(c)) => RestsNow

\* What a step of coordinator c has to show.
RestsWell(c) == IF Off(c)' THEN RestsNow' ELSE Rests(c)'

LEMMA RestKept ==
    ASSUME NEW c \in Coordinators, OthersStand(c), RestsWell(c),
           \A d \in Coordinators : d # c => Off(d)
    PROVE  RestInv'
<1>1. \A d \in Coordinators : d # c => Off(d)'
  BY DEF OthersStand, Off
<1>2. QED
  BY <1>1 DEF RestInv, RestsWell

LEMMA FreshRests ==
    ASSUME NEW c \in Coordinators, RestsNow, UNCHANGED decided, co'[c].pc # "withdrawing",
           co'[c].passes = << >>, \A t \in Tasks : thread'[c][t].st = "none"
    PROVE  Rests(c)'
<1>1. RestsNow'
  BY DEF RestsNow
<1>2. QED
  BY <1>1 DEF Rests, PassOrder, ThreadRests, Noted, At

LEMMA QuietRests ==
    ASSUME NEW c \in Coordinators, Rests(c), ~At(c, "withdrawing"), co'[c].pc # "withdrawing",
           UNCHANGED <<decided, now>>, co'[c].passes = co[c].passes,
           \A t \in Tasks :
              \/ thread'[c][t].st = "none"
              \/ thread'[c][t] = thread[c][t] /\ co'[c].decided = co[c].decided
    PROVE  Rests(c)'
<1>1. RestsNow' /\ PassOrder(c)'
  BY DEF Rests, RestsNow, PassOrder
<1>2. ASSUME NEW t \in Tasks PROVE ThreadRests(c, t)'
  BY DEF Rests, ThreadRests, Noted, DecidedHere
<1>3. QED
  BY <1>1, <1>2 DEF Rests, At

\* What the steps that record no decision leave of a coordinator's passes.
LEMMA QuietKeeps ==
    ASSUME RunInv, NEW c \in Coordinators, ~Gone(c),
           Detach(c) \/ Received(c) \/ TakeOver(c) \/ (\E a \in AttemptIds : RecordLost(c, a))
           \/ TakenOver(c) \/ StartLevel(c) \/ StartThreads(c) \/ WaitOutWindow(c)
    PROVE  /\ KeepsPasses(c) /\ KeepsStop(c)
           /\ UNCHANGED <<decided, thread, world>>
           /\ co[c].pc # "withdrawing" /\ co'[c].pc # "withdrawing"
<1>1. CoOK /\ co[c] \in CoState
  BY TypeParts DEF RunInv, CoOK
<1>2. ASSUME NEW pc \in {"received", "level", "threads", "window", "withdraw", "conclude"},
             Moved(c, pc), UNCHANGED <<journal, thread, world>>, ~At(c, "withdrawing")
      PROVE  /\ KeepsPasses(c) /\ KeepsStop(c)
             /\ UNCHANGED <<decided, thread, world>>
             /\ co[c].pc # "withdrawing" /\ co'[c].pc # "withdrawing"
  BY <1>1, <1>2, MovedFields DEF journal, At
<1>3. CASE Detach(c) \/ Received(c) \/ StartThreads(c) \/ WaitOutWindow(c)
  BY <1>2, <1>3 DEF Detach, Received, StartThreads, WaitOutWindow, NotStarted, At
<1>4. CASE TakeOver(c)
  <2> DEFINE g == co[c].generation + 1
  <2> DEFINE r == [co[c] EXCEPT !.generation = g, !.pc = "losing"]
  <2>1. co' = [co EXCEPT ![c] = r]
    BY <1>1, <1>4 DEF TakeOver, CoOK, CoState
  <2>2. r.pc = "losing" /\ r.passes = co[c].passes /\ r.first = co[c].first
        /\ r.stop = co[c].stop /\ r.began = co[c].began
    BY <1>1 DEF CoState
  <2> HIDE DEF r
  <2>3. co'[c] = r
    BY <1>1, <2>1, CoSet
  <2>4. UNCHANGED <<decided, thread, world>>
    BY <1>4 DEF TakeOver, Recorded, Resumed
  <2>5. QED
    BY <1>4, <2>2, <2>3, <2>4 DEF TakeOver, At, KeepsPasses, KeepsStop
<1>5. CASE \E a \in AttemptIds : RecordLost(c, a)
  BY <1>5 DEF RecordLost, Recorded, Lost, KeepsPasses, KeepsStop, At
<1>6. CASE TakenOver(c)
  <2> DEFINE v == [t \in Tasks |-> decided[t].outcome]
  <2> DEFINE r == [co[c] EXCEPT !.pc = "level", !.assumed = {}, !.decided = v]
  <2>1. co' = [co EXCEPT ![c] = r]
    BY <1>1, <1>6 DEF TakenOver, CoOK, CoState
  <2> HIDE DEF v
  <2>2. r.pc = "level" /\ r.passes = co[c].passes /\ r.first = co[c].first
        /\ r.stop = co[c].stop /\ r.began = co[c].began
    BY <1>1 DEF CoState
  <2> HIDE DEF r
  <2>3. co'[c] = r
    BY <1>1, <2>1, CoSet
  <2>4. QED
    BY <1>6, <2>2, <2>3 DEF TakenOver, journal, At, KeepsPasses, KeepsStop
<1>7. CASE StartLevel(c)
  <2>1. CASE co' = [co EXCEPT ![c].level = @ + 1, ![c].pos = 1, ![c].pc = "consider"]
    <3> DEFINE r == [co[c] EXCEPT !.level = @ + 1, !.pos = 1, !.pc = "consider"]
    <3>1. co' = [co EXCEPT ![c] = r]
      BY <1>1, <2>1 DEF CoOK, CoState
    <3>2. r.pc = "consider" /\ r.passes = co[c].passes /\ r.first = co[c].first
          /\ r.stop = co[c].stop /\ r.began = co[c].began
      BY <1>1 DEF CoState
    <3> HIDE DEF r
    <3>3. co'[c] = r
      BY <1>1, <3>1, CoSet
    <3>4. QED
      BY <1>7, <3>2, <3>3 DEF StartLevel, journal, At, KeepsPasses, KeepsStop
  <2>2. QED
    BY <1>2, <1>7, <2>1 DEF StartLevel, At
<1>8. QED
  BY <1>3, <1>4, <1>5, <1>6, <1>7

\* A process that leaves, and may, decides nothing by it.
LEMMA LeaveDecides ==
    ASSUME RunInv, NEW c \in Coordinators, Orderly(c), NotRefused(c), "write" \notin Events,
           Gone(c), MainStep(c) \/ Decline(c)
    PROVE  UNCHANGED decided /\ ~WithdrawNext(c) /\ ~Consider(c)
<1>1. Off(c)' /\ CoOK
  BY TypeParts, GoneFields DEF RunInv, Off
<1>2. co'[c].pc # co[c].pc
  BY <1>1, GoneFields
     DEF MainStep, Detach, Received, TakeOver, RecordLost, TakenOver, StartLevel, Consider,
     StartThreads, Join, WaitOutWindow, BeginWithdraw, WithdrawNext, RecordStop,
     RecordConclusion, Decline, At
<1>3. ~WithdrawNext(c)
  <2> SUFFICES ASSUME WithdrawNext(c) PROVE FALSE
    OBVIOUS
  <2>1. co' = [co EXCEPT ![c].passes = Tail(@)]
    BY DEF WithdrawNext, NotRefused, NotRecorded, Orderly
  <2>2. QED
    BY <1>1, <1>2, <2>1, WithdrawNextFields
<1>4. ~Consider(c)
  <2> SUFFICES ASSUME Consider(c) PROVE FALSE
    OBVIOUS
  <2>1. Walks(c)
    BY ConsiderWalks
  <2>2. QED
    BY <1>1, <2>1 DEF Walks
<1>5. UNCHANGED decided
  <2>1. CASE Detach(c) \/ Received(c) \/ RecordStop(c) \/ RecordConclusion(c) \/ Decline(c)
             \/ TakeOver(c) \/ \E a \in AttemptIds : RecordLost(c, a)
    BY <2>1 DEF Detach, Received, NotStarted, RecordStop, RecordConclusion, Decline, Recorded,
       NotRecorded, Stopped, Concluded, TakeOver, Resumed, RecordLost, Lost, journal
  <2>2. CASE TakenOver(c) \/ StartLevel(c) \/ StartThreads(c) \/ Join(c) \/ WaitOutWindow(c)
             \/ BeginWithdraw(c)
    BY <2>2 DEF TakenOver, StartLevel, StartThreads, Join, WaitOutWindow, BeginWithdraw, journal
  <2>3. QED
    BY <1>3, <1>4, <2>1, <2>2 DEF MainStep
<1>6. QED
  BY <1>3, <1>4, <1>5

\* And it has withdrawn what it had to.
LEMMA LeaveRests ==
    ASSUME RunInv, NEW c \in Coordinators, Orderly(c), NotRefused(c), "write" \notin Events,
           Rests(c), Gone(c), MainStep(c) \/ Decline(c)
    PROVE  RestsWell(c)
<1>1. Off(c)'
  BY TypeParts, GoneFields DEF RunInv, Off
<1>2. UNCHANGED decided /\ ~WithdrawNext(c)
  BY LeaveDecides
<1>3. RestsNow
  <2>1. CASE At(c, "withdrawing")
    <3>1. RecordStop(c)
      BY <1>2, <2>1 DEF MainStep, Detach, Received, TakeOver, RecordLost, TakenOver, StartLevel,
         Consider, StartThreads, Join, WaitOutWindow, BeginWithdraw, RecordStop,
         RecordConclusion, Decline, At
    <3>2. Later(c) = {}
      BY <3>1 DEF RecordStop, Later
    <3>3. QED
      BY <2>1, <3>2 DEF Rests, Unwinding, RestsNow
  <2>2. QED
    BY <2>1 DEF Rests
<1>4. QED
  BY <1>1, <1>2, <1>3 DEF RestsWell, RestsNow

LEMMA QuietRestsWell ==
    ASSUME RunInv, OwnerInv, NEW c \in Coordinators, Rests(c), ~Gone(c), ~Off(c)',
           Detach(c) \/ Received(c) \/ TakeOver(c) \/ (\E a \in AttemptIds : RecordLost(c, a))
           \/ TakenOver(c) \/ StartLevel(c) \/ StartThreads(c) \/ WaitOutWindow(c)
    PROVE  RestsWell(c)
<1>1. /\ co'[c].passes = co[c].passes
      /\ UNCHANGED <<decided, thread, now>>
      /\ co[c].pc # "withdrawing" /\ co'[c].pc # "withdrawing"
  BY QuietKeeps DEF KeepsPasses, world
<1>2. CASE StartLevel(c) \/ StartThreads(c)
  <2>1. co'[c].decided = co[c].decided
    <3>1. CoOK /\ co[c] \in CoState
      BY TypeParts DEF RunInv, CoOK
    <3>2. ASSUME NEW pc, Moved(c, pc) PROVE co'[c].decided = co[c].decided
      BY <3>1, <3>2, MovedFields DEF KeepsPlan
    <3>3. CASE co' = [co EXCEPT ![c].level = @ + 1, ![c].pos = 1, ![c].pc = "consider"]
      <4> DEFINE r == [co[c] EXCEPT !.level = @ + 1, !.pos = 1, !.pc = "consider"]
      <4>1. co' = [co EXCEPT ![c] = r]
        BY <3>1, <3>3 DEF CoOK, CoState
      <4>2. r.decided = co[c].decided
        BY <3>1 DEF CoState
      <4> HIDE DEF r
      <4>3. QED
        BY <3>1, <4>1, <4>2, CoSet
    <3>4. QED
      BY <1>2, <3>2, <3>3 DEF StartLevel, StartThreads
  <2>2. QED
    BY <1>1, <2>1, QuietRests DEF RestsWell, At
<1>3. CASE ~(StartLevel(c) \/ StartThreads(c))
  <2>1. co[c].pc \notin {"consider", "threads"}
    BY <1>3 DEF Detach, Received, TakeOver, RecordLost, TakenOver, WaitOutWindow, At
  <2>2. \A t \in Tasks : thread'[c][t].st = "none"
    BY <1>1, <2>1, IdleThreads
  <2>3. QED
    BY <1>1, <2>2, QuietRests DEF RestsWell, At
<1>4. QED
  BY <1>2, <1>3

LEMMA JoinRests ==
    ASSUME RunInv, NEW c \in Coordinators, Rests(c), Join(c), ~Gone(c)
    PROVE  RestsWell(c)
<1>1. CoOK /\ At(c, "threads") /\ UNCHANGED <<decided, now>>
  BY TypeParts DEF RunInv, Join, journal, world
<1>2. /\ co'[c].pc = "level" /\ co'[c].passes = co[c].passes
      /\ \A t \in Tasks : thread'[c][t].st = "none"
  BY <1>1, JoinedFields DEF KeepsPasses
<1>3. QED
  BY <1>1, <1>2, QuietRests DEF RestsWell, Off, At

\* A task that was undecided is decided: nothing rested on it yet.
LEMMA DecidedRests ==
    ASSUME RunInv, NEW c \in Coordinators, RestsNow, PassOrder(c),
           NEW t \in Tasks, ~IsDecided(t), NEW r,
           decided' = [decided EXCEPT ![t] = r], UNCHANGED now,
           \/ r.outcome \notin Good /\ co'[c].passes = co[c].passes
           \/ /\ \A d \in After[t] : decided[d].outcome \in Good
              /\ \E p \in Pass :
                   /\ co'[c].passes = Append(co[c].passes, p)
                   /\ p.task = t /\ p.at <= now
                   /\ \A i \in DOMAIN co[c].passes :
                        co[c].passes[i].task \in After[t] => co[c].passes[i].at <= p.at
    PROVE  RestsNow' /\ PassOrder(c)'
<1>1. decided \in [Tasks -> Decision] /\ After \in [Tasks -> SUBSET Tasks]
      /\ co[c].passes \in Seq(Pass)
  BY TypeParts, GraphAssumption DEF RunInv, JournalInv, JournalTypeOK, CoOK, CoState
<1>2. decided'[t] = r /\ \A u \in Tasks : u # t => decided'[u] = decided[u]
  BY <1>1
<1>3. ASSUME NEW u \in Tasks, u # t, decided'[u].outcome \in Good
      PROVE  decided[u].outcome \in Good /\ t \notin After[u]
  BY <1>2, <1>3 DEF RestsNow, IsDecided, Good
<1>4. RestsNow'
  <2> SUFFICES ASSUME NEW u \in Tasks, decided'[u].outcome \in Good, NEW d \in After[u]
               PROVE  decided'[d].outcome \in Good
    BY DEF RestsNow
  <2>1. d \in Tasks
    BY <1>1
  <2>2. CASE u # t
    BY <1>2, <1>3, <2>1, <2>2 DEF RestsNow
  <2>3. CASE u = t
    BY <1>2, <2>1, <2>3 DEF IsDecided, Good
  <2>4. QED
    BY <2>2, <2>3
<1>5. CASE r.outcome \notin Good /\ co'[c].passes = co[c].passes
  <2>1. PassOrder(c)'
    BY <1>2, <1>3, <1>5 DEF PassOrder
  <2>2. QED
    BY <1>4, <2>1
<1>6. CASE \E p \in Pass :
             /\ co'[c].passes = Append(co[c].passes, p)
             /\ p.task = t /\ p.at <= now
             /\ \A i \in DOMAIN co[c].passes :
                  co[c].passes[i].task \in After[t] => co[c].passes[i].at <= p.at
  <2>1. PICK p \in Pass :
             /\ co'[c].passes = Append(co[c].passes, p)
             /\ p.task = t /\ p.at <= now
             /\ \A i \in DOMAIN co[c].passes :
                  co[c].passes[i].task \in After[t] => co[c].passes[i].at <= p.at
    BY <1>6
  <2> DEFINE n == Len(co[c].passes)
  <2>2. /\ n \in Nat
        /\ DOMAIN co[c].passes = 1 .. n
        /\ DOMAIN co'[c].passes = 1 .. n + 1
        /\ co'[c].passes[n + 1] = p
        /\ \A i \in 1 .. n : co'[c].passes[i] = co[c].passes[i]
    BY <1>1, <2>1
  <2> HIDE DEF n
  <2>3. ASSUME NEW i \in DOMAIN co'[c].passes PROVE co'[c].passes[i].at <= now'
    BY <2>1, <2>2, <2>3 DEF PassOrder
  <2>4. ASSUME NEW i \in DOMAIN co'[c].passes, NEW u \in Tasks,
               decided'[u].outcome \in Good, co'[c].passes[i].task \in After[u]
        PROVE  \E j \in DOMAIN co'[c].passes :
                  co'[c].passes[j].task = u /\ co'[c].passes[i].at <= co'[c].passes[j].at
    <3>1. p.at \in Nat /\ n + 1 \in DOMAIN co'[c].passes
      BY <2>2 DEF Pass
    <3>2. CASE u # t
      <4>1. i \in 1 .. n
        BY <1>3, <2>1, <2>2, <2>4, <3>2
      <4>2. PICK j \in DOMAIN co[c].passes :
                co[c].passes[j].task = u /\ co[c].passes[i].at <= co[c].passes[j].at
        BY <1>3, <2>2, <2>4, <3>2, <4>1 DEF PassOrder
      <4>3. j \in 1 .. n /\ j \in DOMAIN co'[c].passes
        BY <2>2
      <4>4. co'[c].passes[i] = co[c].passes[i] /\ co'[c].passes[j] = co[c].passes[j]
        BY <2>2, <4>1, <4>3
      <4>5. QED
        BY <4>2, <4>3, <4>4
    <3>3. CASE u = t
      <4>1. i = n + 1 \/ i \in 1 .. n
        BY <2>2, <2>4
      <4>2. ASSUME i \in 1 .. n PROVE co'[c].passes[i].at <= p.at
        <5>1. co'[c].passes[i] = co[c].passes[i] /\ i \in DOMAIN co[c].passes
          BY <2>2, <4>2
        <5>2. co[c].passes[i].task \in After[t]
          BY <2>4, <3>3, <5>1
        <5>3. QED
          BY <2>1, <5>1, <5>2
      <4>3. ASSUME i = n + 1 PROVE co'[c].passes[i].at <= p.at
        <5>1. co'[c].passes[i] = p
          BY <2>2, <4>3
        <5>2. QED
          BY <3>1, <5>1
      <4>4. co'[c].passes[i].at <= co'[c].passes[n + 1].at
        <5>1. co'[c].passes[i].at <= p.at
          BY <4>1, <4>2, <4>3
        <5>2. co'[c].passes[n + 1] = p
          BY <2>2
        <5>3. QED
          BY <5>1, <5>2
      <4>5. co'[c].passes[n + 1].task = u
        BY <2>1, <2>2, <3>3
      <4>6. QED
        BY <3>1, <4>4, <4>5
    <3>4. QED
      BY <3>2, <3>3
  <2>5. \A i \in DOMAIN co'[c].passes : co'[c].passes[i].at <= now'
    BY <2>3
  <2>6. \A i \in DOMAIN co'[c].passes, u \in Tasks :
          decided'[u].outcome \in Good /\ co'[c].passes[i].task \in After[u] =>
            \E j \in DOMAIN co'[c].passes :
                co'[c].passes[j].task = u /\ co'[c].passes[i].at <= co'[c].passes[j].at
    BY <2>4
  <2>7. PassOrder(c)'
    BY <2>5, <2>6 DEF PassOrder
  <2>8. QED
    BY <1>4, <2>7
<1>7. QED
  BY <1>5, <1>6

\* What a coordinator takes as passed has passed, and has no thread.
LEMMA GoodHere ==
    ASSUME NEW c \in Coordinators, Work(c), Rests(c), co[c].pc \in {"consider", "threads"},
           NEW d \in Tasks, co[c].decided[d] \in Good
    PROVE  thread[c][d].st = "none" /\ decided[d].outcome \in Good
<1>1. ThreadRests(c, d) /\ Agrees(c, d)
  BY DEF Rests, Work, At
<1>2. QED
  BY <1>1 DEF ThreadRests, Agrees, DecidedHere, Good

\* The threads of a level while one task more is decided.
LEMMA ThreadsRestOn ==
    ASSUME NEW c \in Coordinators, NEW t \in Tasks, \A u \in Tasks : ThreadRests(c, u),
           thread[c][t].st = "none", UNCHANGED now,
           thread'[c] = thread[c],
           \A u \in Tasks : u # t => co'[c].decided[u] = co[c].decided[u],
           ~DecidedHere(c, t),
           \A i \in DOMAIN co'[c].passes :
              \/ co'[c].passes[i].task = t
              \/ i \in DOMAIN co[c].passes /\ co'[c].passes[i] = co[c].passes[i]
    PROVE  \A u \in Tasks : ThreadRests(c, u)'
<1> SUFFICES ASSUME NEW u \in Tasks PROVE ThreadRests(c, u)'
  OBVIOUS
<1>1. ThreadRests(c, u) /\ After[u] \subseteq Tasks
  BY GraphAssumption
<1>2. CASE u = t
  BY <1>2 DEF ThreadRests, Noted
<1>3. CASE u # t
  <2>1. thread[c][u].st # "none" => t \notin After[u]
    BY <1>1 DEF ThreadRests, DecidedHere, Good
  <2>2. QED
    BY <1>1, <1>3, <2>1 DEF ThreadRests, Noted, DecidedHere
<1>4. QED
  BY <1>2, <1>3

LEMMA ConsiderRests ==
    ASSUME RunInv, OwnerInv, PlanInv, NEW c \in Coordinators, Work(c), Orderly(c), NotRefused(c),
           "write" \notin Events, Rests(c), Consider(c)
    PROVE  RestsWell(c)
<1>1. CoOK /\ At(c, "consider") /\ Considered(c) \in Tasks /\ co[c] \in CoState
  BY TypeParts, ConsideredIsTask DEF RunInv, Consider, CoOK
<1>2. PICK t \in Tasks : t = Considered(c)
  BY <1>1
<1>3. thread[c][t].st = "none" /\ UNCHANGED now
  BY <1>1, <1>2, ConsideredIsFree DEF PlanInv, Consider, world
<1>4. RestsNow /\ PassOrder(c) /\ \A u \in Tasks : ThreadRests(c, u)
  BY <1>1 DEF Rests, At
<1>5. ~DecidedHere(c, t) => AcceptsReused(t, co[c].generation)
  BY <1>1 DEF NotRefused
<1>6. ~DecidedHere(c, t) =>
          /\ ~NotRecorded(c, AcceptsReused(t, co[c].generation), Reused(t, co[c].generation))
          /\ \A o \in {"blocked", "errored"} :
               ~NotRecorded(c, AcceptsSettled(t, co[c].generation, o),
                            Settled(t, co[c].generation, o))
  BY <1>5 DEF NotRecorded, Orderly, AcceptsReused, AcceptsSettled
<1>7. ~DecidedHere(c, t) => ~IsDecided(t)
  BY <1>5 DEF AcceptsReused, UndecidedTask
<1>8. CASE co' = [co EXCEPT ![c].pos = @ + 1] /\ UNCHANGED <<journal, thread>>
  <2>1. /\ co'[c].pc = co[c].pc /\ co'[c].decided = co[c].decided
        /\ co'[c].passes = co[c].passes
    BY <1>1, <1>8, PassesOverFields DEF KeepsPasses
  <2>2. QED
    BY <1>1, <1>3, <1>8, <2>1, QuietRests DEF RestsWell, Off, At, journal
<1>9. ASSUME NEW o \in {"blocked", "errored"}, ~DecidedHere(c, t),
             Decides(c, t, o), Settled(t, co[c].generation, o), UNCHANGED thread
      PROVE  RestsWell(c)
  <2> DEFINE r == [outcome |-> o, attempt |-> 0, generation |-> co[c].generation]
  <2>1. decided' = [decided EXCEPT ![t] = r] /\ r.outcome = o
    BY <1>9 DEF Settled
  <2> HIDE DEF r
  <2>2. /\ co'[c].pc = co[c].pc /\ co'[c].passes = co[c].passes
        /\ co'[c].decided = [co[c].decided EXCEPT ![t] = o]
    BY <1>1, <1>9, DecidesFields DEF KeepsPasses
  <2>3. RestsNow' /\ PassOrder(c)'
    <3>1. r.outcome \notin Good
      BY <2>1 DEF Good
    <3>2. QED
      BY <1>3, <1>4, <1>7, <1>9, <2>1, <2>2, <3>1, DecidedRests
  <2>4. \A u \in Tasks : u # t => co'[c].decided[u] = co[c].decided[u]
    BY <1>1, <2>2 DEF CoState
  <2>5. \A u \in Tasks : ThreadRests(c, u)'
    BY <1>3, <1>4, <1>9, <2>2, <2>4, ThreadsRestOn
  <2>6. QED
    BY <1>1, <2>2, <2>3, <2>5 DEF RestsWell, Rests, Off, At
<1>10. ASSUME ~DecidedHere(c, t), ~DependencyFailed(c, t), Reused(t, co[c].generation),
              co' = [co EXCEPT ![c].decided[t] = "cached", ![c].pos = @ + 1,
                           ![c].passes = Append(@, [task |-> t, attempt |-> 0, at |-> now])],
              UNCHANGED thread
       PROVE  RestsWell(c)
  <2> DEFINE r == [outcome |-> "cached", attempt |-> 0, generation |-> co[c].generation]
  <2> DEFINE p == [task |-> t, attempt |-> 0, at |-> now]
  <2>1. decided' = [decided EXCEPT ![t] = r]
    BY <1>10 DEF Reused
  <2>2. /\ co'[c].pc = co[c].pc /\ co'[c].passes = Append(co[c].passes, p)
        /\ co'[c].decided = [co[c].decided EXCEPT ![t] = "cached"]
    BY <1>1, <1>10, ReuseFields
  <2>3. p \in Pass /\ p.task = t /\ p.at = now /\ now \in Nat
    BY TypeParts DEF RunInv, Pass, DurableTypeOK
  <2> HIDE DEF r, p
  <2>4. ASSUME NEW d \in After[t] PROVE decided[d].outcome \in Good
    <3>1. d \in Tasks
      BY GraphAssumption
    <3>2. co[c].decided[d] \in Good
      BY <1>10 DEF DependencyFailed, Good
    <3>3. QED
      BY <1>1, <3>1, <3>2, GoodHere DEF At
  <2>5. RestsNow' /\ PassOrder(c)'
    <3>1. /\ p.at <= now
          /\ \A i \in DOMAIN co[c].passes : co[c].passes[i].at <= p.at
      BY <1>4, <2>3 DEF PassOrder
    <3>2. QED
      BY <1>3, <1>4, <1>7, <1>10, <2>1, <2>2, <2>3, <2>4, <3>1, DecidedRests
  <2>6. \A u \in Tasks : u # t => co'[c].decided[u] = co[c].decided[u]
    BY <1>1, <2>2 DEF CoState
  <2>7. co[c].passes \in Seq(Pass)
    BY <1>1 DEF CoState
  <2>8. \A i \in DOMAIN co'[c].passes :
            \/ co'[c].passes[i].task = t
            \/ i \in DOMAIN co[c].passes /\ co'[c].passes[i] = co[c].passes[i]
    BY <2>2, <2>3, <2>7
  <2>9. \A u \in Tasks : ThreadRests(c, u)'
    BY <1>3, <1>4, <1>10, <2>6, <2>8, ThreadsRestOn
  <2>10. QED
    BY <1>1, <2>2, <2>5, <2>9 DEF RestsWell, Rests, Off, At
<1>11. ASSUME ~DecidedHere(c, t), ~DependencyFailed(c, t),
              thread' = [thread EXCEPT ![c][t].st = "ready"],
              co' = [co EXCEPT ![c].pos = @ + 1], UNCHANGED journal
       PROVE  RestsWell(c)
  <2>1. /\ co'[c].pc = co[c].pc /\ co'[c].decided = co[c].decided
        /\ co'[c].passes = co[c].passes
    BY <1>1, <1>11, PassesOverFields DEF KeepsPasses
  <2>2. thread'[c][t].st = "ready" /\ \A u \in Tasks : u # t => thread'[c][u] = thread[c][u]
    BY <1>1, <1>11, ReadyFields
  <2>3. ThreadRests(c, t)'
    BY <1>11, <2>1, <2>2 DEF ThreadRests, Noted, DecidedHere, DependencyFailed, Good
  <2>4. \A u \in Tasks : u # t => ThreadRests(c, u)'
    BY <1>3, <1>4, <2>1, <2>2 DEF ThreadRests, Noted, DecidedHere
  <2>5. RestsNow' /\ PassOrder(c)'
    BY <1>3, <1>4, <1>11, <2>1 DEF RestsNow, PassOrder, journal
  <2>6. QED
    BY <1>1, <2>1, <2>3, <2>4, <2>5 DEF RestsWell, Rests, Off, At
<1>12. QED
  <2>1. CASE DecidedHere(c, t)
    BY <1>2, <1>8, <2>1 DEF Consider, Considered
  <2>2. CASE ~DecidedHere(c, t) /\ DependencyFailed(c, t)
    BY <1>2, <1>6, <1>9, <2>2 DEF Consider, Considered, SettleAs, Recorded
  <2>3. CASE ~DecidedHere(c, t) /\ ~DependencyFailed(c, t)
    BY <1>2, <1>6, <1>9, <1>10, <1>11, <2>3 DEF Consider, Considered, SettleAs, Reuse, Recorded
  <2>4. QED
    BY <2>1, <2>2, <2>3

LEMMA PassFields ==
    ASSUME CoOK, NEW c \in Coordinators, NEW i \in DOMAIN co[c].passes
    PROVE  /\ co[c].passes[i].task \in Tasks
           /\ co[c].passes[i].attempt \in Nat
           /\ co[c].passes[i].at \in Nat
<1>1. co[c].passes \in Seq(Pass)
  BY DEF CoOK, CoState
<1>2. co[c].passes[i] \in Pass
  BY <1>1
<1>3. QED
  BY <1>2 DEF Pass

\* Where the withdrawal begins, and when there is nothing to withdraw.
LEMMA BeginWithdrawFirst ==
    ASSUME RunInv, NEW c \in Coordinators, BeginWithdraw(c)
    PROVE  /\ co'[c].first \in Nat
           /\ \/ co'[c].passes = << >>
              \/ co'[c].passes = co[c].passes /\
                 \E cutoff \in 1 .. co[c].began + 1 :
                    /\ co'[c].first \in LateEnds(c, cutoff)
                    /\ \A at \in LateEnds(c, cutoff) : co'[c].first <= at
           /\ co'[c].passes = << >> =>
                \/ co[c].stop # "stamped"
                \/ \E cutoff \in 1 .. co[c].began + 1 : LateEnds(c, cutoff) = {}
                \/ co[c].passes = << >>
<1>1. CoOK /\ co[c] \in CoState
  BY TypeParts DEF RunInv, CoOK
<1>2. CASE co' = [co EXCEPT ![c].pc = "withdrawing", ![c].passes = << >>]
           /\ (co[c].stop # "stamped" \/ \E cutoff \in 1 .. co[c].began + 1 : LateEnds(c, cutoff) = {})
  <2> DEFINE r == [co[c] EXCEPT !.pc = "withdrawing", !.passes = << >>]
  <2>1. co' = [co EXCEPT ![c] = r]
    BY <1>1, <1>2 DEF CoOK, CoState
  <2>2. r.passes = << >> /\ r.first \in Nat
    BY <1>1 DEF CoState
  <2> HIDE DEF r
  <2>3. co'[c] = r
    BY <1>1, <2>1, CoSet
  <2>4. QED
    BY <1>2, <2>2, <2>3
<1>3. ASSUME NEW cutoff \in 1 .. co[c].began + 1, NEW first \in LateEnds(c, cutoff),
             \A at \in LateEnds(c, cutoff) : first <= at,
             co' = [co EXCEPT ![c].pc = "withdrawing", ![c].first = first]
      PROVE  /\ co'[c].first = first /\ first \in Nat
             /\ co'[c].passes = co[c].passes
  <2> DEFINE r == [co[c] EXCEPT !.pc = "withdrawing", !.first = first]
  <2>1. co' = [co EXCEPT ![c] = r]
    BY <1>1, <1>3 DEF CoOK, CoState
  <2>2. r.passes = co[c].passes /\ r.first = first
    BY <1>1 DEF CoState
  <2>3. first \in Nat
    BY <1>1, PassFields DEF LateEnds, AttemptPasses
  <2> HIDE DEF r
  <2>4. co'[c] = r
    BY <1>1, <2>1, CoSet
  <2>5. QED
    BY <2>2, <2>3, <2>4
<1>4. QED
  BY <1>2, <1>3 DEF BeginWithdraw

\* Whatever is withdrawn, what rests on it is: it is a pass no earlier.
LEMMA BeginWithdrawRests ==
    ASSUME RunInv, NEW c \in Coordinators, Work(c), Rests(c), BeginWithdraw(c)
    PROVE  RestsWell(c)
<1>1. CoOK /\ co[c] \in CoState /\ At(c, "withdraw") /\ UNCHANGED <<decided, now>>
  BY TypeParts DEF RunInv, CoOK, BeginWithdraw, journal, world
<1>2. co'[c].pc = "withdrawing"
  BY <1>1, BeginWithdrawFields
<1>3. RestsNow /\ PassOrder(c)
  BY <1>1 DEF Rests, At
<1>4. CASE co'[c].passes = << >>
  <2>1. Later(c)' = {}
    BY <1>4 DEF Later
  <2>2. QED
    BY <1>1, <1>2, <1>3, <2>1 DEF RestsWell, Rests, Unwinding, RestsNow, Off, At
<1>5. CASE co'[c].passes = co[c].passes
  <2> SUFFICES ASSUME NEW t \in Tasks, decided[t].outcome \in Good, t \notin Later(c)',
                      NEW d \in After[t], d \in Later(c)'
               PROVE  FALSE
    BY <1>1, <1>2, <1>3 DEF RestsWell, Rests, Unwinding, RestsNow, Off, At
  <2>1. PICK i \in DOMAIN co[c].passes :
            co[c].passes[i].task = d /\ ~(co[c].passes[i].at < co'[c].first)
    BY <1>5 DEF Later, StandsBeforeStop
  <2>2. PICK j \in DOMAIN co[c].passes :
            co[c].passes[j].task = t /\ co[c].passes[i].at <= co[c].passes[j].at
    BY <1>3, <2>1 DEF PassOrder
  <2>3. co[c].passes[i].at \in Nat /\ co[c].passes[j].at \in Nat
    BY <1>1, PassFields
  <2>4. co'[c].first \in Nat
    BY <1>1, BeginWithdrawFirst
  <2>5. ~(co[c].passes[j].at < co'[c].first)
    BY <2>1, <2>2, <2>3, <2>4
  <2>6. QED
    BY <1>5, <2>2, <2>5 DEF Later, StandsBeforeStop
<1>6. QED
  BY <1>1, <1>4, <1>5, BeginWithdrawFields

\* A pass that is passed over stands; one that is taken goes, and nothing but
\* what is still to be taken rests on it.
LEMMA WithdrawNextRests ==
    ASSUME RunInv, NEW c \in Coordinators, Orderly(c), NotRefused(c), "write" \notin Events,
           Rests(c), WithdrawNext(c)
    PROVE  RestsWell(c)
<1> DEFINE q == co[c].passes
<1> DEFINE p == Head(q)
<1>1. CoOK /\ At(c, "withdrawing") /\ q # << >> /\ q \in Seq(Pass)
      /\ decided \in [Tasks -> Decision]
  BY TypeParts DEF RunInv, CoOK, CoState, WithdrawNext, JournalInv, JournalTypeOK
<1>2. co' = [co EXCEPT ![c].passes = Tail(@)]
  BY DEF WithdrawNext, NotRefused, NotRecorded, Orderly
<1>3. co'[c].passes = Tail(q) /\ co'[c].first = co[c].first /\ co'[c].pc = "withdrawing"
  BY <1>1, <1>2, WithdrawNextFields DEF At
<1>4. p = q[1] /\ 1 \in DOMAIN q /\ p \in Pass
  BY <1>1
<1>5. DOMAIN Tail(q) = 1 .. Len(q) - 1 /\ DOMAIN q = 1 .. Len(q) /\ Len(q) \in Nat
      /\ \A i \in 1 .. Len(q) - 1 : Tail(q)[i] = q[i + 1]
  BY <1>1
<1>6. ASSUME NEW t \in Later(c), t # p.task \/ StandsBeforeStop(c, p) PROVE t \in Later(c)'
  <2>1. PICK i \in DOMAIN q : q[i].task = t /\ ~StandsBeforeStop(c, q[i])
    BY DEF Later
  <2>2. i # 1
    BY <1>4, <1>6, <2>1
  <2>3. PICK j \in 1 .. Len(q) - 1 : i = j + 1
    <3>1. i \in 1 .. Len(q) /\ Len(q) \in Nat
      BY <1>5
    <3>2. i - 1 \in 1 .. Len(q) - 1 /\ i = (i - 1) + 1
      BY <2>2, <3>1
    <3>3. QED
      BY <3>2
  <2>4. j \in DOMAIN co'[c].passes /\ co'[c].passes[j] = q[i]
    BY <1>3, <1>5, <2>3
  <2>5. QED
    BY <1>3, <2>1, <2>4 DEF Later, StandsBeforeStop
<1>7. Later(c)' \subseteq Later(c)
  <2> SUFFICES ASSUME NEW i \in DOMAIN co'[c].passes,
                      ~(co'[c].passes[i].at < co'[c].first)
               PROVE  co'[c].passes[i].task \in Later(c)
    BY DEF Later, StandsBeforeStop
  <2>1. i + 1 \in DOMAIN q /\ co'[c].passes[i] = q[i + 1]
    BY <1>3, <1>5
  <2>2. QED
    BY <1>3, <2>1 DEF Later, StandsBeforeStop
<1>8. StandsBeforeStop(c, p) => UNCHANGED decided
  BY <1>2 DEF WithdrawNext, journal
<1>9. ~StandsBeforeStop(c, p) =>
        p.task \in Tasks /\ decided' = [decided EXCEPT ![p.task] = Undecided]
  BY <1>4 DEF WithdrawNext, NotRefused, NotRecorded, Orderly, Recorded, Withdrawn, Pass
<1>10. ~StandsBeforeStop(c, p) => p.task \in Later(c)
  BY <1>4 DEF Later
<1> HIDE DEF p, q
<1>11. Unwinding(c)
  BY <1>1 DEF Rests
<1>12. Unwinding(c)'
  <2> SUFFICES ASSUME NEW t \in Tasks, decided'[t].outcome \in Good, t \notin Later(c)',
                      NEW d \in After[t]
               PROVE  decided'[d].outcome \in Good /\ d \notin Later(c)'
    BY DEF Unwinding
  <2>1. d \in Tasks
    BY GraphAssumption
  <2>2. CASE StandsBeforeStop(c, p)
    BY <1>6, <1>7, <1>8, <1>11, <2>1, <2>2 DEF Unwinding
  <2>3. CASE ~StandsBeforeStop(c, p)
    <3>1. t # p.task
      BY <1>1, <1>9, <2>3 DEF Undecided, Good
    <3>2. decided[t].outcome \in Good /\ t \notin Later(c)
      BY <1>1, <1>6, <1>9, <2>3, <3>1
    <3>3. decided[d].outcome \in Good /\ d \notin Later(c)
      BY <1>11, <3>2 DEF Unwinding
    <3>4. QED
      BY <1>1, <1>7, <1>9, <1>10, <2>1, <2>3, <3>3
  <2>4. QED
    BY <2>2, <2>3
<1>13. QED
  BY <1>3, <1>12 DEF RestsWell, Rests, Off, At

LEMMA SignalRests ==
    ASSUME RunInv, NEW c \in Coordinators, Rests(c), StopBegins(c) \/ HandlerRuns(c)
    PROVE  RestsWell(c)
<1>1. /\ co'[c].pc = co[c].pc /\ co'[c].passes = co[c].passes /\ co'[c].first = co[c].first
      /\ co'[c].decided = co[c].decided
  BY TypeParts, SignalFields DEF RunInv, KeepsPlan, KeepsPasses
<1>2. UNCHANGED <<decided, thread, now>> /\ ~Off(c)
  BY DEF StopBegins, HandlerRuns, Executing, Off, journal, world
<1>3. CASE At(c, "withdrawing")
  BY <1>1, <1>2, <1>3 DEF RestsWell, Rests, Unwinding, Later, StandsBeforeStop, Off, At
<1>4. CASE ~At(c, "withdrawing")
  BY <1>1, <1>2, <1>4, QuietRests DEF RestsWell, Off, At
<1>5. QED
  BY <1>3, <1>4

LEMMA ArrivalRests ==
    ASSUME RunInv, OwnerInv, NEW c \in Coordinators, "write" \notin Events, RestsNow,
           Create(c) \/ \E assume \in BOOLEAN : Reopen(c, assume)
    PROVE  RestsWell(c)
<1>1. CoOK /\ co[c].pc = "unborn" /\ UNCHANGED <<decided, thread>>
  BY TypeParts DEF RunInv, Create, Reopen, IsNext, Requested, journal
<1>2. \A t \in Tasks : thread'[c][t].st = "none"
  BY <1>1, IdleThreads
<1>3. co'[c].pc \in {"level", "detach", "reopened"} /\ co'[c].passes = << >>
  <2>1. CASE Create(c)
    <3>1. PICK pc \in {"level", "detach"} : Begin(c, 1, pc)
      BY <2>1 DEF Create
    <3>2. QED
      BY <1>1, <3>1, BegunFields
  <2>2. CASE \E assume \in BOOLEAN : Reopen(c, assume)
    <3> DEFINE r == [Unborn EXCEPT !.pc = "reopened", !.generation = generation,
                                   !.assumed = {a \in OpenAttempts : GroupExists(a)}]
    <3>1. co' = [co EXCEPT ![c] = r]
      BY <2>2 DEF Reopen
    <3>2. r.pc = "reopened" /\ r.passes = << >>
      BY DEF Unborn
    <3> HIDE DEF r
    <3>3. QED
      BY <1>1, <3>1, <3>2, CoSet
  <2>3. QED
    BY <2>1, <2>2
<1>4. QED
  BY <1>1, <1>2, <1>3, FreshRests DEF RestsWell, Off, At

LEMMA ObservedAt ==
    ASSUME CoOK, NEW c \in Coordinators, NEW t \in Tasks, NEW n
    PROVE  thread' = [thread EXCEPT ![c][t].st = "exited", ![c][t].at = n] =>
               thread'[c][t].at = n
<1> DEFINE r == [thread[c][t] EXCEPT !.st = "exited", !.at = n]
<1>1. thread[c][t] \in ThreadState
  BY DEF CoOK
<1>2. thread' = [thread EXCEPT ![c][t].st = "exited", ![c][t].at = n]
        => thread' = [thread EXCEPT ![c][t] = r]
  BY DEF CoOK
<1>3. r.at = n
  BY <1>1 DEF ThreadState
<1> HIDE DEF r
<1> SUFFICES ASSUME thread' = [thread EXCEPT ![c][t] = r] PROVE thread'[c][t].at = n
  BY <1>2
<1>4. /\ thread'[c][t] = r
      /\ \A u \in Tasks : u # t => thread'[c][u] = thread[c][u]
      /\ \A d \in Coordinators : d # c => thread'[d] = thread[d]
  BY ThreadSet
<1>5. QED
  BY <1>3, <1>4

\* A thread's step that decides nothing: only an exit with 0 moves the clock.
LEMMA ThreadQuietRests ==
    ASSUME RunInv, RunInv', NEW c \in Coordinators, NEW t \in Tasks, Rests(c), WorksOn(c, t),
           UNCHANGED decided, now <= now', co'[c].passes = co[c].passes,
           co'[c].decided = co[c].decided,
           Noted(c, t)' => \/ thread'[c][t].at = now'
                           \/ Noted(c, t) /\ thread'[c][t].at = thread[c][t].at
    PROVE  RestsWell(c)
<1>1. CoOK /\ now \in Nat /\ now' \in Nat
  BY TypeParts DEF RunInv, DurableTypeOK
<1>2. At(c, "threads") /\ At(c, "threads")'
      /\ \A u \in Tasks : u # t => thread'[c][u] = thread[c][u]
  BY DEF WorksOn
<1>3. RestsNow /\ PassOrder(c) /\ \A u \in Tasks : ThreadRests(c, u)
  BY <1>2 DEF Rests, At
<1>4. \A i \in DOMAIN co[c].passes : co[c].passes[i].at <= now' /\ co[c].passes[i].at \in Nat
  BY <1>1, <1>3, PassFields DEF PassOrder
<1>5. RestsNow' /\ PassOrder(c)'
  BY <1>3, <1>4 DEF RestsNow, PassOrder
<1>6. \A u \in Tasks : thread[c][u].at \in Nat
  BY <1>1 DEF CoOK, ThreadState
<1>7. ASSUME NEW u \in Tasks, u # t PROVE ThreadRests(c, u)'
  BY <1>1, <1>2, <1>3, <1>6, <1>7 DEF ThreadRests, Noted, DecidedHere
<1>8. ThreadRests(c, t)'
  <2>1. thread[c][t].st # "none"
    BY DEF WorksOn, Holding
  <2>2. ~DecidedHere(c, t)' /\ \A d \in After[t] : co'[c].decided[d] \in Good
    BY <1>3, <2>1 DEF ThreadRests, DecidedHere
  <2>3. CASE ~Noted(c, t)'
    BY <2>2, <2>3 DEF ThreadRests
  <2>4. CASE thread'[c][t].at = now'
    BY <1>1, <1>4, <2>2, <2>4 DEF ThreadRests
  <2>5. CASE Noted(c, t) /\ thread'[c][t].at = thread[c][t].at
    BY <1>1, <1>3, <1>6, <2>2, <2>5 DEF ThreadRests
  <2>6. QED
    BY <2>3, <2>4, <2>5
<1>9. QED
  BY <1>2, <1>5, <1>7, <1>8 DEF RestsWell, Rests, Off, At

LEMMA QuietThreadRests ==
    ASSUME RunInv, RunInv', NEW c \in Coordinators, NEW t \in Tasks, Rests(c),
           Dispatch(c, t) \/ Launch(c, t) \/ RecordStart(c, t) \/ Observe(c, t) \/ Judge(c, t)
           \/ RecordInterrupt(c, t)
    PROVE  RestsWell(c)
<1>1. CoOK /\ WorksOn(c, t) /\ now \in Nat
  BY TypeParts, ThreadEffect DEF RunInv, ThreadStep, DurableTypeOK
<1>2. UNCHANGED decided
  BY DEF Dispatch, Launch, RecordStart, Observe, Judge, RecordInterrupt, ThreadFails, Recorded,
     NotRecorded, Dispatched, Started, Interrupted, journal
<1>3. now <= now'
  BY <1>1 DEF Dispatch, Launch, RecordStart, Observe, Judge, RecordInterrupt, world
<1>4. co'[c].passes = co[c].passes /\ co'[c].decided = co[c].decided
  <2>1. CASE UNCHANGED co
    BY <2>1
  <2>2. ASSUME NEW accepts, NEW fact, ThreadFails(c, t, accepts, fact)
        PROVE  co'[c].passes = co[c].passes /\ co'[c].decided = co[c].decided
    BY <1>1, <2>2, FailsFields DEF KeepsPlan, KeepsPasses
  <2>3. QED
    BY <2>1, <2>2 DEF Dispatch, Launch, RecordStart, Observe, Judge, RecordInterrupt
<1>5. Noted(c, t)' => \/ thread'[c][t].at = now'
                      \/ Noted(c, t) /\ thread'[c][t].at = thread[c][t].at
  <2>1. CASE Observe(c, t)
    BY <1>1, <2>1, ObservedAt DEF Observe
  <2>2. ASSUME NEW accepts, NEW fact, ThreadFails(c, t, accepts, fact) PROVE ~Noted(c, t)'
    BY <1>1, <2>2, FailsFields DEF Noted
  <2>3. CASE Dispatch(c, t)
    <3>1. thread' = [thread EXCEPT ![c][t].st = "dispatched", ![c][t].attempt = Len(attempts) + 1]
          => ~Noted(c, t)'
      <4> SUFFICES ASSUME thread' = [thread EXCEPT ![c][t].st = "dispatched",
                                                   ![c][t].attempt = Len(attempts) + 1]
                   PROVE  thread'[c][t].st = "dispatched"
        BY DEF Noted
      <4>1. /\ thread'[c][t].st = "dispatched"
            /\ thread'[c][t].attempt = Len(attempts) + 1
            /\ \A u \in Tasks : u # t => thread'[c][u] = thread[c][u]
            /\ \A d \in Coordinators : d # c => thread'[d] = thread[d]
        BY <1>1, DispatchedFields
      <4>2. QED
        BY <4>1
    <3>2. QED
      BY <2>2, <2>3, <3>1 DEF Dispatch
  <2>4. ASSUME NEW st \in {"failed", "spawned", "running", "stopping", "interrupted"},
               Stepped(c, t, st)
        PROVE  ~Noted(c, t)'
    BY <1>1, <2>4, SteppedFields DEF Noted
  <2>5. ASSUME NEW o, thread' = [thread EXCEPT ![c][t].st = "judged", ![c][t].outcome = o]
        PROVE  /\ thread'[c][t].st = "judged" /\ thread'[c][t].outcome = o
               /\ thread'[c][t].at = thread[c][t].at
    <3>1. /\ thread'[c][t].st = "judged"
          /\ thread'[c][t].outcome = o
          /\ thread'[c][t].attempt = thread[c][t].attempt
          /\ thread'[c][t].at = thread[c][t].at
          /\ \A u \in Tasks : u # t => thread'[c][u] = thread[c][u]
          /\ \A d \in Coordinators : d # c => thread'[d] = thread[d]
      BY <1>1, <2>5, JudgedFields
    <3>2. QED
      BY <3>1
  <2>6. CASE Launch(c, t)
    <3>1. thread' = [thread EXCEPT ![c][t].st = "judged", ![c][t].outcome = "errored"]
          => ~Noted(c, t)'
      <4> DEFINE o == "errored"
      <4>1. o # "passed"
        OBVIOUS
      <4> HIDE DEF o
      <4>2. thread' = [thread EXCEPT ![c][t].st = "judged", ![c][t].outcome = o] => ~Noted(c, t)'
        BY <2>5, <4>1 DEF Noted
      <4>3. QED
        BY <4>2 DEF o
    <3>2. QED
      BY <2>4, <2>6, <3>1 DEF Launch
  <2>7. CASE Judge(c, t)
    <3>1. CASE Flagged(c)
      BY <2>4, <2>7, <3>1 DEF Judge
    <3>2. CASE ~Flagged(c)
      <4>1. PICK o : thread' = [thread EXCEPT ![c][t].st = "judged", ![c][t].outcome = o]
        BY <2>7, <3>2 DEF Judge
      <4>2. thread'[c][t].at = thread[c][t].at /\ Noted(c, t)
        BY <2>5, <2>7, <4>1 DEF Judge, Running, Noted
      <4>3. QED
        BY <4>2
    <3>3. QED
      BY <3>1, <3>2
  <2>8. CASE RecordStart(c, t) \/ RecordInterrupt(c, t)
    BY <2>2, <2>4, <2>8 DEF RecordStart, RecordInterrupt
  <2>9. QED
    BY <2>1, <2>3, <2>6, <2>7, <2>8
<1>6. QED
  BY <1>1, <1>2, <1>3, <1>4, <1>5, ThreadQuietRests

\* The pass that is recorded comes after those its task rests on.
LEMMA FinishRests ==
    ASSUME RunInv, OwnerInv, PlanInv, NEW c \in Coordinators, NEW t \in Tasks, InForce(c),
           Work(c), Orderly(c), NotRefused(c), "write" \notin Events, Rests(c),
           RecordFinish(c, t)
    PROVE  RestsWell(c)
<1>1. PICK a, o : a = thread[c][t].attempt /\ o = thread[c][t].outcome
  OBVIOUS
<1>2. CoOK /\ WorksOn(c, t) /\ now \in Nat /\ UNCHANGED now /\ co[c] \in CoState
      /\ thread[c][t].st = "judged" /\ At(c, "threads")
  BY TypeParts, ThreadEffect DEF RunInv, ThreadStep, DurableTypeOK, RecordFinish, world, Running,
     CoOK
<1>3. RestsNow /\ PassOrder(c) /\ \A u \in Tasks : ThreadRests(c, u)
  BY <1>2 DEF Rests, At
<1>4. /\ Finished(a, co[c].generation, proc[a] = "exit0", o)
      /\ Stepped(c, t, "done")
      /\ co' = IF o = "passed"
               THEN [co EXCEPT ![c].passes =
                       Append(@, [task |-> t, attempt |-> a, at |-> thread[c][t].at])]
               ELSE co
  <2>1. /\ Finished(thread[c][t].attempt, co[c].generation,
                    proc[thread[c][t].attempt] = "exit0", thread[c][t].outcome)
        /\ Stepped(c, t, "done")
        /\ co' = IF thread[c][t].outcome = "passed"
                 THEN [co EXCEPT ![c].passes =
                         Append(@, [task |-> t, attempt |-> thread[c][t].attempt,
                                    at |-> thread[c][t].at])]
                 ELSE co
    BY <1>2 DEF RecordFinish, NotRefused, Running, ThreadFails, NotRecorded, Recorded, Orderly
  <2>2. QED
    BY <1>1, <2>1
<1> DEFINE r == [outcome |-> o, attempt |-> a, generation |-> co[c].generation]
<1>5. decided' = [decided EXCEPT ![t] = r] /\ r.outcome = o
  <2>1. HeldOwn(c, t)
    BY DEF OwnerInv, ThreadsRun
  <2>2. attempts[a].task = t
    BY <1>1, <1>2, <2>1 DEF HeldOwn, Holding
  <2>3. QED
    BY <1>4, <2>2 DEF Finished
<1> HIDE DEF r
<1>6. thread'[c][t].st = "done" /\ \A u \in Tasks : u # t => thread'[c][u] = thread[c][u]
  BY <1>2, <1>4, SteppedFields
<1>7. ~IsDecided(t)
  <2>1. ~DecidedHere(c, t) /\ Agrees(c, t)
    BY <1>2, <1>3 DEF ThreadRests, Work, At
  <2>2. QED
    BY <1>2, <2>1 DEF Agrees, DecidedHere, IsDecided
<1>8. \A d \in After[t] : co[c].decided[d] \in Good /\ decided[d].outcome \in Good
  <2>1. \A d \in After[t] : d \in Tasks /\ co[c].decided[d] \in Good
    BY <1>2, <1>3, GraphAssumption DEF ThreadRests
  <2>2. QED
    BY <1>2, <2>1, GoodHere DEF At
<1>9. co'[c].decided = co[c].decided
  BY <1>2, <1>4, PassedFields DEF KeepsPlan
<1>10. CASE o = "passed"
  <2> DEFINE p == [task |-> t, attempt |-> a, at |-> thread[c][t].at]
  <2>1. p \in Pass /\ p.task = t /\ p.at = thread[c][t].at
    BY <1>1, <1>2 DEF CoOK, ThreadState, Pass
  <2>2. co' = [co EXCEPT ![c].passes = Append(@, p)]
    BY <1>4, <1>10
  <2> HIDE DEF p
  <2>3. co'[c].passes = Append(co[c].passes, p)
    BY <1>2, <2>2, PassedFields
  <2>4. /\ p.at <= now
        /\ \A i \in DOMAIN co[c].passes :
             co[c].passes[i].task \in After[t] => co[c].passes[i].at <= p.at
    BY <1>1, <1>2, <1>3, <1>10, <2>1 DEF ThreadRests, Noted
  <2>5. RestsNow' /\ PassOrder(c)'
    BY <1>2, <1>3, <1>5, <1>7, <1>8, <2>1, <2>3, <2>4, DecidedRests
  <2>6. co[c].passes \in Seq(Pass)
    BY <1>2 DEF CoState
  <2>7. \A i \in DOMAIN co'[c].passes :
            \/ co'[c].passes[i].task = t
            \/ i \in DOMAIN co[c].passes /\ co'[c].passes[i] = co[c].passes[i]
    BY <2>1, <2>3, <2>6
  <2>8. ASSUME NEW u \in Tasks PROVE ThreadRests(c, u)'
    <3>1. CASE u = t
      BY <1>2, <1>3, <1>6, <1>9, <3>1 DEF ThreadRests, Noted, DecidedHere
    <3>2. CASE u # t
      <4>1. thread[c][u].st # "none" => t \notin After[u]
        BY <1>2, <1>3 DEF ThreadRests, DecidedHere, Good
      <4>2. QED
        BY <1>2, <1>3, <1>6, <1>9, <2>7, <3>2, <4>1 DEF ThreadRests, Noted, DecidedHere
    <3>3. QED
      BY <3>1, <3>2
  <2>9. QED
    BY <1>2, <2>5, <2>8 DEF RestsWell, Rests, WorksOn, Off, At
<1>11. CASE o # "passed"
  <2>1. UNCHANGED co
    BY <1>4, <1>11
  <2>2. o \notin Good
    BY <1>1, <1>2, <1>11 DEF CoOK, ThreadState, FinishedEnds, Good
  <2>3. RestsNow' /\ PassOrder(c)'
    BY <1>2, <1>3, <1>5, <1>7, <2>1, <2>2, DecidedRests
  <2>4. ASSUME NEW u \in Tasks PROVE ThreadRests(c, u)'
    BY <1>2, <1>3, <1>6, <2>1 DEF ThreadRests, Noted, DecidedHere
  <2>5. QED
    BY <1>2, <2>3, <2>4 DEF RestsWell, Rests, WorksOn, Off, At
<1>12. QED
  BY <1>10, <1>11

LEMMA MainRests ==
    ASSUME RunInv, OwnerInv, PlanInv, NEW c \in Coordinators, InForce(c) => Work(c), Orderly(c),
           NotRefused(c), "write" \notin Events, Rests(c), EndsWell(c), MainStep(c)
    PROVE  RestsWell(c)
<1>1. CASE Gone(c)
  BY <1>1, LeaveRests
<1>2. CASE ~Gone(c)
  <2>1. ~At(c, "reopened") /\ ~Off(c) => InForce(c)
    BY DEF Orderly, Fenced, InForce, Owns, Off, At
  <2>2. CASE Detach(c) \/ Received(c) \/ TakeOver(c) \/ (\E a \in AttemptIds : RecordLost(c, a))
             \/ TakenOver(c) \/ StartLevel(c) \/ StartThreads(c) \/ WaitOutWindow(c)
    <3>1. ~Off(c)'
      BY <1>2, <2>2, DetachEffect, TakeOverEffect, RecordLostEffect, TakenOverEffect,
         StartLevelEffect, WithdrawEffect DEF Walks, Leaves
    <3>2. QED
      BY <1>2, <2>2, <3>1, QuietRestsWell
  <2>3. CASE Consider(c)
    BY <2>1, <2>3, ConsiderRests DEF Consider, Off, At
  <2>4. CASE Join(c)
    BY <1>2, <2>4, JoinRests
  <2>5. CASE BeginWithdraw(c)
    BY <2>1, <2>5, BeginWithdrawRests DEF BeginWithdraw, Off, At
  <2>6. CASE WithdrawNext(c)
    BY <2>6, WithdrawNextRests
  <2>7. ~RecordStop(c) /\ ~RecordConclusion(c)
    BY <1>2 DEF RecordStop, RecordConclusion
  <2>8. QED
    BY <2>2, <2>3, <2>4, <2>5, <2>6, <2>7 DEF MainStep
<1>3. QED
  BY <1>1, <1>2

\* What the invariants say of the one coordinator that moves.
LEMMA AtWork ==
    ASSUME RunInv, OwnerInv, PlanInv, WorkInv, PassInv, ReopenedOpen, EndInv,
           Len(attempts) < MaxAttempts, NEW c \in Coordinators, ~Off(c)
    PROVE  /\ Orderly(c) /\ NotRefused(c)
           /\ InForce(c) => Work(c)
           /\ ~At(c, "reopened") => InForce(c)
<1>1. Orderly(c)
  BY DEF EndInv
<1>2. NotRefused(c)
  BY <1>1, NothingRefused DEF Orderly, NeverRefused, NotRefused
<1>3. ~At(c, "reopened") => InForce(c)
  BY <1>1 DEF Orderly, Fenced, InForce, Owns, Off, At
<1>4. QED
  BY <1>1, <1>2, <1>3 DEF WorkInv

\* A process that is not there comes, or does nothing.
LEMMA OffComes ==
    ASSUME OwnerInv, NEW c \in Coordinators, Off(c), Moves(c)
    PROVE  Create(c) \/ \E assume \in BOOLEAN : Reopen(c, assume)
  BY IdleThreads, OffIsIdle DEF Off, Moves

LEMMA MoveRests ==
    ASSUME RunInv, RunInv', OwnerInv, PlanInv, WorkInv, PassInv, ReopenedOpen, Leased, EndInv,
           RestInv, Len(attempts) < MaxAttempts, Events \cap {"crash", "write", "lease"} = {},
           NEW c \in Coordinators, Moves(c)
    PROVE  RestsWell(c)
<1>1. CASE Off(c)
  <2>1. RestsNow
    BY <1>1, AloneAtWork DEF RestInv
  <2>2. QED
    BY <1>1, <2>1, OffComes, ArrivalRests
<1>2. CASE ~Off(c)
  <2>1. Rests(c)
    BY <1>2 DEF RestInv
  <2>2. Orderly(c) /\ NotRefused(c) /\ (InForce(c) => Work(c))
        /\ (~At(c, "reopened") => InForce(c))
    BY <1>2, AtWork
  <2>3. EndsWell(c)
    BY MoveEndsWell
  <2>4. CASE MainStep(c)
    BY <2>1, <2>2, <2>3, <2>4, MainRests
  <2>5. ASSUME NEW t \in Tasks, ThreadStep(c, t) PROVE RestsWell(c)
    <3>1. InForce(c)
      BY <2>2, <2>5, ThreadEffect DEF WorksOn, At
    <3>2. QED
      BY <2>1, <2>2, <2>5, <3>1, QuietThreadRests, FinishRests DEF ThreadStep
  <2>6. CASE Decline(c)
    BY <2>1, <2>2, <2>6, LeaveRests DEF Decline
  <2>7. CASE StopBegins(c) \/ HandlerRuns(c)
    BY <2>1, <2>7, SignalRests
  <2>8. ~Create(c) /\ ~Crash(c) /\ \A assume \in BOOLEAN : ~Reopen(c, assume)
    BY <1>2 DEF Create, Crash, Reopen, IsNext, Off
  <2>9. QED
    BY <2>4, <2>5, <2>6, <2>7, <2>8 DEF Moves
<1>3. QED
  BY <1>1, <1>2

LEMMA RestInit == Init => RestInv
<1> SUFFICES ASSUME Init PROVE RestInv
  OBVIOUS
<1>1. \A c \in Coordinators : Off(c)
  BY DEF Init, Unborn, Off
<1>2. \A t \in Tasks : decided[t].outcome = "none"
  BY DEF Init, JournalInit, Undecided
<1>3. RestsNow
  BY <1>2 DEF RestsNow, Good
<1>4. QED
  BY <1>1, <1>3 DEF RestInv

\* Short of its bound before and after a step.
LEMMA ShortBefore ==
    ASSUME RunInv, RunInv', JournalStep, Len(attempts') < MaxAttempts
    PROVE  Len(attempts) < MaxAttempts
<1>1. Len(attempts) <= Len(attempts')
  BY AttemptsGrow
<1>2. Len(attempts) \in Nat /\ Len(attempts)' \in Nat /\ MaxAttempts \in Nat
  BY BoundsAssumption DEF RunInv, JournalInv, JournalTypeOK
<1>3. QED
  BY <1>1, <1>2

LEMMA RestNext ==
    ASSUME Events \cap {"crash", "write", "lease"} = {}
    PROVE  RunInv /\ OwnerInv /\ PlanInv /\ WorkInv /\ PassInv /\ ReopenedOpen /\ Leased
           /\ EndInv /\ RestInv /\ [Next]_vars /\ RunInv' /\ [JournalNext]_journal => RestInv'
<1> SUFFICES ASSUME RunInv, OwnerInv, PlanInv, WorkInv, PassInv, ReopenedOpen, Leased, EndInv,
                    RestInv, [Next]_vars, RunInv', JournalStep, Len(attempts') < MaxAttempts
             PROVE  RestInv'
  BY DEF RestInv, JournalStep
<1>1. Len(attempts) < MaxAttempts
  BY ShortBefore
<1>2. ASSUME NEW c \in Coordinators, Moves(c) PROVE RestInv'
  <2>1. RestsWell(c)
    BY <1>1, <1>2, MoveRests
  <2>2. OthersStand(c) /\ \A d \in Coordinators : d # c => Off(d)
    BY <1>2, OthersLeft, AloneAtWork DEF Moves
  <2>3. QED
    BY <2>1, <2>2, RestKept
<1>3. CASE UNCHANGED <<journal, co, thread, now>>
  <2>1. ASSUME NEW c \in Coordinators, Rests(c) PROVE Rests(c)'
    BY <1>3, <2>1 DEF Rests, Unwinding, Later, StandsBeforeStop, RestsNow, PassOrder,
       ThreadRests, Noted, DecidedHere, journal, At
  <2>2. RestsNow => RestsNow'
    BY <1>3 DEF RestsNow, journal
  <2>3. QED
    BY <1>1, <1>3, <2>1, <2>2 DEF RestInv, Off
<1>4. ASSUME NEW c \in Coordinators PROVE ~LoseLease(c)
  BY DEF LoseLease
<1>5. QED
  BY <1>2, <1>3, <1>4 DEF Next, Environment, Moves, ProcExit, CloseLease, vars

\* While somebody is at work the run is open: it came to rest only after.
LEMMA EndedIsLeft ==
    ASSUME RunInv, OwnerInv, PlanInv, WorkInv, PassInv, ReopenedOpen, EndInv,
           Len(attempts) < MaxAttempts, stopped \/ concluded # "none", NEW c \in Coordinators
    PROVE  Off(c) \/ At(c, "reopened")
<1> SUFFICES ASSUME ~Off(c), ~At(c, "reopened") PROVE FALSE
  OBVIOUS
<1>1. Open
  BY AtWork DEF Work
<1>2. QED
  BY <1>1 DEF Open

LEMMA EndedRests ==
    ASSUME RunInv, OwnerInv, PlanInv, WorkInv, PassInv, ReopenedOpen, EndInv, RestInv,
           Len(attempts) < MaxAttempts
    PROVE  RestsOnPasses
<1> SUFFICES ASSUME stopped \/ concluded # "none" PROVE RestsNow
  BY DEF RestsOnPasses, RestsNow
<1>1. CASE \A c \in Coordinators : Off(c)
  BY <1>1 DEF RestInv
<1>2. ASSUME NEW c \in Coordinators, ~Off(c) PROVE RestsNow
  <2>1. At(c, "reopened") /\ Rests(c)
    BY <1>2, EndedIsLeft DEF RestInv
  <2>2. QED
    BY <2>1 DEF Rests, At
<1>3. QED
  BY <1>1, <1>2

\* RestsOnPasses: where nothing is killed, every file can be written and
\* leases hold, a run comes to rest only with passes that stand on passes,
\* for every graph: the passes a process withdraws are a tail of what it
\* decided, and what rests on a task is decided after it.
THEOREM PassesRestOnPasses ==
    ASSUME Events \cap {"crash", "write", "lease"} = {}
    PROVE  Spec => [](Len(attempts) < MaxAttempts => RestsOnPasses)
<1>1. RunInv /\ OwnerInv /\ PlanInv /\ WorkInv /\ PassInv /\ ReopenedOpen /\ EndInv /\ RestInv
      => (Len(attempts) < MaxAttempts => RestsOnPasses)
  BY EndedRests
<1>2. RunInv /\ OwnerInv /\ ProcessInv /\ [Next]_vars => ProcessInv'
  BY ProcessNext
<1>3. ProcessInv => Leased
  BY DEF ProcessInv
<1>4. RunInv /\ OwnerInv /\ PlanInv /\ WorkInv /\ PassInv /\ ReopenedOpen /\ Leased
      /\ EndInv /\ [Next]_vars /\ RunInv' /\ [JournalNext]_journal => EndInv'
  BY EndNext
<1>5. RunInv /\ OwnerInv /\ PlanInv /\ WorkInv /\ PassInv /\ ReopenedOpen /\ Leased
      /\ EndInv /\ RestInv /\ [Next]_vars /\ RunInv' /\ [JournalNext]_journal => RestInv'
  BY RestNext
<1>6. QED
  BY <1>1, <1>2, <1>3, <1>4, <1>5, RunInit, RunNext, OwnerInit, OwnerNext, PlanInit, PlanNext,
     WorkInit, WorkNext, PassInit, PassNext, ProcessInit, ReopenedInit, ReopenedNext, EndInit,
     RestInit, PTL DEF Spec

-----------------------------------------------------------------------------
(***************************************************************************)
(* What a stop made exit with 0.  A stop begins at one coordinator at      *)
(* most, the one at work; what it reaches was not over.                    *)
(***************************************************************************)
TrapInv ==
    /\ \A c \in Coordinators : Off(c) => co[c].stop = "none"
    /\ \A a \in trapped : Known(a) /\ proc[a] = "exit0"
    /\ \A c \in Coordinators, t \in Tasks :
         thread[c][t].st = "dispatched" => thread[c][t].attempt \notin trapped

LEMMA GoneStop ==
    ASSUME CoOK, NEW c \in Coordinators, Gone(c)
    PROVE  co'[c].stop = "none"
<1> DEFINE r == [Unborn EXCEPT !.pc = "gone"]
<1>1. co' = [co EXCEPT ![c] = r]
  BY DEF Gone
<1>2. r.stop = "none"
  BY DEF Unborn
<1> HIDE DEF r
<1>3. QED
  BY <1>1, <1>2, CoSet

LEMMA OffIsGone ==
    ASSUME RunInv, NEW c \in Coordinators, Moves(c), Off(c)'
    PROVE  Gone(c)
<1>1. CoOK
  BY TypeParts DEF RunInv
<1>2. CASE MainStep(c) \/ Decline(c) \/ Crash(c) \/ StopBegins(c) \/ HandlerRuns(c)
  BY <1>2, MainEffect DEF Walks, Leaves
<1>3. ASSUME NEW t \in Tasks PROVE ~ThreadStep(c, t)
  BY ThreadEffect DEF WorksOn, Off, At
<1>4. ASSUME NEW assume PROVE ~Reopen(c, assume)
  BY <1>1, ReopenFields DEF Off
<1>5. CASE Create(c) /\ ~Gone(c)
  <2>1. PICK pc \in {"level", "detach"} : Begin(c, 1, pc)
    BY <1>5 DEF Create
  <2>2. QED
    BY <1>1, <2>1, BegunFields DEF Off
<1>6. QED
  BY <1>2, <1>3, <1>4, <1>5 DEF Moves

\* An attempt whose process ended keeps it so, unless it is about to start.
LEMMA TrappedStays ==
    ASSUME RunInv, OwnerInv, TrapInv, NEW c \in Coordinators, NEW t \in Tasks, ThreadStep(c, t),
           NEW a \in trapped
    PROVE  proc'[a] = "exit0"
<1>1. proc[a] = "exit0" /\ proc \in [AttemptIds -> {"none", "alive", "exit0", "exit1"}]
      /\ a \in AttemptIds
  BY TypeParts DEF TrapInv, RunInv, DurableTypeOK
<1>2. CASE Launch(c, t)
  <2>1. a # thread[c][t].attempt
    BY <1>2 DEF Launch, Running, TrapInv
  <2>2. QED
    BY <1>1, <1>2, <2>1 DEF Launch
<1>3. CASE RecordStart(c, t)
  <2>1. UNCHANGED proc \/ proc' = Killed(thread[c][t].attempt)
    BY <1>3 DEF RecordStart
  <2>2. QED
    BY <1>1, <2>1 DEF Killed
<1>4. CASE Dispatch(c, t) \/ Observe(c, t) \/ Judge(c, t) \/ RecordFinish(c, t)
           \/ RecordInterrupt(c, t)
  BY <1>1, <1>4 DEF Dispatch, Observe, Judge, RecordFinish, RecordInterrupt, world
<1>5. QED
  BY <1>2, <1>3, <1>4 DEF ThreadStep

LEMMA ThreadTraps ==
    ASSUME RunInv, OwnerInv, TrapInv, JournalStep, NEW c \in Coordinators, NEW t \in Tasks,
           ThreadStep(c, t)
    PROVE  TrapInv'
<1>1. WorksOn(c, t) /\ ThreadTurns(c, t) /\ JournalInv /\ JournalTypeOK
  BY ThreadEffect, ThreadTurn DEF RunInv, JournalInv
<1>2. UNCHANGED trapped /\ \A a \in trapped : Known(a)'
  BY <1>1, JournalGrows DEF WorksOn, TrapInv, Known
<1>3. ASSUME NEW d \in Coordinators, Off(d)' PROVE co'[d].stop = "none"
  <2>1. d # c
    BY <1>1, <1>3 DEF WorksOn, Off, At
  <2>2. QED
    BY <1>1, <1>3, <2>1 DEF WorksOn, OthersStand, Off, TrapInv
<1>4. ASSUME NEW d \in Coordinators, NEW u \in Tasks, thread'[d][u].st = "dispatched"
      PROVE  thread'[d][u].attempt \notin trapped'
  <2>1. CASE d = c /\ u = t
    <3>1. Opens(c, t)
      BY <1>1, <1>4, <2>1 DEF ThreadTurns, Turn, WorksOn, LetsGo, GoesOn, Holding
    <3>2. Len(attempts) + 1 \notin DOMAIN attempts
      <4>1. PICK g, s : Dispatched(t, g, s)
        BY <3>1 DEF Opens
      <4>2. QED
        BY <1>1, <4>1, OpenedAttempt
    <3>3. QED
      BY <1>2, <2>1, <3>1, <3>2 DEF Opens, TrapInv, Known
  <2>2. CASE d # c \/ u # t
    <3>1. thread'[d][u] = thread[d][u]
      BY <1>1, <2>2 DEF WorksOn, OthersStand
    <3>2. QED
      BY <1>2, <1>4, <3>1 DEF TrapInv
  <2>3. QED
    BY <2>1, <2>2
<1>5. \A a \in trapped' : proc'[a] = "exit0"
  BY <1>2, TrappedStays
<1>6. QED
  BY <1>2, <1>3, <1>4, <1>5 DEF TrapInv

LEMMA MoveTraps ==
    ASSUME RunInv, OwnerInv, TrapInv, JournalStep, NEW c \in Coordinators, Moves(c)
    PROVE  TrapInv'
<1>1. CoOK /\ JournalInv
  BY TypeParts DEF RunInv
<1>2. CASE \E t \in Tasks : ThreadStep(c, t)
  BY <1>2, ThreadTraps
<1>3. CASE ~\E t \in Tasks : ThreadStep(c, t)
  <2>1. UNCHANGED <<proc, trapped>>
    BY <1>3, MainEffect DEF Moves, Walks, Leaves, Create, Reopen, world
  <2>2. \A a \in trapped : Known(a)' /\ proc'[a] = "exit0"
    BY <1>1, <2>1, JournalGrows DEF TrapInv, Known
  <2>3. ASSUME NEW d \in Coordinators, Off(d)' PROVE co'[d].stop = "none"
    <3>1. CASE d = c
      BY <1>1, <2>3, <3>1, OffIsGone, GoneStop
    <3>2. CASE d # c
      BY <2>3, <3>2, OthersLeft DEF OthersStand, Off, TrapInv, Moves
    <3>3. QED
      BY <3>1, <3>2
  <2>4. ASSUME NEW d \in Coordinators, NEW u \in Tasks
        PROVE  thread'[d][u] = thread[d][u] \/ thread'[d][u].st # "dispatched"
    <3>1. CASE d # c
      BY <3>1, OthersLeft DEF OthersStand, Moves
    <3>2. CASE d = c /\ (MainStep(c) \/ Decline(c) \/ Crash(c) \/ StopBegins(c) \/ HandlerRuns(c))
      BY <1>1, <3>2, MainEffect, GoneFields DEF Walks, Leaves
    <3>3. CASE d = c /\ (Create(c) \/ \E assume \in BOOLEAN : Reopen(c, assume))
      BY <1>1, <3>3, GoneFields DEF Create, Reopen
    <3>4. QED
      BY <1>3, <3>1, <3>2, <3>3 DEF Moves
  <2>5. QED
    BY <2>1, <2>2, <2>3, <2>4 DEF TrapInv
<1>4. QED
  BY <1>2, <1>3

LEMMA ExitTraps ==
    ASSUME RunInv, OwnerInv, ProcessInv, TrapInv, NEW a \in AttemptIds, ProcExit(a)
    PROVE  TrapInv'
<1>1. UNCHANGED <<attempts, co, thread>> /\ proc[a] = "alive" /\ Known(a)
  BY DEF ProcExit, journal, ProcessInv, ProcKnown
<1>2. proc \in [AttemptIds -> {"none", "alive", "exit0", "exit1"}] /\ trapped \subseteq AttemptIds
  BY DEF RunInv, DurableTypeOK
<1>3. \A b \in trapped : b # a /\ proc[b] = "exit0" /\ Known(b)
  BY <1>1 DEF TrapInv
<1>4. \A b \in trapped' : Known(b)' /\ proc'[b] = "exit0"
  BY <1>1, <1>2, <1>3 DEF ProcExit, Known
<1>5. ASSUME NEW d \in Coordinators, NEW u \in Tasks, thread[d][u].st = "dispatched"
      PROVE  thread[d][u].attempt # a
  BY <1>1, <1>5 DEF ProcessInv, HeldOpen, Holding
<1>6. QED
  BY <1>1, <1>4, <1>5 DEF ProcExit, TrapInv, Off

LEMMA TrapInit == Init => TrapInv
<1> SUFFICES ASSUME Init PROVE TrapInv
  OBVIOUS
<1>1. \A c \in Coordinators : co[c].stop = "none"
  BY DEF Init, Unborn
<1>2. \A c \in Coordinators, t \in Tasks : thread[c][t].st = "none"
  BY DEF Init, NoThreads, NoThread
<1>3. QED
  BY <1>1, <1>2 DEF TrapInv, Init

LEMMA TrapNext ==
    RunInv /\ OwnerInv /\ ProcessInv /\ TrapInv /\ "lease" \notin Events /\ [Next]_vars
    /\ [JournalNext]_journal => TrapInv'
<1> SUFFICES ASSUME RunInv, OwnerInv, ProcessInv, TrapInv, "lease" \notin Events, [Next]_vars,
                    JournalStep
             PROVE  TrapInv'
  BY DEF JournalStep
<1>1. ASSUME NEW c \in Coordinators, Moves(c) PROVE TrapInv'
  BY <1>1, MoveTraps
<1>2. ASSUME NEW a \in AttemptIds, ProcExit(a) PROVE TrapInv'
  BY <1>2, ExitTraps
<1>3. CASE UNCHANGED <<journal, co, thread, proc, trapped>>
  BY <1>3 DEF TrapInv, Off, Known, journal
<1>4. ASSUME NEW c \in Coordinators PROVE ~LoseLease(c)
  BY DEF LoseLease
<1>5. QED
  BY <1>1, <1>2, <1>3, <1>4 DEF Next, Environment, Moves, CloseLease, vars

-----------------------------------------------------------------------------
(***************************************************************************)
(* A pass a stop tainted is one its process can name, and one that ended   *)
(* after the stop began; so it is withdrawn, or the window has not passed. *)
(***************************************************************************)
Tainted(t) == decided[t].outcome = "passed" /\ decided[t].attempt \in trapped
NoneTainted == \A t \in Tasks : ~Tainted(t)

\* The pcs before `handle_signals`.
Opening == {"detach", "received", "reopened", "losing"}

Untrapped(c) == \A a \in trapped : attempts[a].generation # co[c].generation

StopKept(c) ==
    /\ co[c].stop # "flagged"
    /\ co[c].pc \in Opening => co[c].stop = "none"
    /\ co[c].began <= now
    /\ At(c, "withdraw") => co[c].stop = "stamped"
    /\ At(c, "conclude") => NoneTainted
    /\ co[c].stop = "none" /\ Owns(c) => Untrapped(c)

LateThread(c, t) ==
    Noted(c, t) /\ thread[c][t].attempt \in trapped => thread[c][t].at > co[c].began

\* Past the beginning of the stop; once the withdrawal has begun, among those
\* that are still to be taken.
SeenTaint(c, t) ==
    Tainted(t) =>
        \E i \in DOMAIN co[c].passes :
            /\ co[c].passes[i].task = t
            /\ co[c].passes[i].attempt = decided[t].attempt
            /\ IF At(c, "withdrawing") THEN ~StandsBeforeStop(c, co[c].passes[i])
                                       ELSE co[c].passes[i].at > co[c].began

TaintOf(c) == StopKept(c) /\ \A t \in Tasks : LateThread(c, t) /\ SeenTaint(c, t)

TaintInv ==
    Len(attempts) < MaxAttempts =>
        /\ \A c \in Coordinators : ~Off(c) => TaintOf(c)
        /\ (\A c \in Coordinators : Off(c)) => NoneTainted

\* What a step of coordinator c has to show.
TaintsWell(c) == IF Off(c)' THEN NoneTainted' ELSE TaintOf(c)'

LEMMA TaintKept ==
    ASSUME NEW c \in Coordinators, OthersStand(c), TaintsWell(c),
           \A d \in Coordinators : d # c => Off(d)
    PROVE  TaintInv'
<1>1. \A d \in Coordinators : d # c => Off(d)'
  BY DEF OthersStand, Off
<1>2. QED
  BY <1>1 DEF TaintInv, TaintsWell

\* Where no pass is tainted none has to be named.
LEMMA CleanTaints ==
    ASSUME NEW c \in Coordinators, StopKept(c)', NoneTainted',
           \A t \in Tasks : thread'[c][t].st = "none"
    PROVE  TaintOf(c)'
  BY DEF TaintOf, LateThread, Noted, SeenTaint, NoneTainted

\* Before a stop has begun nothing of this process is tainted.
LEMMA NoStopNoTaint ==
    ASSUME RunInv, TrapInv, NEW c \in Coordinators, InForce(c), PassesStand(c), TaintOf(c),
           co[c].stop = "none"
    PROVE  NoneTainted
<1> SUFFICES ASSUME NEW t \in Tasks, Tainted(t) PROVE FALSE
  BY DEF NoneTainted
<1>1. PICK i \in DOMAIN co[c].passes : co[c].passes[i].task = t
  BY DEF TaintOf, SeenTaint
<1>2. decided[t].generation = generation
  BY <1>1 DEF PassesStand, PassStands
<1>3. PICK a \in trapped : a = decided[t].attempt
  BY DEF Tainted
<1>4. a # 0
  BY DEF TrapInv, Known, RunInv, JournalInv, JournalTypeOK
<1>5. attempts[a].generation = decided[t].generation
  BY <1>3, <1>4 DEF RunInv, JournalInv, DecisionHasEvidence
<1>6. Untrapped(c)
  BY DEF TaintOf, StopKept, InForce
<1>7. QED
  BY <1>2, <1>5, <1>6 DEF Untrapped, InForce

\* Nor is it when the window has passed.
LEMMA WindowNoTaint ==
    ASSUME RunInv, TrapInv, NEW c \in Coordinators, InForce(c), PassesStand(c), TaintOf(c),
           At(c, "window"), WindowOver(c)
    PROVE  NoneTainted
<1>1. CASE co[c].stop = "none"
  BY <1>1, NoStopNoTaint
<1>2. CASE co[c].stop # "none"
  <2> SUFFICES ASSUME NEW t \in Tasks, Tainted(t) PROVE FALSE
    BY DEF NoneTainted
  <2>1. PICK i \in DOMAIN co[c].passes :
            co[c].passes[i].attempt = decided[t].attempt /\ co[c].passes[i].at > co[c].began
    BY DEF TaintOf, SeenTaint, At
  <2>2. decided[t].attempt # 0
    BY DEF Tainted, TrapInv, Known, RunInv, JournalInv, JournalTypeOK
  <2>3. co[c].passes[i].at <= co[c].began
    BY <1>2, <2>1, <2>2 DEF WindowOver, AttemptPasses
  <2>4. co[c].passes[i].at \in Nat /\ co[c].began \in Nat
    BY TypeParts, PassFields DEF RunInv, CoOK, CoState
  <2>5. QED
    BY <2>1, <2>3, <2>4
<1>3. QED
  BY <1>1, <1>2

\* A run whose levels are all walked has every task decided.
LEMMA LevelsAreAll == LevelsUpTo(Len(Levels)) = Tasks
<1>1. DOMAIN Levels = 1 .. Len(Levels)
  BY GraphAssumption
<1>2. QED
  BY <1>1, GraphAssumption DEF LevelsUpTo

LEMMA LastLevel ==
    ASSUME CoOK, PlanInv, NEW c \in Coordinators, At(c, "level"), ~Flagged(c),
           ~(co[c].level < Len(Levels))
    PROVE  \A t \in Tasks : DecidedHere(c, t)
<1>1. co[c].level = Len(Levels)
  BY GraphAssumption DEF CoOK, CoState
<1>2. QED
  BY <1>1, LevelsAreAll DEF PlanInv, PlanOf, Progress

\* What a step leaves that neither decides nor ends anything.
LEMMA QuietTaints ==
    ASSUME NEW c \in Coordinators, TaintOf(c), StopKept(c)', UNCHANGED <<decided, trapped>>,
           KeepsPasses(c), co'[c].began = co[c].began, At(c, "withdrawing")' <=> At(c, "withdrawing"),
           \A t \in Tasks :
              \/ ~Noted(c, t)'
              \/ /\ Noted(c, t)
                 /\ thread'[c][t].attempt = thread[c][t].attempt
                 /\ thread'[c][t].at = thread[c][t].at
    PROVE  TaintOf(c)'
<1>1. ASSUME NEW t \in Tasks PROVE LateThread(c, t)'
  BY DEF TaintOf, LateThread
<1>2. ASSUME NEW t \in Tasks PROVE SeenTaint(c, t)'
  BY DEF TaintOf, SeenTaint, Tainted, StandsBeforeStop, KeepsPasses
<1>3. QED
  BY <1>1, <1>2 DEF TaintOf

LEMMA StopOn ==
    ASSUME TrapInv, NEW c \in Coordinators, StopKept(c), KeepsStop(c), now <= now',
           now \in Nat, now' \in Nat, co[c].began \in Nat,
           UNCHANGED trapped, co'[c].generation = co[c].generation,
           Owns(c)' => Owns(c),
           \A a \in DOMAIN attempts : attempts'[a].generation = attempts[a].generation,
           co'[c].pc \in Opening => co[c].pc \in Opening,
           At(c, "withdraw")' => co[c].stop = "stamped",
           At(c, "conclude")' => NoneTainted'
    PROVE  StopKept(c)'
<1>1. Untrapped(c) => Untrapped(c)'
  BY DEF Untrapped, TrapInv, Known
<1>2. QED
  BY <1>1 DEF StopKept, KeepsStop

\* Nobody has trapped anything of the generation a takeover opens.
LEMMA TakeOverStop ==
    ASSUME RunInv, TrapInv, NEW c \in Coordinators, StopKept(c), TakeOver(c), ~Gone(c)
    PROVE  StopKept(c)'
<1>1. CoOK /\ generation \in Nat
  BY TypeParts DEF RunInv, JournalInv, JournalTypeOK
<1>2. /\ KeepsStop(c) /\ UNCHANGED <<trapped, now>>
  BY <1>1, QuietKeeps DEF world
<1>3. co'[c].generation = co[c].generation + 1 /\ co'[c].pc = "losing"
  <2> DEFINE g == co[c].generation + 1
  <2> DEFINE r == [co[c] EXCEPT !.generation = g, !.pc = "losing"]
  <2>1. co' = [co EXCEPT ![c] = r]
    BY <1>1 DEF TakeOver, CoOK, CoState
  <2>2. r.pc = "losing" /\ r.generation = g
    BY <1>1 DEF CoOK, CoState
  <2> HIDE DEF r
  <2>3. co'[c] = r
    BY <1>1, <2>1, CoSet
  <2>4. QED
    BY <2>2, <2>3
<1>4. UNCHANGED attempts /\ co[c].generation = generation /\ At(c, "reopened")
  BY DEF TakeOver, Recorded, Resumed, Fenced
<1>5. \A a \in trapped : attempts[a].generation \in 1 .. generation
  BY DEF TrapInv, Known, RunInv, JournalInv, WellLinked
<1>6. Untrapped(c)'
  BY <1>1, <1>2, <1>3, <1>4, <1>5 DEF Untrapped
<1>7. QED
  BY <1>2, <1>3, <1>4, <1>6 DEF StopKept, KeepsStop, Opening, At

\* Where the steps before and between the levels lead.
LEMMA QuietGoes ==
    ASSUME RunInv, PlanInv, NEW c \in Coordinators, ~Gone(c),
           Detach(c) \/ Received(c) \/ (\E a \in AttemptIds : RecordLost(c, a))
           \/ TakenOver(c) \/ StartLevel(c) \/ StartThreads(c) \/ WaitOutWindow(c)
    PROVE  /\ co'[c].pc \in Opening => co[c].pc \in Opening
           /\ At(c, "withdraw")' => Flagged(c)
           /\ At(c, "conclude")' => At(c, "window") /\ WindowOver(c)
           /\ ~At(c, "reopened")
<1>1. CoOK /\ co[c] \in CoState
  BY TypeParts DEF RunInv, CoOK
<1>2. ASSUME NEW pc, Moved(c, pc) PROVE co'[c].pc = pc
  BY <1>1, <1>2, MovedFields
<1>3. CASE Detach(c) \/ \E a \in AttemptIds : RecordLost(c, a)
  BY <1>2, <1>3 DEF Detach, RecordLost, NotStarted, Opening, At
<1>4. CASE Received(c) \/ StartThreads(c) \/ WaitOutWindow(c)
  BY <1>2, <1>4 DEF Received, NotStarted, StartThreads, WaitOutWindow, Opening, At
<1>5. CASE TakenOver(c)
  BY <1>1, <1>5 DEF TakenOver, CoOK, CoState, Opening, At
<1>6. CASE StartLevel(c) /\ co[c].level < Len(Levels) /\ ~Flagged(c)
  <2> DEFINE r == [co[c] EXCEPT !.level = @ + 1, !.pos = 1, !.pc = "consider"]
  <2>1. co' = [co EXCEPT ![c] = r]
    BY <1>1, <1>6 DEF StartLevel, CoOK, CoState
  <2>2. r.pc = "consider"
    BY <1>1 DEF CoState
  <2> HIDE DEF r
  <2>3. co'[c] = r
    BY <1>1, <2>1, CoSet
  <2>4. QED
    BY <1>6, <2>2, <2>3 DEF StartLevel, Opening, At
<1>7. CASE StartLevel(c) /\ ~(co[c].level < Len(Levels) /\ ~Flagged(c))
  <2>1. co'[c].pc = IF ~Flagged(c) /\ \A t \in Tasks : DecidedHere(c, t)
                    THEN "window" ELSE "withdraw"
    BY <1>2, <1>7 DEF StartLevel
  <2>2. ~Flagged(c) => \A t \in Tasks : DecidedHere(c, t)
    BY <1>1, <1>7, LastLevel DEF StartLevel
  <2>3. QED
    BY <1>7, <2>1, <2>2 DEF StartLevel, Opening, At
<1>8. QED
  BY <1>3, <1>4, <1>5, <1>6, <1>7

LEMMA QuietMainTaints ==
    ASSUME RunInv, RunInv', PlanInv, TrapInv, JournalStep, NEW c \in Coordinators,
           ~At(c, "reopened") => InForce(c), InForce(c) => Work(c), TaintOf(c), ~Gone(c),
           Detach(c) \/ Received(c) \/ TakeOver(c) \/ (\E a \in AttemptIds : RecordLost(c, a))
           \/ TakenOver(c) \/ StartLevel(c) \/ StartThreads(c) \/ WaitOutWindow(c)
    PROVE  TaintOf(c)'
<1>1. /\ KeepsPasses(c) /\ KeepsStop(c)
      /\ UNCHANGED <<decided, thread, world>>
      /\ co[c].pc # "withdrawing" /\ co'[c].pc # "withdrawing"
  BY QuietKeeps
<1>2. CoOK /\ JournalInv /\ now \in Nat /\ co[c].began \in Nat
  BY TypeParts DEF RunInv, CoOK, CoState
<1>3. ASSUME TakeOver(c) PROVE StopKept(c)'
  BY <1>3, TakeOverStop DEF TaintOf
<1>4. ASSUME ~TakeOver(c) PROVE StopKept(c)'
  <2>1. /\ co'[c].pc \in Opening => co[c].pc \in Opening
        /\ At(c, "withdraw")' => Flagged(c)
        /\ At(c, "conclude")' => At(c, "window") /\ WindowOver(c)
        /\ ~At(c, "reopened")
    BY <1>4, QuietGoes
  <2>2. co'[c].generation = co[c].generation /\ (Owns(c)' <=> Owns(c))
    BY <2>1, MainEffect DEF MainStep, Walks, Leaves
  <2>3. At(c, "withdraw")' => co[c].stop = "stamped"
    BY <2>1 DEF TaintOf, StopKept, Flagged
  <2>4. At(c, "conclude")' => NoneTainted'
    <3>1. At(c, "conclude")' => NoneTainted
      BY <2>1, WindowNoTaint DEF Work
    <3>2. QED
      BY <1>1, <3>1 DEF NoneTainted, Tainted, world
  <2>5. \A a \in DOMAIN attempts : attempts'[a].generation = attempts[a].generation
    BY <1>2, JournalGrows
  <2>6. QED
    BY <1>1, <1>2, <2>1, <2>2, <2>3, <2>4, <2>5, StopOn DEF TaintOf, world
<1>5. StopKept(c)'
  BY <1>3, <1>4
<1>6. QED
  BY <1>1, <1>5, QuietTaints DEF At, Noted, KeepsStop, world

\* What a step leaves that adds to what this process decided.
LEMMA GrownTaints ==
    ASSUME NEW c \in Coordinators, TaintOf(c), StopKept(c)', UNCHANGED trapped,
           ~At(c, "withdrawing"), ~At(c, "withdrawing")', co'[c].began = co[c].began,
           \A i \in DOMAIN co[c].passes :
              i \in DOMAIN co'[c].passes /\ co'[c].passes[i] = co[c].passes[i],
           \A t \in Tasks : Tainted(t)' =>
              \/ Tainted(t) /\ decided'[t].attempt = decided[t].attempt
              \/ \E i \in DOMAIN co'[c].passes :
                    /\ co'[c].passes[i].task = t
                    /\ co'[c].passes[i].attempt = decided'[t].attempt
                    /\ co'[c].passes[i].at > co[c].began,
           \A t \in Tasks :
              \/ ~Noted(c, t)'
              \/ /\ Noted(c, t)
                 /\ thread'[c][t].attempt = thread[c][t].attempt
                 /\ thread'[c][t].at = thread[c][t].at
    PROVE  TaintOf(c)'
<1>1. ASSUME NEW t \in Tasks PROVE LateThread(c, t)'
  BY DEF TaintOf, LateThread
<1>2. ASSUME NEW t \in Tasks PROVE SeenTaint(c, t)'
  <2> SUFFICES ASSUME Tainted(t)'
               PROVE  \E i \in DOMAIN co'[c].passes :
                        /\ co'[c].passes[i].task = t
                        /\ co'[c].passes[i].attempt = decided'[t].attempt
                        /\ co'[c].passes[i].at > co'[c].began
    BY DEF SeenTaint
  <2>1. CASE Tainted(t) /\ decided'[t].attempt = decided[t].attempt
    <3>1. PICK i \in DOMAIN co[c].passes :
              /\ co[c].passes[i].task = t
              /\ co[c].passes[i].attempt = decided[t].attempt
              /\ co[c].passes[i].at > co[c].began
      BY <2>1 DEF TaintOf, SeenTaint
    <3>2. QED
      BY <2>1, <3>1
  <2>2. QED
    BY <2>1
<1>3. QED
  BY <1>1, <1>2 DEF TaintOf

\* What a coordinator decides without an attempt no stop taints.
LEMMA ConsiderGrows ==
    ASSUME RunInv, NEW c \in Coordinators, Orderly(c), NotRefused(c), "write" \notin Events,
           Consider(c)
    PROVE  /\ KeepsStop(c) /\ co'[c].pc = "consider"
           /\ \A i \in DOMAIN co[c].passes :
                i \in DOMAIN co'[c].passes /\ co'[c].passes[i] = co[c].passes[i]
           /\ \A t \in Tasks : decided'[t] = decided[t] \/ decided'[t].outcome # "passed"
<1>1. CoOK /\ At(c, "consider") /\ Considered(c) \in Tasks /\ co[c] \in CoState
      /\ decided \in [Tasks -> Decision] /\ co[c].passes \in Seq(Pass)
  BY TypeParts, ConsideredIsTask
     DEF RunInv, Consider, CoOK, JournalInv, JournalTypeOK, CoState
<1>2. PICK t \in Tasks : t = Considered(c)
  BY <1>1
<1>3. ~DecidedHere(c, t) =>
          /\ ~NotRecorded(c, AcceptsReused(t, co[c].generation), Reused(t, co[c].generation))
          /\ \A o \in {"blocked", "errored"} :
               ~NotRecorded(c, AcceptsSettled(t, co[c].generation, o),
                            Settled(t, co[c].generation, o))
  BY <1>1 DEF NotRefused, NotRecorded, Orderly, AcceptsReused, AcceptsSettled
<1>4. CASE co' = [co EXCEPT ![c].pos = @ + 1] /\ UNCHANGED journal
  BY <1>1, <1>4, PassesOverFields DEF KeepsPasses, journal, At
<1>5. ASSUME NEW o \in {"blocked", "errored"}, Decides(c, t, o), Settled(t, co[c].generation, o)
      PROVE  /\ KeepsStop(c) /\ co'[c].pc = "consider" /\ co'[c].passes = co[c].passes
             /\ \A u \in Tasks : decided'[u] = decided[u] \/ decided'[u].outcome # "passed"
  <2>1. KeepsStop(c) /\ co'[c].pc = "consider" /\ co'[c].passes = co[c].passes
    BY <1>1, <1>5, DecidesFields DEF KeepsPasses, At
  <2> DEFINE r == [outcome |-> o, attempt |-> 0, generation |-> co[c].generation]
  <2>2. decided' = [decided EXCEPT ![t] = r] /\ r.outcome # "passed"
    BY <1>5 DEF Settled
  <2> HIDE DEF r
  <2>3. QED
    BY <1>1, <2>1, <2>2
<1>6. ASSUME Reused(t, co[c].generation),
             co' = [co EXCEPT ![c].decided[t] = "cached", ![c].pos = @ + 1,
                           ![c].passes = Append(@, [task |-> t, attempt |-> 0, at |-> now])]
      PROVE  /\ KeepsStop(c) /\ co'[c].pc = "consider"
             /\ \A i \in DOMAIN co[c].passes :
                  i \in DOMAIN co'[c].passes /\ co'[c].passes[i] = co[c].passes[i]
             /\ \A u \in Tasks : decided'[u] = decided[u] \/ decided'[u].outcome # "passed"
  <2> DEFINE p == [task |-> t, attempt |-> 0, at |-> now]
  <2> DEFINE r == [outcome |-> "cached", attempt |-> 0, generation |-> co[c].generation]
  <2>1. KeepsStop(c) /\ co'[c].pc = "consider" /\ co'[c].passes = Append(co[c].passes, p)
    BY <1>1, <1>6, ReuseFields DEF At
  <2>2. decided' = [decided EXCEPT ![t] = r] /\ r.outcome # "passed"
    BY <1>6 DEF Reused
  <2> HIDE DEF r, p
  <2>3. \A i \in DOMAIN co[c].passes :
            i \in DOMAIN co'[c].passes /\ co'[c].passes[i] = co[c].passes[i]
    BY <1>1, <2>1
  <2>4. QED
    BY <1>1, <2>1, <2>2, <2>3
<1>7. QED
  <2>1. CASE DecidedHere(c, t)
    BY <1>2, <1>4, <2>1 DEF Consider, Considered
  <2>2. CASE ~DecidedHere(c, t) /\ DependencyFailed(c, t)
    BY <1>2, <1>3, <1>5, <2>2 DEF Consider, Considered, SettleAs, Recorded
  <2>3. CASE ~DecidedHere(c, t) /\ ~DependencyFailed(c, t)
    BY <1>2, <1>3, <1>4, <1>5, <1>6, <2>3 DEF Consider, Considered, SettleAs, Reuse, Recorded
  <2>4. QED
    BY <2>1, <2>2, <2>3

LEMMA ConsiderTaints ==
    ASSUME RunInv, RunInv', TrapInv, JournalStep, NEW c \in Coordinators, Orderly(c),
           NotRefused(c), "write" \notin Events, TaintOf(c), Consider(c)
    PROVE  TaintOf(c)'
<1>1. /\ KeepsStop(c) /\ co'[c].pc = "consider"
      /\ \A i \in DOMAIN co[c].passes :
           i \in DOMAIN co'[c].passes /\ co'[c].passes[i] = co[c].passes[i]
      /\ \A t \in Tasks : decided'[t] = decided[t] \/ decided'[t].outcome # "passed"
  BY ConsiderGrows
<1>2. Walks(c) /\ At(c, "consider")
  BY ConsiderWalks DEF Consider
<1>3. UNCHANGED <<trapped, now>> /\ co'[c].generation = co[c].generation /\ (Owns(c)' <=> Owns(c))
  BY <1>2 DEF Walks, At, world
<1>4. JournalInv /\ now \in Nat /\ co[c].began \in Nat
  BY TypeParts DEF RunInv, CoOK, CoState
<1>5. \A a \in DOMAIN attempts : attempts'[a].generation = attempts[a].generation
  BY <1>4, JournalGrows
<1>6. StopKept(c)'
  BY <1>1, <1>3, <1>4, <1>5, StopOn DEF TaintOf, Opening, At
<1>7. \A t \in Tasks : Tainted(t)' => Tainted(t) /\ decided'[t].attempt = decided[t].attempt
  BY <1>1, <1>3 DEF Tainted
<1>8. \A t \in Tasks :
         \/ ~Noted(c, t)'
         \/ /\ Noted(c, t)
            /\ thread'[c][t].attempt = thread[c][t].attempt
            /\ thread'[c][t].at = thread[c][t].at
  BY <1>2 DEF Walks, Noted
<1>9. QED
  BY <1>1, <1>2, <1>3, <1>6, <1>7, <1>8, GrownTaints DEF KeepsStop, At

LEMMA JoinTaints ==
    ASSUME RunInv, TrapInv, NEW c \in Coordinators, TaintOf(c), Join(c), ~Gone(c)
    PROVE  TaintOf(c)'
<1>1. CoOK /\ At(c, "threads") /\ UNCHANGED <<attempts, decided, trapped, now>>
      /\ now \in Nat /\ co[c].began \in Nat
  BY TypeParts DEF RunInv, Join, journal, world, CoOK, CoState
<1>2. /\ co'[c].pc = "level" /\ co'[c].generation = co[c].generation
      /\ KeepsPasses(c) /\ KeepsStop(c)
      /\ \A t \in Tasks : thread'[c][t].st = "none"
  BY <1>1, JoinedFields DEF KeepsSelf
<1>3. StopKept(c)'
  BY <1>1, <1>2, StopOn DEF TaintOf, Opening, Owns, At
<1>4. QED
  BY <1>1, <1>2, <1>3, QuietTaints DEF KeepsStop, Noted, At

\* Every tainted pass is past the cutoff, whatever the cutoff was.
LEMMA BeginWithdrawTaints ==
    ASSUME RunInv, TrapInv, NEW c \in Coordinators, TaintOf(c), BeginWithdraw(c)
    PROVE  TaintOf(c)'
<1>1. CoOK /\ At(c, "withdraw") /\ UNCHANGED <<attempts, decided, thread, trapped, now>>
      /\ now \in Nat /\ co[c].began \in Nat
  BY TypeParts DEF RunInv, BeginWithdraw, journal, world, CoOK, CoState
<1>2. co'[c].pc = "withdrawing" /\ co'[c].generation = co[c].generation /\ KeepsStop(c)
  BY <1>1, BeginWithdrawFields DEF KeepsSelf
<1>3. StopKept(c)'
  BY <1>1, <1>2, StopOn DEF TaintOf, Opening, Owns, At
<1>4. ASSUME NEW t \in Tasks, Tainted(t)
      PROVE  \E i \in DOMAIN co[c].passes :
                /\ co[c].passes[i].task = t
                /\ co[c].passes[i].attempt = decided[t].attempt
                /\ \A cutoff \in 1 .. co[c].began + 1 :
                      co[c].passes[i].at \in LateEnds(c, cutoff)
  <2>1. PICK i \in DOMAIN co[c].passes :
            /\ co[c].passes[i].task = t
            /\ co[c].passes[i].attempt = decided[t].attempt
            /\ co[c].passes[i].at > co[c].began
    BY <1>1, <1>4 DEF TaintOf, SeenTaint, At
  <2>2. co[c].passes[i].attempt # 0
    BY <1>4, <2>1 DEF Tainted, TrapInv, Known, RunInv, JournalInv, JournalTypeOK
  <2>3. co[c].passes[i].at \in Nat
    BY <1>1, PassFields
  <2>4. \A cutoff \in 1 .. co[c].began + 1 : co[c].passes[i].at >= cutoff
    BY <1>1, <2>1, <2>3
  <2>5. QED
    BY <2>1, <2>2, <2>4 DEF LateEnds, AttemptPasses
<1>5. co[c].stop = "stamped"
  BY <1>1 DEF TaintOf, StopKept
<1>6. CASE co'[c].passes = << >>
  <2>1. NoneTainted
    <3> SUFFICES ASSUME NEW t \in Tasks, Tainted(t) PROVE FALSE
      BY DEF NoneTainted
    <3>1. PICK i \in DOMAIN co[c].passes :
              \A cutoff \in 1 .. co[c].began + 1 : co[c].passes[i].at \in LateEnds(c, cutoff)
      BY <1>4
    <3>2. co[c].passes # << >>
      BY <3>1
    <3>3. PICK cutoff \in 1 .. co[c].began + 1 : LateEnds(c, cutoff) = {}
      BY <1>5, <1>6, <3>2, BeginWithdrawFirst
    <3>4. QED
      BY <3>1, <3>3
  <2>2. QED
    BY <1>1, <1>2, <1>3, <2>1
       DEF TaintOf, LateThread, Noted, SeenTaint, NoneTainted, Tainted, KeepsStop
<1>7. CASE co'[c].passes # << >>
  <2>1. /\ co'[c].first \in Nat /\ co'[c].passes = co[c].passes
        /\ \E cutoff \in 1 .. co[c].began + 1 :
              \A at \in LateEnds(c, cutoff) : co'[c].first <= at
    BY <1>7, BeginWithdrawFirst
  <2>2. ASSUME NEW t \in Tasks PROVE SeenTaint(c, t)'
    <3> SUFFICES ASSUME Tainted(t)
                 PROVE  \E i \in DOMAIN co'[c].passes :
                          /\ co'[c].passes[i].task = t
                          /\ co'[c].passes[i].attempt = decided[t].attempt
                          /\ ~(co'[c].passes[i].at < co'[c].first)
      BY <1>1, <1>2 DEF SeenTaint, Tainted, StandsBeforeStop, At
    <3>1. PICK i \in DOMAIN co[c].passes :
                /\ co[c].passes[i].task = t
                /\ co[c].passes[i].attempt = decided[t].attempt
                /\ \A cutoff \in 1 .. co[c].began + 1 :
                      co[c].passes[i].at \in LateEnds(c, cutoff)
      BY <1>4
    <3>2. co[c].passes[i].at \in Nat /\ co'[c].first <= co[c].passes[i].at
      BY <1>1, <2>1, <3>1, PassFields
    <3>3. ~(co[c].passes[i].at < co'[c].first)
      BY <2>1, <3>2
    <3>4. QED
      BY <2>1, <3>1, <3>3
  <2>3. ASSUME NEW t \in Tasks PROVE LateThread(c, t)'
    BY <1>1, <1>2 DEF TaintOf, LateThread, Noted, KeepsStop
  <2>4. QED
    BY <1>3, <2>2, <2>3 DEF TaintOf
<1>8. QED
  BY <1>6, <1>7

\* A pass that is taken is tainted no more; the others are still named.
LEMMA WithdrawNextTaints ==
    ASSUME RunInv, TrapInv, JournalStep, NEW c \in Coordinators, Orderly(c), NotRefused(c),
           "write" \notin Events, TaintOf(c), WithdrawNext(c)
    PROVE  TaintOf(c)'
<1> DEFINE q == co[c].passes
<1> DEFINE p == Head(q)
<1>1. CoOK /\ At(c, "withdrawing") /\ q # << >> /\ q \in Seq(Pass)
      /\ decided \in [Tasks -> Decision] /\ co[c].began \in Nat /\ now \in Nat
  BY TypeParts DEF RunInv, CoOK, CoState, WithdrawNext, JournalInv, JournalTypeOK
<1>2. co' = [co EXCEPT ![c].passes = Tail(@)] /\ UNCHANGED <<thread, trapped, now>>
  BY DEF WithdrawNext, NotRefused, NotRecorded, Orderly, world
<1>3. co'[c].passes = Tail(q) /\ co'[c].first = co[c].first /\ co'[c].pc = "withdrawing"
      /\ co'[c].generation = co[c].generation /\ KeepsStop(c)
  BY <1>1, <1>2, WithdrawNextFields DEF KeepsSelf, At
<1>4. p = q[1] /\ 1 \in DOMAIN q /\ p \in Pass
  BY <1>1
<1>5. DOMAIN Tail(q) = 1 .. Len(q) - 1 /\ DOMAIN q = 1 .. Len(q) /\ Len(q) \in Nat
      /\ \A i \in 1 .. Len(q) - 1 : Tail(q)[i] = q[i + 1]
  BY <1>1
<1>6. ~StandsBeforeStop(c, p) =>
        p.task \in Tasks /\ decided' = [decided EXCEPT ![p.task] = Undecided]
  BY <1>2, <1>4 DEF WithdrawNext, NotRefused, NotRecorded, Orderly, Recorded, Withdrawn, Pass
<1>7. StandsBeforeStop(c, p) => UNCHANGED decided
  BY <1>2 DEF WithdrawNext, journal
<1>8. \A a \in DOMAIN attempts : attempts'[a].generation = attempts[a].generation
  BY JournalGrows DEF RunInv
<1> HIDE DEF p, q
<1>9. ASSUME NEW t \in Tasks, Tainted(t)'
      PROVE  Tainted(t) /\ decided'[t] = decided[t] /\ (t # p.task \/ StandsBeforeStop(c, p))
  BY <1>1, <1>2, <1>6, <1>7, <1>9 DEF Tainted, Undecided
<1>10. ASSUME NEW t \in Tasks PROVE SeenTaint(c, t)'
  <2> SUFFICES ASSUME Tainted(t)'
               PROVE  \E i \in DOMAIN co'[c].passes :
                        /\ co'[c].passes[i].task = t
                        /\ co'[c].passes[i].attempt = decided[t].attempt
                        /\ ~(co'[c].passes[i].at < co[c].first)
    BY <1>3, <1>9 DEF SeenTaint, StandsBeforeStop, At
  <2>1. PICK i \in DOMAIN q :
            /\ q[i].task = t
            /\ q[i].attempt = decided[t].attempt
            /\ ~StandsBeforeStop(c, q[i])
    BY <1>1, <1>9 DEF TaintOf, SeenTaint, q
  <2>2. i # 1
    BY <1>4, <1>9, <2>1
  <2>3. PICK j \in 1 .. Len(q) - 1 : i = j + 1
    <3>1. i \in 1 .. Len(q) /\ Len(q) \in Nat
      BY <1>5
    <3>2. i - 1 \in 1 .. Len(q) - 1 /\ i = (i - 1) + 1
      BY <2>2, <3>1
    <3>3. QED
      BY <3>2
  <2>4. j \in DOMAIN co'[c].passes /\ co'[c].passes[j] = q[i]
    BY <1>3, <1>5, <2>3
  <2>5. QED
    BY <2>1, <2>4 DEF StandsBeforeStop
<1>11. ASSUME NEW t \in Tasks PROVE LateThread(c, t)'
  BY <1>2, <1>3 DEF TaintOf, LateThread, Noted, KeepsStop
<1>12. StopKept(c)'
  BY <1>1, <1>2, <1>3, <1>8, StopOn DEF TaintOf, Opening, Owns, At
<1>13. QED
  BY <1>10, <1>11, <1>12 DEF TaintOf

\* Nothing tainted is left by a process that may leave.
LEMMA LeaveTaints ==
    ASSUME RunInv, OwnerInv, TrapInv, WorkInv, NEW c \in Coordinators, Orderly(c), NotRefused(c),
           ~At(c, "reopened") /\ ~Off(c) => InForce(c),
           InForce(c) => Work(c), "write" \notin Events, TaintOf(c), Gone(c),
           MainStep(c) \/ Decline(c)
    PROVE  NoneTainted'
<1>1. UNCHANGED <<decided, trapped>> /\ ~WithdrawNext(c) /\ ~Consider(c)
  BY LeaveDecides, MainEffect DEF Leaves, Walks, world
<1>2. CoOK /\ co'[c].pc = "gone"
  BY TypeParts, GoneFields DEF RunInv
<1>3. ASSUME NEW pc, Moved(c, pc) PROVE pc = "gone"
  BY <1>2, <1>3, MovedFields
<1>4. ~StartLevel(c) /\ ~StartThreads(c) /\ ~TakenOver(c)
  BY <1>2, TakenOverEffect, StartLevelEffect DEF Walks, Off
<1>5. ~Join(c)
  <2> SUFFICES ASSUME Join(c) PROVE FALSE
    OBVIOUS
  <2>1. co' = [co EXCEPT ![c].pc = "level", ![c].pos = 0,
                  ![c].decided = [t \in Tasks |->
                     IF thread[c][t].st = "done" THEN thread[c][t].outcome ELSE @[t]]]
    BY DEF Join, Orderly
  <2>2. co'[c].pc = "level"
    BY <1>2, <2>1 DEF CoOK, CoState
  <2>3. QED
    BY <1>2, <2>2
<1>6. ~WaitOutWindow(c) /\ ~BeginWithdraw(c)
  BY <1>2, <1>3, BeginWithdrawFields DEF WaitOutWindow
<1>7. NoneTainted
  <2>1. ASSUME co[c].passes = << >> PROVE NoneTainted
    <3>1. DOMAIN co[c].passes = {}
      BY <2>1
    <3>2. QED
      BY <3>1 DEF TaintOf, SeenTaint, NoneTainted
  <2>2. CASE Detach(c) \/ Received(c) \/ \E a \in AttemptIds : RecordLost(c, a)
    <3>1. co[c].pc \in {"detach", "received", "losing"}
      BY <2>2 DEF Detach, Received, RecordLost, At
    <3>2. InForce(c) /\ co[c].stop = "none"
      BY <3>1 DEF TaintOf, StopKept, Opening, Off, At
    <3>3. QED
      BY <3>2, NoStopNoTaint DEF Work
  <2>3. CASE TakeOver(c) \/ Decline(c)
    <3>1. At(c, "reopened")
      BY <2>3 DEF TakeOver, Decline
    <3>2. QED
      BY <2>1, <3>1 DEF WorkInv, At
  <2>4. CASE RecordStop(c)
    BY <2>1, <2>4 DEF RecordStop, At
  <2>5. CASE RecordConclusion(c)
    BY <2>5 DEF RecordConclusion, TaintOf, StopKept
  <2>6. QED
    BY <1>1, <1>4, <1>5, <1>6, <2>2, <2>3, <2>4, <2>5 DEF MainStep
<1>8. QED
  BY <1>1, <1>7 DEF NoneTainted, Tainted

LEMMA MainTaints ==
    ASSUME RunInv, RunInv', OwnerInv, PlanInv, WorkInv, TrapInv, JournalStep,
           NEW c \in Coordinators, Orderly(c), NotRefused(c), InForce(c) => Work(c),
           ~At(c, "reopened") => InForce(c), "write" \notin Events, TaintOf(c), MainStep(c)
    PROVE  TaintsWell(c)
<1>1. CASE Gone(c)
  <2>1. co'[c].pc = "gone"
    BY <1>1, TypeParts, GoneFields DEF RunInv
  <2>2. NoneTainted'
    BY <1>1, LeaveTaints
  <2>3. QED
    BY <2>1, <2>2 DEF TaintsWell, Off
<1>2. CASE ~Gone(c)
  <2>1. ~Off(c)'
    BY <1>2, OffIsGone DEF Moves
  <2>2. ~RecordStop(c) /\ ~RecordConclusion(c)
    BY <1>2 DEF RecordStop, RecordConclusion
  <2>3. TaintOf(c)'
    <3>1. CASE Detach(c) \/ Received(c) \/ TakeOver(c) \/ (\E a \in AttemptIds : RecordLost(c, a))
               \/ TakenOver(c) \/ StartLevel(c) \/ StartThreads(c) \/ WaitOutWindow(c)
      BY <1>2, <3>1, QuietMainTaints
    <3>2. CASE Consider(c)
      BY <3>2, ConsiderTaints
    <3>3. CASE Join(c)
      BY <1>2, <3>3, JoinTaints
    <3>4. CASE BeginWithdraw(c)
      BY <3>4, BeginWithdrawTaints
    <3>5. CASE WithdrawNext(c)
      BY <3>5, WithdrawNextTaints
    <3>6. QED
      BY <2>2, <3>1, <3>2, <3>3, <3>4, <3>5 DEF MainStep
  <2>4. QED
    BY <2>1, <2>3 DEF TaintsWell
<1>3. QED
  BY <1>1, <1>2

\* When a stop begins there is nothing it can have tainted yet.
LEMMA StopBeginsTaints ==
    ASSUME RunInv, OwnerInv, TrapInv, NEW c \in Coordinators, InForce(c), Work(c), TaintOf(c),
           StopBegins(c)
    PROVE  TaintOf(c)'
<1> DEFINE r == [co[c] EXCEPT !.stop = "begun", !.began = now]
<1>1. CoOK /\ co[c] \in CoState /\ now \in Nat
  BY TypeParts DEF RunInv, CoOK
<1>2. co' = [co EXCEPT ![c] = r]
  BY <1>1 DEF StopBegins, CoOK, CoState
<1>3. r.stop = "begun" /\ r.began = now /\ r.pc = co[c].pc
  BY <1>1 DEF CoState
<1> HIDE DEF r
<1>4. co'[c] = r
  BY <1>1, <1>2, CoSet
<1>5. co[c].pc \in Executing /\ co[c].stop = "none"
      /\ UNCHANGED <<decided, thread, trapped, now>>
  BY DEF StopBegins, journal, world
<1>6. NoneTainted
  BY <1>5, NoStopNoTaint DEF Work
<1>7. StopKept(c)'
  BY <1>1, <1>3, <1>4, <1>5 DEF StopKept, Executing, Opening, At
<1>8. ASSUME NEW t \in Tasks PROVE ~(Noted(c, t) /\ thread[c][t].attempt \in trapped)
  <2>1. Untrapped(c)
    BY <1>5 DEF TaintOf, StopKept, InForce
  <2>2. Noted(c, t) => attempts[thread[c][t].attempt].generation = co[c].generation
    BY DEF Noted, OwnerInv, ThreadsRun, HeldOwn, Holding
  <2>3. QED
    BY <2>1, <2>2 DEF Untrapped
<1>9. QED
  BY <1>5, <1>6, <1>7, <1>8
     DEF TaintOf, LateThread, Noted, SeenTaint, NoneTainted, Tainted

LEMMA HandlerTaints ==
    ASSUME RunInv, NEW c \in Coordinators, TaintOf(c), "torn" \notin Events, HandlerRuns(c)
    PROVE  TaintOf(c)'
<1> DEFINE r == [co[c] EXCEPT !.stop = "stamped"]
<1>1. CoOK /\ co[c] \in CoState /\ now \in Nat
  BY TypeParts DEF RunInv, CoOK
<1>2. co[c].stop = "begun" /\ co' = [co EXCEPT ![c] = r]
  BY <1>1 DEF HandlerRuns, TaintOf, StopKept, CoOK, CoState
<1>3. /\ r.stop = "stamped" /\ r.began = co[c].began /\ r.pc = co[c].pc
      /\ r.passes = co[c].passes /\ r.first = co[c].first
  BY <1>1 DEF CoState
<1> HIDE DEF r
<1>4. co'[c] = r
  BY <1>1, <1>2, CoSet
<1>5. UNCHANGED <<decided, thread, trapped, now>>
  BY DEF HandlerRuns, journal, world
<1>6. StopKept(c)'
  BY <1>2, <1>3, <1>4, <1>5 DEF TaintOf, StopKept, NoneTainted, Tainted, At
<1>7. QED
  BY <1>3, <1>4, <1>5, <1>6, QuietTaints DEF KeepsPasses, Noted, At

LEMMA SignalTaints ==
    ASSUME RunInv, OwnerInv, TrapInv, NEW c \in Coordinators, ~At(c, "reopened") => InForce(c),
           InForce(c) => Work(c), TaintOf(c), "torn" \notin Events,
           StopBegins(c) \/ HandlerRuns(c)
    PROVE  TaintsWell(c)
<1>1. TaintOf(c)'
  <2>1. CASE StopBegins(c)
    BY <2>1, StopBeginsTaints DEF StopBegins, Executing, At
  <2>2. CASE HandlerRuns(c)
    BY <2>2, HandlerTaints
  <2>3. QED
    BY <2>1, <2>2
<1>2. ~Off(c)'
  BY SignalEffect DEF Walks
<1>3. QED
  BY <1>1, <1>2 DEF TaintsWell

\* A process that comes has had no stop, and is not past the opening steps.
LEMMA ArrivalTaints ==
    ASSUME RunInv, OwnerInv, TrapInv, NEW c \in Coordinators, "write" \notin Events, NoneTainted,
           Create(c) \/ \E assume \in BOOLEAN : Reopen(c, assume)
    PROVE  TaintsWell(c)
<1>1. CoOK /\ co[c].pc = "unborn" /\ UNCHANGED <<attempts, decided, thread, trapped, now>>
      /\ now \in Nat
  BY TypeParts DEF RunInv, Create, Reopen, IsNext, Requested, journal, world
<1>2. \A t \in Tasks : thread'[c][t].st = "none"
  BY <1>1, IdleThreads
<1>3. NoneTainted'
  BY <1>1 DEF NoneTainted, Tainted
<1>4. CASE Create(c)
  <2>1. PICK pc \in {"level", "detach"} : Begin(c, 1, pc)
    BY <1>4 DEF Create
  <2> DEFINE r == [Unborn EXCEPT !.pc = pc, !.generation = 1]
  <2>2. r.pc = pc /\ r.stop = "none" /\ r.began = 0
    BY DEF Unborn
  <2>3. co' = [co EXCEPT ![c] = r]
    BY <2>1 DEF Begin
  <2> HIDE DEF r
  <2>4. co'[c] = r
    BY <1>1, <2>3, CoSet
  <2>5. trapped' = {}
    <3>1. generation = 0
      BY <1>4 DEF Create, AcceptsRequested
    <3>2. \A a \in DOMAIN attempts : attempts[a].generation \in 1 .. generation
      BY DEF RunInv, JournalInv, WellLinked
    <3>3. QED
      BY <1>1, <3>1, <3>2 DEF TrapInv, Known
  <2>6. StopKept(c)'
    BY <1>1, <2>2, <2>4, <2>5 DEF StopKept, Untrapped, At
  <2>7. QED
    BY <1>2, <1>3, <2>2, <2>4, <2>6, CleanTaints DEF TaintsWell, Off
<1>5. CASE \E assume \in BOOLEAN : Reopen(c, assume)
  <2> DEFINE r == [Unborn EXCEPT !.pc = "reopened", !.generation = generation,
                                 !.assumed = {a \in OpenAttempts : GroupExists(a)}]
  <2>1. co' = [co EXCEPT ![c] = r]
    BY <1>5 DEF Reopen
  <2>2. r.pc = "reopened" /\ r.stop = "none" /\ r.began = 0
    BY DEF Unborn
  <2> HIDE DEF r
  <2>3. co'[c] = r
    BY <1>1, <2>1, CoSet
  <2>4. StopKept(c)'
    BY <1>1, <2>2, <2>3 DEF StopKept, Owns, At
  <2>5. QED
    BY <1>2, <1>3, <2>2, <2>3, <2>4, CleanTaints DEF TaintsWell, Off
<1>6. QED
  BY <1>4, <1>5

LEMMA ThreadStop ==
    ASSUME RunInv, TrapInv, JournalStep, NEW c \in Coordinators, NEW t \in Tasks, TaintOf(c),
           ThreadStep(c, t)
    PROVE  StopKept(c)'
<1>1. WorksOn(c, t) /\ KeepsStop(c)
  BY ThreadEffect, ThreadTurn
<1>2. JournalInv /\ now \in Nat /\ now' \in Nat /\ now <= now' /\ co[c].began \in Nat
  <2>1. JournalInv /\ now \in Nat /\ co[c].began \in Nat
    BY TypeParts DEF RunInv, CoOK, CoState
  <2>2. now' = now \/ now' = now + 1
    BY DEF ThreadStep, Dispatch, Launch, RecordStart, Observe, Judge, RecordFinish,
       RecordInterrupt, world
  <2>3. QED
    BY <2>1, <2>2
<1>3. \A a \in DOMAIN attempts : attempts'[a].generation = attempts[a].generation
  BY <1>2, JournalGrows
<1>4. co[c].pc = "threads" /\ co'[c].pc = "threads" /\ (Owns(c)' => Owns(c))
      /\ co'[c].generation = co[c].generation /\ UNCHANGED trapped
  BY <1>1 DEF WorksOn, At, Owns
<1>5. QED
  BY <1>1, <1>2, <1>3, <1>4, StopOn DEF TaintOf, Opening, At

\* What a thread noted stays, unless it has come to its next attempt.
LEMMA NotedStays ==
    ASSUME RunInv, NEW c \in Coordinators, NEW t \in Tasks, Orderly(c), NotRefused(c),
           "write" \notin Events,
           Dispatch(c, t) \/ Launch(c, t) \/ RecordStart(c, t) \/ Judge(c, t)
           \/ RecordInterrupt(c, t)
    PROVE  \/ ~Noted(c, t)'
           \/ /\ Noted(c, t)
              /\ thread'[c][t].attempt = thread[c][t].attempt
              /\ thread'[c][t].at = thread[c][t].at
<1>1. CoOK /\ ~Fenced(c) /\ At(c, "threads")
  BY TypeParts DEF RunInv, Orderly, Dispatch, Launch, RecordStart, Judge, RecordInterrupt, Running
<1>2. ASSUME NEW st \in {"spawned", "running", "stopping", "interrupted"}, Stepped(c, t, st)
      PROVE  ~Noted(c, t)'
  BY <1>1, <1>2, SteppedFields DEF Noted
<1>3. ASSUME NEW o, thread' = [thread EXCEPT ![c][t].st = "judged", ![c][t].outcome = o]
      PROVE  /\ thread'[c][t].st = "judged" /\ thread'[c][t].outcome = o
             /\ thread'[c][t].attempt = thread[c][t].attempt
             /\ thread'[c][t].at = thread[c][t].at
  <2>1. /\ thread'[c][t].st = "judged"
        /\ thread'[c][t].outcome = o
        /\ thread'[c][t].attempt = thread[c][t].attempt
        /\ thread'[c][t].at = thread[c][t].at
        /\ \A u \in Tasks : u # t => thread'[c][u] = thread[c][u]
        /\ \A d \in Coordinators : d # c => thread'[d] = thread[d]
    BY <1>1, <1>3, JudgedFields
  <2>2. QED
    BY <2>1
<1>4. CASE Dispatch(c, t)
  <2>1. thread' = [thread EXCEPT ![c][t].st = "dispatched", ![c][t].attempt = Len(attempts) + 1]
    BY <1>1, <1>4 DEF Dispatch, NotRefused, Running, ThreadFails, NotRecorded
  <2>2. /\ thread'[c][t].st = "dispatched"
        /\ thread'[c][t].attempt = Len(attempts) + 1
        /\ \A u \in Tasks : u # t => thread'[c][u] = thread[c][u]
        /\ \A d \in Coordinators : d # c => thread'[d] = thread[d]
    BY <1>1, <2>1, DispatchedFields
  <2>3. QED
    BY <2>2 DEF Noted
<1>5. CASE Launch(c, t)
  <2> DEFINE o == "errored"
  <2>1. o # "passed"
    OBVIOUS
  <2>2. Stepped(c, t, "spawned")
        \/ thread' = [thread EXCEPT ![c][t].st = "judged", ![c][t].outcome = o]
    BY <1>5 DEF Launch
  <2> HIDE DEF o
  <2>3. QED
    BY <1>2, <1>3, <2>1, <2>2 DEF Noted
<1>6. CASE RecordStart(c, t) \/ RecordInterrupt(c, t)
  <2>1. Stepped(c, t, "running") \/ Stepped(c, t, "interrupted")
    BY <1>1, <1>6 DEF RecordStart, RecordInterrupt, NotRefused, Running, ThreadFails, NotRecorded
  <2>2. QED
    BY <1>2, <2>1
<1>7. CASE Judge(c, t)
  <2>1. CASE Flagged(c)
    BY <1>2, <1>7, <2>1 DEF Judge
  <2>2. CASE ~Flagged(c)
    <3>1. PICK o : thread' = [thread EXCEPT ![c][t].st = "judged", ![c][t].outcome = o]
      BY <1>7, <2>2 DEF Judge
    <3>2. Noted(c, t)
      BY <1>7 DEF Judge, Running, Noted
    <3>3. QED
      BY <1>3, <3>1, <3>2
  <2>3. QED
    BY <2>1, <2>2
<1>8. QED
  BY <1>4, <1>5, <1>6, <1>7

LEMMA QuietThreadTaints ==
    ASSUME RunInv, TrapInv, JournalStep, NEW c \in Coordinators, NEW t \in Tasks, Orderly(c),
           NotRefused(c), "write" \notin Events, TaintOf(c),
           Dispatch(c, t) \/ Launch(c, t) \/ RecordStart(c, t) \/ Judge(c, t)
           \/ RecordInterrupt(c, t)
    PROVE  TaintOf(c)'
<1>1. CoOK /\ WorksOn(c, t) /\ KeepsStop(c) /\ StopKept(c)' /\ ~Fenced(c)
  BY TypeParts, ThreadEffect, ThreadTurn, ThreadStop DEF RunInv, ThreadStep, Orderly
<1>2. UNCHANGED <<decided, co>>
  BY <1>1 DEF Dispatch, Launch, RecordStart, Judge, RecordInterrupt, ThreadFails, NotRecorded,
     NotRefused, Recorded, Running, Dispatched, Started, Interrupted, journal
<1>3. \A u \in Tasks :
         \/ ~Noted(c, u)'
         \/ /\ Noted(c, u)
            /\ thread'[c][u].attempt = thread[c][u].attempt
            /\ thread'[c][u].at = thread[c][u].at
  <2>1. \A u \in Tasks : u # t => thread'[c][u] = thread[c][u]
    BY <1>1 DEF WorksOn
  <2>2. QED
    BY <2>1, NotedStays DEF Noted
<1>4. QED
  BY <1>1, <1>2, <1>3, QuietTaints DEF WorksOn, KeepsPasses, At

\* An exit a stop has caused comes after the stop began.
LEMMA ObserveTaints ==
    ASSUME RunInv, TrapInv, JournalStep, NEW c \in Coordinators, NEW t \in Tasks, TaintOf(c),
           Observe(c, t)
    PROVE  TaintOf(c)'
<1>1. CoOK /\ WorksOn(c, t) /\ StopKept(c)' /\ now \in Nat /\ co[c].began \in Nat
      /\ co[c].began <= now
  BY TypeParts, ThreadEffect, ThreadStop DEF RunInv, ThreadStep, CoOK, CoState, TaintOf, StopKept
<1>2. UNCHANGED <<decided, co, proc, trapped>>
      /\ thread' = [thread EXCEPT ![c][t].st = "exited", ![c][t].at = now']
  BY DEF Observe, journal
<1>3. thread'[c][t].at = now'
  BY <1>1, <1>2, ObservedAt
<1>4. /\ thread'[c][t].st = "exited"
      /\ thread'[c][t].attempt = thread[c][t].attempt
      /\ thread'[c][t].outcome = thread[c][t].outcome
      /\ \A u \in Tasks : u # t => thread'[c][u] = thread[c][u]
      /\ \A d \in Coordinators : d # c => thread'[d] = thread[d]
  BY <1>1, <1>2, ObservedFields
<1>5. thread[c][t].attempt \in trapped => now' = now + 1
  BY DEF Observe, TrapInv
<1>6. LateThread(c, t)'
  BY <1>1, <1>2, <1>3, <1>4, <1>5 DEF LateThread
<1>7. ASSUME NEW u \in Tasks, u # t PROVE LateThread(c, u)'
  <2>1. thread'[c][u] = thread[c][u]
    BY <1>4, <1>7
  <2>2. UNCHANGED <<co, trapped>>
    BY <1>2
  <2>3. LateThread(c, u)
    BY DEF TaintOf
  <2>4. QED
    BY <2>1, <2>2, <2>3 DEF LateThread, Noted
<1>8. ASSUME NEW u \in Tasks PROVE SeenTaint(c, u)'
  BY <1>2 DEF TaintOf, SeenTaint, Tainted, StandsBeforeStop, At
<1>9. QED
  BY <1>1, <1>6, <1>7, <1>8 DEF TaintOf

\* A pass that a stop has caused is recorded as one that ended after the stop began.
LEMMA FinishTaints ==
    ASSUME RunInv, OwnerInv, TrapInv, JournalStep, NEW c \in Coordinators, NEW t \in Tasks,
           Orderly(c), NotRefused(c), "write" \notin Events, TaintOf(c), RecordFinish(c, t)
    PROVE  TaintOf(c)'
<1>1. PICK a, o : a = thread[c][t].attempt /\ o = thread[c][t].outcome
  OBVIOUS
<1>2. CoOK /\ WorksOn(c, t) /\ KeepsStop(c) /\ StopKept(c)' /\ co[c] \in CoState
      /\ thread[c][t].st = "judged" /\ decided \in [Tasks -> Decision]
  BY TypeParts, ThreadEffect, ThreadTurn, ThreadStop
     DEF RunInv, ThreadStep, CoOK, RecordFinish, Running, JournalInv, JournalTypeOK
<1>3. /\ Finished(a, co[c].generation, proc[a] = "exit0", o)
      /\ Stepped(c, t, "done")
      /\ co' = IF o = "passed"
               THEN [co EXCEPT ![c].passes =
                       Append(@, [task |-> t, attempt |-> a, at |-> thread[c][t].at])]
               ELSE co
  <2>1. /\ Finished(thread[c][t].attempt, co[c].generation,
                    proc[thread[c][t].attempt] = "exit0", thread[c][t].outcome)
        /\ Stepped(c, t, "done")
        /\ co' = IF thread[c][t].outcome = "passed"
                 THEN [co EXCEPT ![c].passes =
                         Append(@, [task |-> t, attempt |-> thread[c][t].attempt,
                                    at |-> thread[c][t].at])]
                 ELSE co
    BY <1>2 DEF RecordFinish, NotRefused, Running, ThreadFails, NotRecorded, Recorded, Orderly
  <2>2. QED
    BY <1>1, <2>1
<1> DEFINE r == [outcome |-> o, attempt |-> a, generation |-> co[c].generation]
<1>4. decided' = [decided EXCEPT ![t] = r] /\ r.outcome = o /\ r.attempt = a
  <2>1. attempts[a].task = t
    BY <1>1, <1>2 DEF OwnerInv, ThreadsRun, HeldOwn, Holding
  <2>2. QED
    BY <1>3, <2>1 DEF Finished
<1> HIDE DEF r
<1>5. thread'[c][t].st = "done" /\ \A u \in Tasks : u # t => thread'[c][u] = thread[c][u]
  BY <1>2, <1>3, SteppedFields
<1>6. \A u \in Tasks :
         \/ ~Noted(c, u)'
         \/ /\ Noted(c, u)
            /\ thread'[c][u].attempt = thread[c][u].attempt
            /\ thread'[c][u].at = thread[c][u].at
  BY <1>5 DEF Noted
<1>7. \A u \in Tasks : u # t => decided'[u] = decided[u]
  BY <1>2, <1>4
<1>8. decided'[t] = r
  BY <1>2, <1>4
<1>9. CASE o = "passed"
  <2> DEFINE p == [task |-> t, attempt |-> a, at |-> thread[c][t].at]
  <2>1. p.task = t /\ p.attempt = a /\ p.at = thread[c][t].at
    OBVIOUS
  <2>2. co' = [co EXCEPT ![c].passes = Append(@, p)]
    BY <1>3, <1>9
  <2> HIDE DEF p
  <2>3. co'[c].passes = Append(co[c].passes, p) /\ co[c].passes \in Seq(Pass)
    BY <1>2, <2>2, PassedFields DEF CoState
  <2>4. \A i \in DOMAIN co[c].passes :
            i \in DOMAIN co'[c].passes /\ co'[c].passes[i] = co[c].passes[i]
    BY <2>3
  <2>5. a \in trapped => p.at > co[c].began
    BY <1>1, <1>2, <1>9, <2>1 DEF TaintOf, LateThread, Noted
  <2>6. Len(co[c].passes) + 1 \in DOMAIN co'[c].passes
        /\ co'[c].passes[Len(co[c].passes) + 1] = p
    BY <2>3
  <2>7. ASSUME NEW u \in Tasks, Tainted(u)'
        PROVE  \/ Tainted(u) /\ decided'[u].attempt = decided[u].attempt
               \/ \E i \in DOMAIN co'[c].passes :
                     /\ co'[c].passes[i].task = u
                     /\ co'[c].passes[i].attempt = decided'[u].attempt
                     /\ co'[c].passes[i].at > co[c].began
    <3>1. CASE u # t
      BY <1>2, <1>7, <2>7, <3>1 DEF Tainted, WorksOn
    <3>2. CASE u = t
      <4>1. a \in trapped
        BY <1>2, <1>4, <1>8, <2>7, <3>2 DEF Tainted, WorksOn
      <4>2. QED
        BY <1>4, <1>8, <2>1, <2>5, <2>6, <3>2, <4>1
    <3>3. QED
      BY <3>1, <3>2
  <2>8. QED
    BY <1>2, <1>6, <2>4, <2>7, GrownTaints DEF WorksOn, KeepsStop, At
<1>10. CASE o # "passed"
  <2>1. UNCHANGED co
    BY <1>3, <1>10
  <2>2. ASSUME NEW u \in Tasks, Tainted(u)'
        PROVE  Tainted(u) /\ decided'[u].attempt = decided[u].attempt
    BY <1>2, <1>4, <1>7, <1>8, <1>10, <2>2 DEF Tainted, WorksOn
  <2>3. QED
    BY <1>2, <1>6, <2>1, <2>2, GrownTaints DEF WorksOn, At
<1>11. QED
  BY <1>9, <1>10

\* A stop makes exit only what is running, at the one coordinator there is:
\* nothing that ended, and nothing whose end was noted.
LEMMA ExitTaints ==
    ASSUME RunInv, OwnerInv, ProcessInv, TrapInv, TaintInv, NEW a \in AttemptIds, ProcExit(a)
    PROVE  TaintInv'
<1>1. UNCHANGED <<attempts, decided, co, thread, now>> /\ proc[a] = "alive" /\ Known(a)
  BY DEF ProcExit, journal, ProcessInv, ProcKnown
<1>2. ASSUME NEW t \in Tasks PROVE Tainted(t)' <=> Tainted(t)
  <2>1. decided[t].outcome = "passed" => decided[t].attempt # a
    <3> SUFFICES ASSUME decided[t].outcome = "passed", decided[t].attempt = a PROVE FALSE
      OBVIOUS
    <3>1. a # 0
      BY DEF AttemptIds
    <3>2. attempts[a].end = "passed"
      BY <3>1 DEF RunInv, JournalInv, DecisionHasEvidence
    <3>3. EndedOver(a)
      BY <1>1 DEF ProcessInv, Known
    <3>4. QED
      BY <1>1, <3>2, <3>3 DEF EndedOver, Ended
  <2>2. QED
    BY <1>1, <2>1 DEF ProcExit, Tainted
<1>3. ASSUME NEW c \in Coordinators, NEW t \in Tasks, Noted(c, t)
      PROVE  thread[c][t].attempt # a
  BY <1>1, <1>3 DEF Noted, ProcessInv, HeldOpen, Holding
<1>4. ASSUME NEW c \in Coordinators, ~Off(c), TaintOf(c) PROVE TaintOf(c)'
  <2>1. Untrapped(c) /\ co[c].stop = "none" => Untrapped(c)'
    <3> SUFFICES ASSUME Untrapped(c), co[c].stop = "none" PROVE Untrapped(c)'
      OBVIOUS
    <3>1. ~StopReaches(a)
      BY <1>4, OthersAreOff DEF StopReaches, TrapInv, ProcessInv
    <3>2. UNCHANGED trapped
      BY <3>1 DEF ProcExit
    <3>3. QED
      BY <1>1, <3>2 DEF Untrapped
  <2>2. StopKept(c)'
    BY <1>1, <1>2, <1>4, <2>1 DEF TaintOf, StopKept, NoneTainted, Owns, At
  <2>3. ASSUME NEW t \in Tasks PROVE LateThread(c, t)'
    <3>1. Noted(c, t)' <=> Noted(c, t)
      BY <1>1 DEF Noted
    <3>2. thread[c][t].attempt \in trapped' => thread[c][t].attempt \in trapped \cup {a}
      BY DEF ProcExit
    <3>3. QED
      BY <1>1, <1>3, <1>4, <3>1, <3>2 DEF TaintOf, LateThread
  <2>4. ASSUME NEW t \in Tasks PROVE SeenTaint(c, t)'
    BY <1>1, <1>2, <1>4 DEF TaintOf, SeenTaint, StandsBeforeStop, At
  <2>5. QED
    BY <2>2, <2>3, <2>4 DEF TaintOf
<1>5. NoneTainted => NoneTainted'
  BY <1>2 DEF NoneTainted
<1>6. QED
  BY <1>1, <1>4, <1>5 DEF TaintInv, Off

LEMMA MoveTaints ==
    ASSUME RunInv, RunInv', JournalStep, OwnerInv, PlanInv, WorkInv, PassInv, ReopenedOpen,
           Leased, EndInv, TrapInv, TaintInv, Len(attempts) < MaxAttempts,
           Events \cap {"crash", "write", "lease", "torn"} = {},
           NEW c \in Coordinators, Moves(c)
    PROVE  TaintsWell(c)
<1>1. CASE Off(c)
  <2>1. NoneTainted
    BY <1>1, AloneAtWork DEF TaintInv
  <2>2. QED
    BY <1>1, <2>1, OffComes, ArrivalTaints
<1>2. CASE ~Off(c)
  <2>1. TaintOf(c)
    BY <1>2 DEF TaintInv
  <2>2. Orderly(c) /\ NotRefused(c) /\ (InForce(c) => Work(c))
        /\ (~At(c, "reopened") => InForce(c))
    BY <1>2, AtWork
  <2>3. CASE MainStep(c)
    BY <2>1, <2>2, <2>3, MainTaints
  <2>4. ASSUME NEW t \in Tasks, ThreadStep(c, t) PROVE TaintsWell(c)
    <3>1. TaintOf(c)'
      BY <2>1, <2>2, <2>4, QuietThreadTaints, ObserveTaints, FinishTaints DEF ThreadStep
    <3>2. ~Off(c)'
      BY <2>4, ThreadEffect DEF WorksOn, Off, At
    <3>3. QED
      BY <3>1, <3>2 DEF TaintsWell
  <2>5. CASE Decline(c)
    <3>1. NoneTainted'
      BY <2>1, <2>2, <2>5, LeaveTaints DEF Decline
    <3>2. co'[c].pc = "gone"
      BY <2>5, TypeParts, GoneFields DEF RunInv, Decline
    <3>3. QED
      BY <3>1, <3>2 DEF TaintsWell, Off
  <2>6. CASE StopBegins(c) \/ HandlerRuns(c)
    BY <2>1, <2>2, <2>6, SignalTaints
  <2>7. ~Create(c) /\ ~Crash(c) /\ \A assume \in BOOLEAN : ~Reopen(c, assume)
    BY <1>2 DEF Create, Crash, Reopen, IsNext, Off
  <2>8. QED
    BY <2>3, <2>4, <2>5, <2>6, <2>7 DEF Moves
<1>3. QED
  BY <1>1, <1>2

LEMMA TaintInit == Init => TaintInv
<1> SUFFICES ASSUME Init PROVE TaintInv
  OBVIOUS
<1>1. \A c \in Coordinators : Off(c)
  BY DEF Init, Unborn, Off
<1>2. NoneTainted
  BY DEF Init, NoneTainted, Tainted
<1>3. QED
  BY <1>1, <1>2 DEF TaintInv

LEMMA TaintNext ==
    ASSUME Events \cap {"crash", "write", "lease", "torn"} = {}
    PROVE  RunInv /\ OwnerInv /\ PlanInv /\ WorkInv /\ PassInv /\ ReopenedOpen /\ ProcessInv
           /\ EndInv /\ TrapInv /\ TaintInv /\ [Next]_vars /\ RunInv' /\ [JournalNext]_journal
           => TaintInv'
<1> SUFFICES ASSUME RunInv, OwnerInv, PlanInv, WorkInv, PassInv, ReopenedOpen, ProcessInv, EndInv,
                    TrapInv, TaintInv, [Next]_vars, RunInv', JournalStep,
                    Len(attempts') < MaxAttempts
             PROVE  TaintInv'
  BY DEF TaintInv, JournalStep
<1>1. Len(attempts) < MaxAttempts /\ Leased
  BY ShortBefore DEF ProcessInv
<1>2. ASSUME NEW c \in Coordinators, Moves(c) PROVE TaintInv'
  <2>1. TaintsWell(c)
    BY <1>1, <1>2, MoveTaints
  <2>2. OthersStand(c) /\ \A d \in Coordinators : d # c => Off(d)
    BY <1>1, <1>2, OthersLeft, AloneAtWork DEF Moves
  <2>3. QED
    BY <2>1, <2>2, TaintKept
<1>3. ASSUME NEW a \in AttemptIds, ProcExit(a) PROVE TaintInv'
  BY <1>3, ExitTaints
<1>4. CASE UNCHANGED <<journal, co, thread, trapped, now>>
  <2>1. ASSUME NEW c \in Coordinators, TaintOf(c) PROVE TaintOf(c)'
    BY <1>4, <2>1 DEF TaintOf, StopKept, Owns, Untrapped, LateThread, Noted, SeenTaint,
       StandsBeforeStop, NoneTainted, Tainted, journal, At
  <2>2. NoneTainted => NoneTainted'
    BY <1>4 DEF NoneTainted, Tainted, journal
  <2>3. QED
    BY <1>1, <1>4, <2>1, <2>2 DEF TaintInv, Off
<1>5. ASSUME NEW c \in Coordinators PROVE ~LoseLease(c)
  BY DEF LoseLease
<1>6. QED
  BY <1>2, <1>3, <1>4, <1>5 DEF Next, Environment, Moves, CloseLease, vars

LEMMA EndedTaints ==
    ASSUME RunInv, OwnerInv, PlanInv, WorkInv, PassInv, ReopenedOpen, EndInv, TaintInv,
           Len(attempts) < MaxAttempts
    PROVE  NoTaintedPass
<1> SUFFICES ASSUME stopped \/ concluded # "none" PROVE NoneTainted
  BY DEF NoTaintedPass, NoneTainted, Tainted
<1>1. CASE \A c \in Coordinators : Off(c)
  BY <1>1 DEF TaintInv
<1>2. ASSUME NEW c \in Coordinators, ~Off(c) PROVE NoneTainted
  <2>1. At(c, "reopened") /\ TaintOf(c)
    BY <1>2, EndedIsLeft DEF TaintInv
  <2>2. DOMAIN co[c].passes = {}
    <3>1. co[c].passes = << >>
      BY <2>1 DEF WorkInv
    <3>2. QED
      BY <3>1
  <2>3. QED
    BY <2>1, <2>2 DEF TaintOf, SeenTaint, NoneTainted
<1>3. QED
  BY <1>1, <1>2

\* NoTaintedPass: where nothing is killed, every file can be written, leases
\* hold and no handler is preempted half-way, a run comes to rest without a
\* pass that a stop made exit with 0 before its work was done: such an exit is
\* observed after the stop began, so it lies past every cutoff the withdrawal
\* may use, and no window passes before it.
THEOREM NoPassIsTainted ==
    ASSUME Events \cap {"crash", "write", "lease", "torn"} = {}
    PROVE  Spec => [](Len(attempts) < MaxAttempts => NoTaintedPass)
<1>1. RunInv /\ OwnerInv /\ PlanInv /\ WorkInv /\ PassInv /\ ReopenedOpen /\ EndInv /\ TaintInv
      => (Len(attempts) < MaxAttempts => NoTaintedPass)
  BY EndedTaints
<1>2. RunInv /\ OwnerInv /\ ProcessInv /\ [Next]_vars => ProcessInv'
  BY ProcessNext
<1>3. ProcessInv => Leased
  BY DEF ProcessInv
<1>4. RunInv /\ OwnerInv /\ PlanInv /\ WorkInv /\ PassInv /\ ReopenedOpen /\ Leased
      /\ EndInv /\ [Next]_vars /\ RunInv' /\ [JournalNext]_journal => EndInv'
  BY EndNext
<1>5. RunInv /\ OwnerInv /\ ProcessInv /\ TrapInv /\ [Next]_vars /\ [JournalNext]_journal
      => TrapInv'
  BY TrapNext
<1>6. RunInv /\ OwnerInv /\ PlanInv /\ WorkInv /\ PassInv /\ ReopenedOpen /\ ProcessInv
      /\ EndInv /\ TrapInv /\ TaintInv /\ [Next]_vars /\ RunInv' /\ [JournalNext]_journal
      => TaintInv'
  BY TaintNext
<1>7. QED
  BY <1>1, <1>2, <1>3, <1>4, <1>5, <1>6, RunInit, RunNext, OwnerInit, OwnerNext, PlanInit,
     PlanNext, WorkInit, WorkNext, PassInit, PassNext, ProcessInit, ReopenedInit, ReopenedNext,
     EndInit, TrapInit, TaintInit, PTL DEF Spec
===============================================================================
