---------------------------- MODULE DurableRun ----------------------------
(***************************************************************************)
(* The coordinators of one durable run (src/src/runs.rs `Coordinator` and  *)
(* src/src/main.rs `coordinate`, `execute`, `attempt_task`, `launch`), the *)
(* processes they start, and what may befall them.  A coordinator creates  *)
(* or takes over the run, walks the levels of the task graph, runs each    *)
(* level's tasks on threads of their own and records every step in the     *)
(* journal before it goes on; a crash, a failed write, a stop signal or a  *)
(* lost lease may come between any two steps.  What the journal accepts is *)
(* RunJournal's part; here is who tries which fact, when, and what it does *)
(* when the fact is not recorded.                                          *)
(***************************************************************************)
EXTENDS RunJournal

CONSTANTS
    After,          \* After[t]: the tasks t names in `after`
    Levels,         \* the tasks level by level, each level in contract order
    LastCoordinator,\* bound: sykli processes that ever try to hold the run
    Events,         \* what may befall the run in this instance
    Cacheable,      \* tasks whose result a cache may hold
    Drifting        \* tasks that may end errored: an input changes or cannot be
                    \* read, or the output cannot be captured

\* "crash": a coordinator is killed; "write": a file of the run, a record
\* first of all, cannot be written or read;
\* "signal": a stop comes; "torn": its handler is preempted half-way;
\* "close": a task closes its lease's descriptor; "lease": a coordinator's
\* lease is lost under it; "spawn": a shell or a detached coordinator cannot
\* be started; "detach": the run may be started with --detach.
AllEvents == {"crash", "write", "signal", "torn", "close", "lease", "spawn", "detach"}

Coordinators == 1 .. LastCoordinator
NoOne == 0
LevelTasks(l) == {Levels[l][i] : i \in DOMAIN Levels[l]}

ASSUME GraphAssumption ==
    /\ After \in [Tasks -> SUBSET Tasks]
    /\ LastCoordinator \in Nat
    /\ Events \subseteq AllEvents
    /\ Cacheable \subseteq Tasks
    /\ Drifting \subseteq Tasks
    /\ Levels \in Seq(Seq(Tasks))
    /\ UNION {LevelTasks(l) : l \in DOMAIN Levels} = Tasks
    /\ \A l \in DOMAIN Levels, t \in Tasks :
         t \in LevelTasks(l) => After[t] \subseteq UNION {LevelTasks(k) : k \in 1 .. l - 1}

\* A level has each of its tasks once.
ASSUME OnceInLevel ==
    \A l \in DOMAIN Levels : \A i, j \in DOMAIN Levels[l] :
        Levels[l][i] = Levels[l][j] => i = j

VARIABLES
    lease,          \* the coordinator holding the run's lease, or NoOne
    co,             \* co[c]: the state of coordinator c's main thread
    thread,         \* thread[c][t]: the thread of c that runs task t
    proc,           \* proc[a]: the process group of attempt a
    closed,         \* attempts whose processes closed their lease's descriptor
    trapped,        \* attempts that exited 0 in answer to a stop: not finished
    now             \* the clock: exits with 0 observed so far

vars == <<journal, lease, co, thread, proc, closed, trapped, now>>
world == <<proc, closed, trapped, now>>

-----------------------------------------------------------------------------
NoThread == [st |-> "none", attempt |-> 0, at |-> 0, outcome |-> "none"]
NoThreads == [t \in Tasks |-> NoThread]

\* A thread that returned, and one that still holds its attempt's lease.
Returned == {"none", "done", "interrupted", "failed"}
Holding == {"dispatched", "spawned", "running", "exited", "stopping", "judged"}

\* decided: the vector `execute` fills; passes: `Coordinator::passes`;
\* assumed: taken as ended on --assume-ended; first: when the first pass to
\* withdraw ended; stop, began: how far a stop signal got, and when it began.
Unborn == [pc |-> "unborn", generation |-> 0, fenced |-> FALSE,
           decided |-> [t \in Tasks |-> "none"], level |-> 0, pos |-> 0,
           passes |-> <<>>, assumed |-> {}, first |-> 0,
           stop |-> "none", began |-> 0]

\* The pcs between `handle_signals` and the run's last record.
Executing == {"level", "consider", "threads", "window"}

At(c, pc) == co[c].pc = pc
IsNext(c) == co[c].pc = "unborn" /\ \A d \in 1 .. c - 1 : co[d].pc # "unborn"
Flagged(c) == co[c].stop \in {"flagged", "stamped"}
Moved(c, pc) == co' = [co EXCEPT ![c].pc = pc]

\* The process returns or dies: its lease and its threads go with it.
Gone(c) ==
    /\ co' = [co EXCEPT ![c] = [Unborn EXCEPT !.pc = "gone"]]
    /\ lease' = IF lease = c THEN NoOne ELSE lease
    /\ thread' = [thread EXCEPT ![c] = NoThreads]

-----------------------------------------------------------------------------
\* `Coordinator::append`: records of a newer generation fence it off.
Fenced(c) == co[c].fenced \/ generation # co[c].generation

Recorded(c, fact) == ~Fenced(c) /\ fact

\* An error, with the fact absent, or durable all the same: the record was
\* linked into place and only the directory's sync failed.
NotRecorded(c, accepts, fact) ==
    \/ /\ Fenced(c) \/ ~accepts \/ "write" \in Events
       /\ UNCHANGED journal
    \/ /\ "write" \in Events
       /\ Recorded(c, fact)

-----------------------------------------------------------------------------
\* A run's beginning: `Coordinator::create`, its lease taken before its first
\* record, then `coordinate` at once or `detach`.
Begin(c, g, pc) ==
    co' = [co EXCEPT ![c] = [Unborn EXCEPT !.pc = pc, !.generation = g]]

Create(c) ==
    /\ IsNext(c)
    /\ AcceptsRequested
    /\ \/ /\ Requested
          /\ lease' = c
          /\ \E pc \in {"level"} \cup ({"detach"} \cap Events) : Begin(c, 1, pc)
          /\ UNCHANGED thread
       \/ /\ "write" \in Events
          /\ UNCHANGED journal \/ Requested
          /\ Gone(c)
    /\ UNCHANGED world

\* The child inherits the lease; from here on c stands for it.  A
\* coordinator that cannot be started is recorded as such.
NotStarted(c) ==
    /\ "spawn" \in Events
    /\ \/ Recorded(c, Stopped(co[c].generation))
       \/ NotRecorded(c, AcceptsStopped(co[c].generation), Stopped(co[c].generation))
    /\ Gone(c)

Detach(c) ==
    /\ At(c, "detach")
    /\ \/ Moved(c, "received") /\ UNCHANGED <<journal, lease, thread>>
       \/ NotStarted(c)
    /\ UNCHANGED world

Received(c) ==
    /\ At(c, "received")
    /\ \/ Moved(c, "level") /\ UNCHANGED <<journal, lease, thread>>
       \/ NotStarted(c)
    /\ UNCHANGED world

-----------------------------------------------------------------------------
\* Taking over: `Coordinator::reopen`, then `take_over`.

\* Mutant: the attempt's processes do not inherit its lease.
AttemptHeldByThreads(a) ==
    \E c \in Coordinators, t \in Tasks :
        thread[c][t].attempt = a /\ thread[c][t].st \in Holding

\* `Lease::observe`: a coordinator's thread or the attempt's processes hold it.
AttemptHeld(a) ==
    \/ proc[a] = "alive" /\ a \notin closed
    \/ \E c \in Coordinators, t \in Tasks :
         thread[c][t].attempt = a /\ thread[c][t].st \in Holding

\* The recorded process group still exists.
GroupExists(a) == attempts[a].started /\ proc[a] = "alive"

OpenAttempts == {a \in DOMAIN attempts : ~Ended(a)}

\* Mutant: a resume trusts the recorded groups and asks no lease.
ReopenUnobserved(c, assume) ==
    /\ IsNext(c)
    /\ generation \in 1 .. MaxGeneration - 1
    /\ lease = NoOne
    /\ concluded = "none"
    /\ \A a \in OpenAttempts : GroupExists(a) => assume
    /\ lease' = c
    /\ co' = [co EXCEPT ![c] = [Unborn EXCEPT !.pc = "reopened", !.generation = generation,
                                !.assumed = {a \in OpenAttempts : GroupExists(a)}]]
    /\ UNCHANGED <<journal, thread, world>>

\* A refusal leaves everything as it was.
Reopen(c, assume) ==
    /\ IsNext(c)
    /\ generation \in 1 .. MaxGeneration - 1
    /\ lease = NoOne
    /\ concluded = "none"
    /\ \A a \in OpenAttempts : (GroupExists(a) => assume) /\ ~AttemptHeld(a)
    /\ lease' = c
    /\ co' = [co EXCEPT ![c] = [Unborn EXCEPT !.pc = "reopened", !.generation = generation,
                                !.assumed = {a \in OpenAttempts : GroupExists(a)}]]
    /\ UNCHANGED <<journal, thread, world>>

\* What `resume_run` checks between the two: nothing is written.
Decline(c) ==
    /\ At(c, "reopened")
    /\ Gone(c)
    /\ UNCHANGED <<journal, world>>

\* Mutant: a takeover that was not recorded goes on all the same.
TakeOverAnyway(c) ==
    /\ At(c, "reopened")
    /\ LET g == co[c].generation + 1
       IN  /\ \/ Recorded(c, Resumed(g))
              \/ NotRecorded(c, AcceptsResumed(g), Resumed(g))
           /\ co' = [co EXCEPT ![c].generation = g, ![c].pc = "losing"]
           /\ UNCHANGED <<lease, thread>>
    /\ UNCHANGED world

TakeOver(c) ==
    /\ At(c, "reopened")
    /\ LET g == co[c].generation + 1
       IN  \/ /\ Recorded(c, Resumed(g))
              /\ co' = [co EXCEPT ![c].generation = g, ![c].pc = "losing"]
              /\ UNCHANGED <<lease, thread>>
           \/ /\ NotRecorded(c, AcceptsResumed(g), Resumed(g))
              /\ Gone(c)
    /\ UNCHANGED world

\* Every attempt left open is lost; then `coordinate` starts from the
\* decisions that stand.
RecordLost(c, a) ==
    /\ At(c, "losing")
    /\ a \in OpenAttempts
    /\ LET fact == Lost(a, co[c].generation, IF a \in co[c].assumed THEN "assumed" ELSE "lost")
       IN  \/ Recorded(c, fact) /\ UNCHANGED <<lease, co, thread>>
           \/ NotRecorded(c, AcceptsLost(a, co[c].generation), fact) /\ Gone(c)
    /\ UNCHANGED world

\* Mutant: the run goes on before every open attempt is recorded as lost.
TakenOverEarly(c) ==
    /\ At(c, "losing")
    /\ co' = [co EXCEPT ![c].pc = "level", ![c].assumed = {},
                        ![c].decided = [t \in Tasks |-> decided[t].outcome]]
    /\ UNCHANGED <<journal, lease, thread, world>>

TakenOver(c) ==
    /\ At(c, "losing")
    /\ OpenAttempts = {}
    /\ co' = [co EXCEPT ![c].pc = "level", ![c].assumed = {},
                        ![c].decided = [t \in Tasks |-> decided[t].outcome]]
    /\ UNCHANGED <<journal, lease, thread, world>>

-----------------------------------------------------------------------------
\* `execute`, the serial part: the signal is looked at between levels only.
DecidedHere(c, t) == co[c].decided[t] # "none"

\* Mutant: levels go on after a stop.
StartLevelAnyway(c) ==
    /\ At(c, "level")
    /\ IF co[c].level < Len(Levels)
       THEN co' = [co EXCEPT ![c].level = @ + 1, ![c].pos = 1, ![c].pc = "consider"]
       ELSE Moved(c, IF ~Flagged(c) /\ \A t \in Tasks : DecidedHere(c, t)
                     THEN "window" ELSE "withdraw")
    /\ UNCHANGED <<journal, lease, thread, world>>

StartLevel(c) ==
    /\ At(c, "level")
    /\ IF co[c].level < Len(Levels) /\ ~Flagged(c)
       THEN co' = [co EXCEPT ![c].level = @ + 1, ![c].pos = 1, ![c].pc = "consider"]
       ELSE Moved(c, IF ~Flagged(c) /\ \A t \in Tasks : DecidedHere(c, t)
                     THEN "window" ELSE "withdraw")
    /\ UNCHANGED <<journal, lease, thread, world>>

Decides(c, t, outcome) ==
    co' = [co EXCEPT ![c].decided[t] = outcome, ![c].pos = @ + 1]

SettleAs(c, t, outcome) ==
    \/ /\ Recorded(c, Settled(t, co[c].generation, outcome))
       /\ Decides(c, t, outcome)
       /\ UNCHANGED <<lease, thread>>
    \/ /\ NotRecorded(c, AcceptsSettled(t, co[c].generation, outcome),
                      Settled(t, co[c].generation, outcome))
       /\ Gone(c)

Reuse(c, t) ==
    \/ /\ Recorded(c, Reused(t, co[c].generation))
       /\ co' = [co EXCEPT ![c].decided[t] = "cached", ![c].pos = @ + 1,
                           ![c].passes = Append(@, [task |-> t, attempt |-> 0, at |-> now])]
       /\ UNCHANGED <<lease, thread>>
    \/ /\ NotRecorded(c, AcceptsReused(t, co[c].generation), Reused(t, co[c].generation))
       /\ Gone(c)

DependencyFailed(c, t) == \E d \in After[t] : co[c].decided[d] \notin {"passed", "cached"}

Consider(c) ==
    /\ At(c, "consider")
    /\ co[c].pos <= Len(Levels[co[c].level])
    /\ LET t == Levels[co[c].level][co[c].pos]
       IN  \/ /\ DecidedHere(c, t)
              /\ co' = [co EXCEPT ![c].pos = @ + 1]
              /\ UNCHANGED <<journal, lease, thread>>
           \/ /\ ~DecidedHere(c, t)
              /\ DependencyFailed(c, t)
              /\ SettleAs(c, t, "blocked")
           \/ /\ ~DecidedHere(c, t)
              /\ ~DependencyFailed(c, t)
              /\ \/ t \in Drifting /\ SettleAs(c, t, "errored")
                 \/ t \in Cacheable /\ Reuse(c, t)
                 \/ /\ thread' = [thread EXCEPT ![c][t].st = "ready"]
                    /\ co' = [co EXCEPT ![c].pos = @ + 1]
                    /\ UNCHANGED <<journal, lease>>
    /\ UNCHANGED world

StartThreads(c) ==
    /\ At(c, "consider")
    /\ co[c].pos > Len(Levels[co[c].level])
    /\ Moved(c, "threads")
    /\ UNCHANGED <<journal, lease, thread, world>>

\* Mutants: a thread that was interrupted ends the run as one that failed does;
\* one that failed is waited for; what a task decided is mixed up.
JoinInterrupted(c) ==
    /\ At(c, "threads")
    /\ \A t \in Tasks : thread[c][t].st \in Returned
    /\ IF \E t \in Tasks : thread[c][t].st \in {"failed", "interrupted"}
       THEN Gone(c)
       ELSE /\ co' = [co EXCEPT ![c].pc = "level", ![c].pos = 0,
                      ![c].decided = [t \in Tasks |->
                         IF thread[c][t].st = "done" THEN thread[c][t].outcome ELSE @[t]]]
            /\ thread' = [thread EXCEPT ![c] = NoThreads]
            /\ UNCHANGED lease
    /\ UNCHANGED <<journal, world>>

JoinNotFailed(c) ==
    /\ At(c, "threads")
    /\ \A t \in Tasks : thread[c][t].st \in {"none", "done", "interrupted"}
    /\ IF \E t \in Tasks : thread[c][t].st = "failed"
       THEN Gone(c)
       ELSE /\ co' = [co EXCEPT ![c].pc = "level", ![c].pos = 0,
                      ![c].decided = [t \in Tasks |->
                         IF thread[c][t].st = "done" THEN thread[c][t].outcome ELSE @[t]]]
            /\ thread' = [thread EXCEPT ![c] = NoThreads]
            /\ UNCHANGED lease
    /\ UNCHANGED <<journal, world>>

JoinMixedUp(c) ==
    /\ At(c, "threads")
    /\ \A t \in Tasks : thread[c][t].st \in Returned
    /\ IF \E t \in Tasks : thread[c][t].st = "failed"
       THEN Gone(c)
       ELSE /\ co' = [co EXCEPT ![c].pc = "level", ![c].pos = 0,
                      ![c].decided = [t \in Tasks |->
                         IF thread[c][t].st = "done" THEN thread[c][t].st ELSE @[t]]]
            /\ thread' = [thread EXCEPT ![c] = NoThreads]
            /\ UNCHANGED lease
    /\ UNCHANGED <<journal, world>>

\* Every thread of the level is joined; one error ends the run's execution,
\* and nothing more is recorded, not even a stop.
Join(c) ==
    /\ At(c, "threads")
    /\ \A t \in Tasks : thread[c][t].st \in Returned
    /\ IF \E t \in Tasks : thread[c][t].st = "failed"
       THEN Gone(c)
       ELSE /\ co' = [co EXCEPT ![c].pc = "level", ![c].pos = 0,
                      ![c].decided = [t \in Tasks |->
                         IF thread[c][t].st = "done" THEN thread[c][t].outcome ELSE @[t]]]
            /\ thread' = [thread EXCEPT ![c] = NoThreads]
            /\ UNCHANGED lease
    /\ UNCHANGED <<journal, world>>

-----------------------------------------------------------------------------
\* `attempt_task` and `launch`: one thread, one attempt.
Running(c, t, st) == At(c, "threads") /\ thread[c][t].st = st
Stepped(c, t, st) == thread' = [thread EXCEPT ![c][t].st = st]

\* A fact of this thread was not recorded.  When the journal cannot even be
\* read back, the coordinator writes nothing more.
ThreadFails(c, t, accepts, fact) ==
    /\ NotRecorded(c, accepts, fact)
    /\ Stepped(c, t, "failed")
    /\ \E unreadable \in BOOLEAN :
         /\ unreadable => "write" \in Events
         /\ co' = [co EXCEPT ![c].fenced = @ \/ unreadable]

\* Mutant: the record of an attempt is written without asking whether the
\* coordinator was taken over.
DispatchUnfenced(c, t) ==
    /\ Running(c, t, "ready")
    /\ Open /\ UndecidedTask(t) /\ Len(attempts) < MaxAttempts
    /\ attempts' = Append(attempts,
            [task |-> t, generation |-> co[c].generation, supersedes |-> lineage[t],
             started |-> FALSE, end |-> "none", withdrawn |-> FALSE])
    /\ lineage' = [lineage EXCEPT ![t] = Len(attempts) + 1]
    /\ thread' = [thread EXCEPT ![c][t].st = "dispatched", ![c][t].attempt = Len(attempts) + 1]
    /\ UNCHANGED <<generation, decided, stopped, concluded, lease, co, world>>

Dispatch(c, t) ==
    /\ Running(c, t, "ready")
    /\ LET fact == Dispatched(t, co[c].generation, lineage[t])
       IN  \/ /\ Recorded(c, fact)
              /\ thread' = [thread EXCEPT ![c][t].st = "dispatched",
                                          ![c][t].attempt = Len(attempts) + 1]
              /\ UNCHANGED co
           \/ ThreadFails(c, t, AcceptsDispatched(t, co[c].generation, lineage[t]), fact)
    /\ UNCHANGED <<lease, world>>

\* The shell is spawned and its group registered with the signal watcher; or
\* that fails, and the task is errored; or what it needs cannot be read.
Launch(c, t) ==
    /\ Running(c, t, "dispatched")
    /\ \/ /\ "write" \in Events
          /\ Stepped(c, t, "failed")
          /\ UNCHANGED proc
       \/ /\ proc' = [proc EXCEPT ![thread[c][t].attempt] = "alive"]
          /\ Stepped(c, t, "spawned")
       \/ /\ "spawn" \in Events
          /\ thread' = [thread EXCEPT ![c][t].st = "judged", ![c][t].outcome = "errored"]
          /\ UNCHANGED proc
    /\ UNCHANGED <<journal, lease, co, closed, trapped, now>>

Killed(a) == IF proc[a] = "alive" THEN [proc EXCEPT ![a] = "exit1"] ELSE proc

RecordStart(c, t) ==
    /\ Running(c, t, "spawned")
    /\ LET a == thread[c][t].attempt
           fact == Started(a, co[c].generation)
       IN  \/ /\ Recorded(c, fact)
              /\ Stepped(c, t, "running")
              /\ UNCHANGED <<co, proc>>
           \/ /\ ThreadFails(c, t, AcceptsStarted(a, co[c].generation), fact)
              /\ proc' = Killed(a)
    /\ UNCHANGED <<lease, closed, trapped, now>>

\* `child.wait` returns: `ended`.  Only an exit with 0 can become a pass.
Observe(c, t) ==
    /\ Running(c, t, "running")
    /\ proc[thread[c][t].attempt] \in {"exit0", "exit1"}
    /\ now' = IF proc[thread[c][t].attempt] = "exit0" THEN now + 1 ELSE now
    /\ thread' = [thread EXCEPT ![c][t].st = "exited", ![c][t].at = now']
    /\ UNCHANGED <<journal, lease, co, proc, closed, trapped>>

\* What the exit is worth: nothing once a stop has reached sykli; else the
\* command's status, the declared outputs' and the inputs'.
Judge(c, t) ==
    /\ Running(c, t, "exited")
    /\ LET exit0 == proc[thread[c][t].attempt] = "exit0"
       IN  IF Flagged(c)
           THEN Stepped(c, t, "stopping")
           ELSE \E o \in {IF exit0 THEN "passed" ELSE "failed", "failed"}
                         \cup (IF t \in Drifting THEN {"errored"} ELSE {}) :
                  thread' = [thread EXCEPT ![c][t].st = "judged", ![c][t].outcome = o]
    /\ UNCHANGED <<journal, lease, co, world>>

RecordFinish(c, t) ==
    /\ Running(c, t, "judged")
    /\ LET a == thread[c][t].attempt
           o == thread[c][t].outcome
           exit0 == proc[a] = "exit0"
           fact == Finished(a, co[c].generation, exit0, o)
       IN  \/ /\ Recorded(c, fact)
              /\ Stepped(c, t, "done")
              /\ co' = IF o = "passed"
                       THEN [co EXCEPT ![c].passes =
                               Append(@, [task |-> t, attempt |-> a, at |-> thread[c][t].at])]
                       ELSE co
           \/ ThreadFails(c, t, AcceptsFinished(a, co[c].generation, exit0, o), fact)
    /\ UNCHANGED <<lease, world>>

RecordInterrupt(c, t) ==
    /\ Running(c, t, "stopping")
    /\ LET a == thread[c][t].attempt
           fact == Interrupted(a, co[c].generation)
       IN  \/ Recorded(c, fact) /\ Stepped(c, t, "interrupted") /\ UNCHANGED co
           \/ ThreadFails(c, t, AcceptsInterrupted(a, co[c].generation), fact)
    /\ UNCHANGED <<lease, world>>

-----------------------------------------------------------------------------
\* The run's end: `coordinate` after `execute`.
\* The passes an attempt of this process produced.
AttemptPasses(c) == {i \in DOMAIN co[c].passes : co[c].passes[i].attempt # 0}

\* Mutant: a run concludes without waiting.
NoWindow(c) == TRUE

\* The stop window has passed since the last pass.  A stop reaches an attempt
\* less than the window before it reaches sykli, so while a stop that began
\* before that pass is still on its way, the window has not passed.
WindowOver(c) ==
    co[c].stop = "none" \/ \A i \in AttemptPasses(c) : co[c].passes[i].at <= co[c].began

WaitOutWindow(c) ==
    /\ At(c, "window")
    /\ \/ Flagged(c) /\ Moved(c, "withdraw")
       \/ ~Flagged(c) /\ WindowOver(c) /\ Moved(c, "conclude")
    /\ UNCHANGED <<journal, lease, thread, world>>

\* The ends of the passes past the cutoff.  The cutoff, one window before the
\* handler ran, lies before any exit the stop can have caused; how long
\* before is not known.
LateEnds(c, cutoff) ==
    {co[c].passes[i].at : i \in {j \in AttemptPasses(c) : co[c].passes[j].at >= cutoff}}

\* What was decided from the first of these on is withdrawn.  A handler that
\* has not stored its time yet leaves no cutoff, and nothing is withdrawn.
BeginWithdraw(c) ==
    /\ At(c, "withdraw")
    /\ \/ /\ co[c].stop = "stamped"
          /\ \E cutoff \in 1 .. co[c].began + 1 :
               \/ /\ LateEnds(c, cutoff) = {}
                  /\ co' = [co EXCEPT ![c].pc = "withdrawing", ![c].passes = <<>>]
               \/ \E first \in LateEnds(c, cutoff) :
                    /\ \A at \in LateEnds(c, cutoff) : first <= at
                    /\ co' = [co EXCEPT ![c].pc = "withdrawing", ![c].first = first]
       \/ /\ co[c].stop # "stamped"
          /\ co' = [co EXCEPT ![c].pc = "withdrawing", ![c].passes = <<>>]
    /\ UNCHANGED <<journal, lease, thread, world>>

\* Mutant: only attempts' passes are withdrawn, not reuses decided after them.
StandsBeforeStopOrReused(c, p) == p.at < co[c].first \/ p.attempt = 0

\* Decided before the first pass to withdraw.
StandsBeforeStop(c, p) == p.at < co[c].first

WithdrawNext(c) ==
    /\ At(c, "withdrawing")
    /\ co[c].passes # <<>>
    /\ LET p == Head(co[c].passes)
           fact == Withdrawn(p.task, p.attempt, co[c].generation)
       IN  \/ /\ IF StandsBeforeStop(c, p) THEN UNCHANGED journal ELSE Recorded(c, fact)
              /\ co' = [co EXCEPT ![c].passes = Tail(@)]
              /\ UNCHANGED <<lease, thread>>
           \/ /\ ~StandsBeforeStop(c, p)
              /\ NotRecorded(c, AcceptsWithdrawn(p.task, p.attempt, co[c].generation), fact)
              /\ Gone(c)
    /\ UNCHANGED world

RecordStop(c) ==
    /\ At(c, "withdrawing")
    /\ co[c].passes = <<>>
    /\ \/ Recorded(c, Stopped(co[c].generation))
       \/ NotRecorded(c, AcceptsStopped(co[c].generation), Stopped(co[c].generation))
    /\ Gone(c)
    /\ UNCHANGED world

\* The outcome the receipt takes from its tasks.
RunOutcome ==
    LET outcomes == {decided[t].outcome : t \in Tasks}
    IN  CASE "errored" \in outcomes -> "errored"
          [] outcomes = {"cached"} -> "cached"
          [] outcomes \subseteq {"passed", "cached"} /\ outcomes # {"cached"} -> "passed"
          [] OTHER -> "failed"

RecordConclusion(c) ==
    /\ At(c, "conclude")
    /\ \/ Recorded(c, Concluded(co[c].generation, RunOutcome))
       \/ NotRecorded(c, AcceptsConcluded(co[c].generation),
                      Concluded(co[c].generation, RunOutcome))
    /\ Gone(c)
    /\ UNCHANGED world

-----------------------------------------------------------------------------
\* What comes from outside.

Crash(c) ==
    /\ "crash" \in Events
    /\ co[c].pc \notin {"unborn", "gone"}
    /\ Gone(c)
    /\ UNCHANGED <<journal, world>>

LoseLease(c) ==
    /\ "lease" \in Events
    /\ lease = c
    /\ lease' = NoOne
    /\ UNCHANGED <<journal, co, thread, world>>

\* A stop is sent to everything the run's session holds; from here on it may
\* reach a task.
StopBegins(c) ==
    /\ "signal" \in Events
    /\ co[c].pc \in Executing
    /\ co[c].stop = "none"
    /\ co' = [co EXCEPT ![c].stop = "begun", ![c].began = now]
    /\ UNCHANGED <<journal, lease, thread, world>>

\* `on_signal` notes the signal, then when it came: two stores, on whichever
\* thread the system picks.
HandlerRuns(c) ==
    /\ co[c].pc \notin {"unborn", "gone"}
    /\ \/ co[c].stop = "begun" /\ co' = [co EXCEPT ![c].stop = "stamped"]
       \/ "torn" \in Events /\ co[c].stop = "begun" /\ co' = [co EXCEPT ![c].stop = "flagged"]
       \/ co[c].stop = "flagged" /\ co' = [co EXCEPT ![c].stop = "stamped"]
    /\ UNCHANGED <<journal, lease, thread, world>>

\* The stop has begun for the coordinator this attempt belongs to.
StopReaches(a) == \E c \in Coordinators :
    co[c].stop # "none" /\ co[c].generation = attempts[a].generation

ProcExit(a) ==
    /\ proc[a] = "alive"
    /\ \/ proc' = [proc EXCEPT ![a] = "exit1"] /\ UNCHANGED trapped
       \/ proc' = [proc EXCEPT ![a] = "exit0"] /\ UNCHANGED trapped
       \/ /\ StopReaches(a)
          /\ proc' = [proc EXCEPT ![a] = "exit0"]
          /\ trapped' = trapped \cup {a}
    /\ UNCHANGED <<journal, lease, co, thread, closed, now>>

CloseLease(a) ==
    /\ "close" \in Events
    /\ proc[a] = "alive"
    /\ a \notin closed
    /\ closed' = closed \cup {a}
    /\ UNCHANGED <<journal, lease, co, thread, proc, trapped, now>>

-----------------------------------------------------------------------------
Init ==
    /\ JournalInit
    /\ lease = NoOne
    /\ co = [c \in Coordinators |-> Unborn]
    /\ thread = [c \in Coordinators |-> NoThreads]
    /\ proc = [a \in AttemptIds |-> "none"]
    /\ closed = {}
    /\ trapped = {}
    /\ now = 0

\* The steps of a coordinator's own code, and those of one of its threads.
MainStep(c) ==
    \/ Detach(c) \/ Received(c)
    \/ TakeOver(c) \/ (\E a \in AttemptIds : RecordLost(c, a)) \/ TakenOver(c)
    \/ StartLevel(c) \/ Consider(c) \/ StartThreads(c) \/ Join(c)
    \/ WaitOutWindow(c) \/ BeginWithdraw(c) \/ WithdrawNext(c)
    \/ RecordStop(c) \/ RecordConclusion(c)

ThreadStep(c, t) ==
    \/ Dispatch(c, t) \/ Launch(c, t) \/ RecordStart(c, t) \/ Observe(c, t)
    \/ Judge(c, t) \/ RecordFinish(c, t) \/ RecordInterrupt(c, t)

Environment ==
    \/ \E c \in Coordinators :
        \/ Create(c) \/ (\E assume \in BOOLEAN : Reopen(c, assume)) \/ Decline(c)
        \/ Crash(c) \/ LoseLease(c) \/ StopBegins(c) \/ HandlerRuns(c)
    \/ \E a \in AttemptIds : ProcExit(a) \/ CloseLease(a)

Next ==
    \/ \E c \in Coordinators : MainStep(c) \/ \E t \in Tasks : ThreadStep(c, t)
    \/ Environment

Spec == Init /\ [][Next]_vars

\* The system runs every thread that can go on, delivers a signal that was
\* sent, and a task's command ends (sykli itself sets it no limit).
Fairness ==
    /\ \A c \in Coordinators :
         /\ WF_vars(MainStep(c))
         /\ WF_vars(HandlerRuns(c))
         /\ \A t \in Tasks : WF_vars(ThreadStep(c, t))
    /\ \A a \in AttemptIds : WF_vars(ProcExit(a))

FairSpec == Spec /\ Fairness

-----------------------------------------------------------------------------
Pass == [task : Tasks, attempt : Nat, at : Nat]

CoState ==
    [pc : Executing \cup {"unborn", "detach", "received", "reopened", "losing", "withdraw",
                          "withdrawing", "conclude", "gone"},
     generation : 0 .. MaxGeneration, fenced : BOOLEAN,
     decided : [Tasks -> Outcomes \cup {"none"}], level : 0 .. Len(Levels), pos : Nat,
     passes : Seq(Pass), assumed : SUBSET AttemptIds, first : Nat,
     stop : {"none", "begun", "flagged", "stamped"}, began : Nat]

ThreadState ==
    [st : Returned \cup Holding \cup {"ready"}, attempt : 0 .. MaxAttempts, at : Nat,
     outcome : FinishedEnds \cup {"none"}]

\* The coordinators, threads and processes have the shape the code gives them.
DurableTypeOK ==
    /\ lease \in Coordinators \cup {NoOne}
    /\ co \in [Coordinators -> CoState]
    /\ \A c \in Coordinators : At(c, "consider") => co[c].level > 0 /\ co[c].pos > 0
    /\ thread \in [Coordinators -> [Tasks -> ThreadState]]
    /\ proc \in [AttemptIds -> {"none", "alive", "exit0", "exit1"}]
    /\ closed \in SUBSET AttemptIds
    /\ trapped \in SUBSET AttemptIds
    /\ now \in Nat

\* What no one can see running: the processes closed their lease, and the
\* journal does not know their group yet.
Hidden(a) == a \in closed /\ ~attempts[a].started

\* An attempt recorded as lost is over: its process is not running any more,
\* and is never started later, unless it could not be seen or the caller's
\* --assume-ended said so.
LostIsOver ==
    \A a \in DOMAIN attempts :
        attempts[a].end = "lost" /\ proc[a] = "alive" => Hidden(a)

\* A task never has two processes at once, across crashes, resumes and
\* failed writes, unless one of them could not be seen or the caller's
\* --assume-ended was wrong.
OneProcessPerTask ==
    \A a, b \in DOMAIN attempts :
        (/\ proc[a] = "alive" /\ proc[b] = "alive"
         /\ attempts[a].task = attempts[b].task
         /\ "assumed" \notin {attempts[a].end, attempts[b].end}
         /\ ~Hidden(a) /\ ~Hidden(b)) => a = b

\* A coordinator that was not taken over never tries a fact the journal would
\* refuse: whatever order its threads, a stop and its resume come in, the
\* run's own rules are never what ends it.
NeverRefused ==
    \A c \in Coordinators :
        LET g == co[c].generation
        IN  ~Fenced(c) =>
            /\ At(c, "reopened") => AcceptsResumed(g + 1)
            /\ At(c, "losing") => \A a \in OpenAttempts : AcceptsLost(a, g)
            /\ At(c, "detach") \/ At(c, "received") => AcceptsStopped(g)
            /\ At(c, "withdrawing") =>
                 IF co[c].passes = <<>> THEN AcceptsStopped(g)
                 ELSE LET p == Head(co[c].passes)
                      IN  ~StandsBeforeStop(c, p) => AcceptsWithdrawn(p.task, p.attempt, g)
            /\ At(c, "conclude") => AcceptsConcluded(g)
            /\ At(c, "consider") => \A t \in Tasks :
                 ~DecidedHere(c, t) => AcceptsReused(t, g)
            /\ At(c, "threads") => \A t \in Tasks :
                 LET a == thread[c][t].attempt
                     st == thread[c][t].st
                 IN  /\ st = "ready" => AcceptsDispatched(t, g, lineage[t])
                     /\ st = "spawned" => AcceptsStarted(a, g)
                     /\ st = "judged" => AcceptsFinished(a, g, proc[a] = "exit0",
                                                        thread[c][t].outcome)
                     /\ st = "stopping" => AcceptsInterrupted(a, g)

\* The generation in force belongs to one coordinator at most, even when a
\* lease was lost and several believe they hold the run.
OneOwner ==
    \A c, d \in Coordinators :
        (/\ co[c].generation = generation /\ ~At(c, "reopened") /\ generation > 0
         /\ co[d].generation = generation /\ ~At(d, "reopened")) => c = d

Good == {"passed", "cached"}

\* Once a run has stopped or concluded, no pass stands on a dependency that
\* does not: what was withdrawn took everything that may rest on it along.
RestsOnPasses ==
    stopped \/ concluded # "none" =>
        \A t \in Tasks : decided[t].outcome \in Good =>
            \A d \in After[t] : decided[d].outcome \in Good

\* Once a run has stopped or concluded, no task stands as passed by an
\* attempt that exited 0 in answer to the stop without finishing its work.
NoTaintedPass ==
    stopped \/ concluded # "none" =>
        \A t \in Tasks : decided[t].outcome = "passed" => decided[t].attempt \notin trapped

\* A task is blocked by a dependency that was decided and did not pass: never
\* by one a stop left undecided, which a resume would still run.
BlockedByFailure ==
    \A t \in Tasks : decided[t].outcome = "blocked" =>
        \E d \in After[t] : decided[d].outcome \in {"failed", "errored", "blocked"}

\* A run whose coordinators all returned was stopped or concluded, and
\* durably so, when none was killed and every record could be written.
LeftIsEnded ==
    generation # 0 /\ (\A c \in Coordinators : co[c].pc \in {"unborn", "gone"}) =>
        stopped \/ concluded # "none"

\* Every coordinator leaves in the end, whatever befalls it: none waits for a
\* thread, a withdrawal or a stop window for ever, and the lease is freed.
CoordinatorsLeave ==
    \A c \in Coordinators : co[c].pc # "unborn" ~> At(c, "gone")
=============================================================================
