---------------------------- MODULE RunJournal ----------------------------
(***************************************************************************)
(* The journal of one durable run (src/src/runs.rs): the facts a           *)
(* coordinator records and `History::apply`, the only judge of which fact  *)
(* may follow which.  The state is what `History` keeps once the records   *)
(* are loaded; one action per kind of `Fact`, in two parts: `Accepts...`,  *)
(* the condition under which `apply` takes the fact, and the action that   *)
(* makes the change.  Who writes a fact, and when, is DurableRun's part:   *)
(* here any fact of any generation may be tried at any time.               *)
(*                                                                         *)
(* Records are hash-chained and published exclusively under their number   *)
(* (journal.rs), so the records of a run are one sequence; only the state  *)
(* it folds to is kept here.                                               *)
(***************************************************************************)
EXTENDS Integers, Sequences

CONSTANTS
    Tasks,          \* the tasks of the recorded request
    MaxAttempts,    \* bound: attempts ever dispatched in the run
    MaxGeneration   \* bound: the last generation a resume may open

ASSUME BoundsAssumption ==
    /\ MaxAttempts \in Nat
    /\ MaxGeneration \in Nat \ {0}

VARIABLES
    generation,     \* 0 before `requested`, then 1, and one more per `resumed`
    attempts,       \* the attempts, in dispatch order; an attempt's id is its index
    lineage,        \* lineage[t]: the last attempt of t, 0 when it has none
    decided,        \* decided[t]: how the outcome of t was accepted, or Undecided
    stopped,        \* a `stopped` record stands (a resume clears it)
    concluded       \* the outcome of the `concluded` record, or "none"

journal == <<generation, attempts, lineage, decided, stopped, concluded>>

-----------------------------------------------------------------------------
\* What an attempt's end and a task's decision can be.
FinishedEnds == {"passed", "failed", "errored"}
LostEnds == {"lost", "assumed"}      \* "assumed": lost on the word of --assume-ended
Ends == FinishedEnds \cup LostEnds \cup {"none", "interrupted"}
Outcomes == {"passed", "failed", "errored", "cached", "blocked"}
RunOutcomes == {"passed", "failed", "errored", "cached"}

Generations == 1 .. MaxGeneration
AttemptIds == 1 .. MaxAttempts

Attempt == [task : Tasks, generation : Nat, supersedes : Nat,
            started : BOOLEAN, end : Ends, withdrawn : BOOLEAN]
Decision == [outcome : Outcomes \cup {"none"}, attempt : Nat, generation : Nat]

Undecided == [outcome |-> "none", attempt |-> 0, generation |-> 0]

IsDecided(t) == decided[t].outcome # "none"
Known(a) == a \in DOMAIN attempts
Ended(a) == attempts[a].end # "none"

\* The last attempt of t is still without an end (`History::unresolved`).
Unresolved(t) == lineage[t] # 0 /\ ~Ended(lineage[t])

\* Every fact but `requested` and `resumed` carries the generation in force.
Current(g) == generation # 0 /\ g = generation

\* Neither concluded nor stopped (`History::open`).
Open == concluded = "none" /\ ~stopped

\* Mutant: a task may be tried again while its last attempt is open.
NotYetDecided(t) == ~IsDecided(t)

UndecidedTask(t) == ~IsDecided(t) /\ ~Unresolved(t)

-----------------------------------------------------------------------------
\* The facts.

AcceptsRequested == generation = 0

Requested ==
    /\ AcceptsRequested
    /\ generation' = 1
    /\ UNCHANGED <<attempts, lineage, decided, stopped, concluded>>

AcceptsResumed(g) ==
    /\ generation # 0
    /\ g = generation + 1
    /\ g <= MaxGeneration
    /\ concluded = "none"

Resumed(g) ==
    /\ AcceptsResumed(g)
    /\ generation' = g
    /\ stopped' = FALSE
    /\ UNCHANGED <<attempts, lineage, decided, concluded>>

\* The new attempt must name the one it supersedes: the last of its lineage.
AcceptsDispatched(t, g, supersedes) ==
    /\ Current(g)
    /\ Open
    /\ UndecidedTask(t)
    /\ supersedes = lineage[t]
    /\ Len(attempts) < MaxAttempts

\* Mutant: the lineage counts from one past the attempt.
DispatchedOffByOne(t, g, supersedes) ==
    /\ AcceptsDispatched(t, g, supersedes)
    /\ attempts' = Append(attempts,
            [task |-> t, generation |-> g, supersedes |-> supersedes,
             started |-> FALSE, end |-> "none", withdrawn |-> FALSE])
    /\ lineage' = [lineage EXCEPT ![t] = Len(attempts) + 2]
    /\ UNCHANGED <<generation, decided, stopped, concluded>>

Dispatched(t, g, supersedes) ==
    /\ AcceptsDispatched(t, g, supersedes)
    /\ attempts' = Append(attempts,
            [task |-> t, generation |-> g, supersedes |-> supersedes,
             started |-> FALSE, end |-> "none", withdrawn |-> FALSE])
    /\ lineage' = [lineage EXCEPT ![t] = Len(attempts) + 1]
    /\ UNCHANGED <<generation, decided, stopped, concluded>>

AcceptsStarted(a, g) ==
    /\ Current(g)
    /\ Known(a)
    /\ attempts[a].generation = g
    /\ ~attempts[a].started
    /\ ~Ended(a)

Started(a, g) ==
    /\ AcceptsStarted(a, g)
    /\ attempts' = [attempts EXCEPT ![a].started = TRUE]
    /\ UNCHANGED <<generation, lineage, decided, stopped, concluded>>

\* Mutant: a completion of an older generation is accepted.
AcceptsStaleFinished(a, g, exit0, outcome) ==
    /\ generation # 0
    /\ Known(a)
    /\ attempts[a].generation = g
    /\ ~Ended(a)
    /\ outcome \in FinishedEnds
    /\ outcome = "passed" => exit0
    /\ ~attempts[a].started => outcome = "errored"

\* A pass needs exit 0; an attempt that never started can only be errored.
AcceptsFinished(a, g, exit0, outcome) ==
    /\ generation # 0
    /\ Known(a)
    /\ attempts[a].generation = g
    /\ g = generation
    /\ ~Ended(a)
    /\ outcome \in FinishedEnds
    /\ outcome = "passed" => exit0
    /\ ~attempts[a].started => outcome = "errored"

Finished(a, g, exit0, outcome) ==
    /\ AcceptsFinished(a, g, exit0, outcome)
    /\ attempts' = [attempts EXCEPT ![a].end = outcome]
    /\ decided' = [decided EXCEPT ![attempts[a].task] =
            [outcome |-> outcome, attempt |-> a, generation |-> g]]
    /\ UNCHANGED <<generation, lineage, stopped, concluded>>

AcceptsReused(t, g) == Current(g) /\ Open /\ UndecidedTask(t)

Reused(t, g) ==
    /\ AcceptsReused(t, g)
    /\ decided' = [decided EXCEPT ![t] =
            [outcome |-> "cached", attempt |-> 0, generation |-> g]]
    /\ UNCHANGED <<generation, attempts, lineage, stopped, concluded>>

AcceptsSettled(t, g, outcome) ==
    /\ Current(g)
    /\ Open
    /\ UndecidedTask(t)
    /\ outcome \in {"blocked", "errored"}

Settled(t, g, outcome) ==
    /\ AcceptsSettled(t, g, outcome)
    /\ decided' = [decided EXCEPT ![t] =
            [outcome |-> outcome, attempt |-> 0, generation |-> g]]
    /\ UNCHANGED <<generation, attempts, lineage, stopped, concluded>>

AcceptsInterrupted(a, g) ==
    /\ Current(g)
    /\ Known(a)
    /\ ~Ended(a)
    /\ attempts[a].generation = g

Interrupted(a, g) ==
    /\ AcceptsInterrupted(a, g)
    /\ attempts' = [attempts EXCEPT ![a].end = "interrupted"]
    /\ UNCHANGED <<generation, lineage, decided, stopped, concluded>>

AcceptsLost(a, g) ==
    /\ Current(g)
    /\ Known(a)
    /\ ~Ended(a)
    /\ attempts[a].generation < g

Lost(a, g, reason) ==
    /\ AcceptsLost(a, g)
    /\ reason \in LostEnds
    /\ attempts' = [attempts EXCEPT ![a].end = reason]
    /\ UNCHANGED <<generation, lineage, decided, stopped, concluded>>

\* Mutant: any attempt's decision of this generation can be withdrawn.
AcceptsAnyWithdrawn(t, a, g) ==
    /\ Current(g)
    /\ Open
    /\ decided[t].attempt = a
    /\ decided[t].generation = g
    /\ IF a = 0 THEN decided[t].outcome = "cached" ELSE ~attempts[a].withdrawn

\* A pass of this generation: its attempt's (a), or one reused from the
\* cache (a = 0).
AcceptsWithdrawn(t, a, g) ==
    /\ Current(g)
    /\ Open
    /\ decided[t].attempt = a
    /\ decided[t].generation = g
    /\ IF a = 0
       THEN decided[t].outcome = "cached"
       ELSE attempts[a].end = "passed" /\ ~attempts[a].withdrawn

\* Mutant: the attempt is marked, its task stays decided.
WithdrawnKept(t, a, g) ==
    /\ AcceptsWithdrawn(t, a, g)
    /\ attempts' = IF a = 0 THEN attempts
                   ELSE [attempts EXCEPT ![a].withdrawn = TRUE]
    /\ UNCHANGED <<generation, lineage, decided, stopped, concluded>>

Withdrawn(t, a, g) ==
    /\ AcceptsWithdrawn(t, a, g)
    /\ attempts' = IF a = 0 THEN attempts
                   ELSE [attempts EXCEPT ![a].withdrawn = TRUE]
    /\ decided' = [decided EXCEPT ![t] = Undecided]
    /\ UNCHANGED <<generation, lineage, stopped, concluded>>

\* Mutant: a stop does not wait for the attempts.
AcceptsStoppedEarly(g) == Current(g) /\ Open

AcceptsStopped(g) ==
    /\ Current(g)
    /\ Open
    /\ \A a \in DOMAIN attempts : attempts[a].generation = g => Ended(a)

Stopped(g) ==
    /\ AcceptsStopped(g)
    /\ stopped' = TRUE
    /\ UNCHANGED <<generation, attempts, lineage, decided, concluded>>

AcceptsConcluded(g) ==
    /\ Current(g)
    /\ Open
    /\ \A t \in Tasks : IsDecided(t)
    /\ \A a \in DOMAIN attempts : Ended(a)

Concluded(g, outcome) ==
    /\ AcceptsConcluded(g)
    /\ outcome \in RunOutcomes
    /\ concluded' = outcome
    /\ UNCHANGED <<generation, attempts, lineage, decided, stopped>>

-----------------------------------------------------------------------------
JournalInit ==
    /\ generation = 0
    /\ attempts = <<>>
    /\ lineage = [t \in Tasks |-> 0]
    /\ decided = [t \in Tasks |-> Undecided]
    /\ stopped = FALSE
    /\ concluded = "none"

JournalNext ==
    \/ Requested
    \/ \E g \in Generations :
        \/ Resumed(g)
        \/ Stopped(g)
        \/ \E o \in RunOutcomes : Concluded(g, o)
        \/ \E t \in Tasks :
            \/ \E s \in 0 .. MaxAttempts : Dispatched(t, g, s)
            \/ Reused(t, g)
            \/ \E o \in Outcomes : Settled(t, g, o)
            \/ \E a \in 0 .. MaxAttempts : Withdrawn(t, a, g)
        \/ \E a \in AttemptIds :
            \/ Started(a, g)
            \/ \E exit0 \in BOOLEAN, o \in Outcomes : Finished(a, g, exit0, o)
            \/ Interrupted(a, g)
            \/ \E r \in LostEnds : Lost(a, g, r)

JournalSpec == JournalInit /\ [][JournalNext]_journal

-----------------------------------------------------------------------------
\* The journal's state is well formed: every attempt, decision and link has
\* the shape `History` gives it.
JournalTypeOK ==
    /\ generation \in 0 .. MaxGeneration
    /\ attempts \in Seq(Attempt)
    /\ Len(attempts) <= MaxAttempts
    /\ lineage \in [Tasks -> 0 .. Len(attempts)]
    /\ decided \in [Tasks -> Decision]
    /\ stopped \in BOOLEAN
    /\ concluded \in RunOutcomes \cup {"none"}

\* A task has at most one attempt without an end: the last of its lineage,
\* while the task is undecided.  A retry is dispatched only once everything
\* it supersedes has ended.
RetryAfterEnd ==
    \A a \in DOMAIN attempts :
        /\ ~Ended(a) => /\ lineage[attempts[a].task] = a
                        /\ ~IsDecided(attempts[a].task)
        /\ LET s == attempts[a].supersedes
           IN  s # 0 => s < a /\ attempts[s].task = attempts[a].task /\ Ended(s)

\* A task decided by an attempt rests on the last attempt of its lineage,
\* which finished with that very outcome in the generation that accepted it
\* and was not withdrawn since.
DecisionHasEvidence ==
    \A t \in Tasks :
        LET a == decided[t].attempt
        IN  a # 0 => /\ a = lineage[t]
                     /\ attempts[a].task = t
                     /\ attempts[a].end = decided[t].outcome
                     /\ attempts[a].end \in FinishedEnds
                     /\ attempts[a].generation = decided[t].generation
                     /\ ~attempts[a].withdrawn

\* No accepted end is ever dropped: an attempt that finished either still
\* decides its task, or was a pass and is marked withdrawn.  A failure is
\* therefore never retried, reused over or forgotten within its run.
AcceptedEndStands ==
    \A a \in DOMAIN attempts :
        attempts[a].end \in FinishedEnds =>
            IF attempts[a].withdrawn
            THEN attempts[a].end = "passed"
            ELSE decided[attempts[a].task].attempt = a

\* While a stop stands no attempt of the stopping generation can still be
\* running, and a concluded run has every task decided and no attempt open.
EndedRunIsQuiet ==
    /\ stopped => \A a \in DOMAIN attempts :
                    attempts[a].generation = generation => Ended(a)
    /\ concluded # "none" => /\ \A t \in Tasks : IsDecided(t)
                             /\ \A a \in DOMAIN attempts : Ended(a)
    /\ concluded # "none" => ~stopped

\* Once a newer generation is open, an attempt of an older one can only be
\* found lost: no completion of the coordinator it fenced off counts.
StaleNeverCompletes ==
    [][\A a \in DOMAIN attempts :
         (attempts[a].generation < generation /\ ~Ended(a)) =>
             attempts'[a].end \in {"none"} \cup LostEnds]_journal

\* A concluded run never changes again: nothing is recorded after its
\* receipt, by any generation.
ConcludedIsFinal == [][concluded = "none"]_journal

=============================================================================
