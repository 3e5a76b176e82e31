---------------------------- MODULE StopSignals ----------------------------
(***************************************************************************)
(* How a stop reaches every running attempt (src/src/runs.rs `on_signal`,  *)
(* `handle_signals`, `register`, `stopped`, `unregister`; src/src/main.rs  *)
(* `launch`).  One sykli process: a signal handler that only notes the     *)
(* signal, a watcher thread that signals every tracked process group once  *)
(* with SIGTERM and once with SIGKILL, and one thread per attempt that     *)
(* spawns a group, tracks it, waits for its shell and then for its output. *)
(* DurableRun takes the verdict of this as one test: whether the stop was  *)
(* seen when the attempt's end was judged.                                 *)
(***************************************************************************)
EXTENDS Integers, FiniteSets

CONSTANTS
    Groups,         \* the attempts' process groups, one per attempt
    Stubborn,       \* groups that ignore SIGTERM
    MaxSignals      \* bound: signals sent to sykli

ASSUME SignalsAssumption ==
    /\ IsFiniteSet(Groups)
    /\ Stubborn \subseteq Groups
    /\ MaxSignals \in Nat

VARIABLES
    sent,           \* signals sent to sykli so far
    signalled,      \* SIGNALLED is set
    repeated,       \* REPEATED is set
    watching,       \* the watcher has seen the signal (`since` is set)
    grace,          \* GRACE has passed since then
    killed,         \* the watcher's SIGKILL round is over
    tracked,        \* GROUPS: the groups tracked
    told,           \* those of them marked as signalled
    process,        \* process[g]: the group itself
    stream,         \* stream[g]: its output, held by whoever keeps it open
    thread          \* thread[g]: the attempt's thread

vars == <<sent, signalled, repeated, watching, grace, killed, tracked, told, process,
          stream, thread>>
flags == <<sent, signalled, repeated>>
watcher == <<watching, grace, killed>>

-----------------------------------------------------------------------------
\* SIGTERM ends a group in time unless it ignores it; SIGKILL at once.
Term(gs) == [g \in Groups |->
                IF g \in gs \ Stubborn /\ process[g] = "alive" THEN "ending" ELSE process[g]]
Kill(gs) == [g \in Groups |->
                IF g \in gs /\ process[g] \in {"alive", "ending"} THEN "dead" ELSE process[g]]

\* `on_signal`: the first signal, or that more came.
Signal ==
    /\ sent < MaxSignals
    /\ sent' = sent + 1
    /\ IF signalled
       THEN repeated' = TRUE /\ UNCHANGED signalled
       ELSE signalled' = TRUE /\ UNCHANGED repeated
    /\ UNCHANGED <<watcher, tracked, told, process, stream, thread>>

\* The grace period ends; its clock starts with the watcher's first round.
GraceEnds ==
    /\ watching
    /\ ~grace
    /\ grace' = TRUE
    /\ UNCHANGED <<flags, watching, killed, tracked, told, process, stream, thread>>

\* Mutant: the watcher ends the groups without marking them.
RoundUnmarked ==
    LET escalate == ~killed /\ (repeated \/ grace)
    IN  /\ signalled
        /\ ~watching \/ escalate
        /\ watching' = TRUE
        /\ killed' = (killed \/ escalate)
        /\ process' = IF escalate THEN Kill(tracked) ELSE Term(tracked)
        /\ UNCHANGED <<flags, grace, tracked, told, stream, thread>>

\* Mutant: a second signal does not escalate, and the grace period never ends.
RoundTermOnly ==
    /\ signalled
    /\ ~watching
    /\ watching' = TRUE
    /\ process' = Term(tracked)
    /\ told' = tracked
    /\ UNCHANGED <<flags, grace, killed, tracked, stream, thread>>

\* One round of the watcher: SIGTERM the first time, SIGKILL once, on a second
\* signal or when the grace period is over.
Round ==
    LET escalate == ~killed /\ (repeated \/ grace)
    IN  /\ signalled
        /\ ~watching \/ escalate
        /\ watching' = TRUE
        /\ killed' = (killed \/ escalate)
        /\ process' = IF escalate THEN Kill(tracked) ELSE Term(tracked)
        /\ told' = tracked
        /\ UNCHANGED <<flags, grace, tracked, stream, thread>>

-----------------------------------------------------------------------------
\* `launch`: the shell is spawned, and only then tracked.
Spawn(g) ==
    /\ thread[g] = "idle"
    /\ process' = [process EXCEPT ![g] = "alive"]
    /\ stream' = [stream EXCEPT ![g] = "open"]
    /\ thread' = [thread EXCEPT ![g] = "spawned"]
    /\ UNCHANGED <<flags, watcher, tracked, told>>

\* Mutant: a group is tracked without looking for a stop already under way.
RegisterUnchecked(g) ==
    /\ thread[g] = "spawned"
    /\ tracked' = tracked \cup {g}
    /\ thread' = [thread EXCEPT ![g] = "tracked"]
    /\ UNCHANGED <<flags, watcher, told, process, stream>>

\* `register`, under the lock the watcher signals under.
Register(g) ==
    /\ thread[g] = "spawned"
    /\ tracked' = tracked \cup {g}
    /\ told' = IF signalled THEN told \cup {g} ELSE told
    /\ process' = IF signalled THEN Term({g}) ELSE process
    /\ thread' = [thread EXCEPT ![g] = "tracked"]
    /\ UNCHANGED <<flags, watcher, stream>>

\* The shell has exited; stragglers of its group are killed.
Reap(g) ==
    /\ thread[g] = "tracked"
    /\ process[g] \in {"exited", "dead"}
    /\ process' = [process EXCEPT ![g] = "dead"]
    /\ thread' = [thread EXCEPT ![g] = "reaped"]
    /\ UNCHANGED <<flags, watcher, tracked, told, stream>>

\* Mutant: the output is waited for, stop or no stop.
DrainAlways(g) ==
    /\ thread[g] = "reaped"
    /\ stream[g] = "closed"
    /\ thread' = [thread EXCEPT ![g] = "drained"]
    /\ UNCHANGED <<flags, watcher, tracked, told, process, stream>>

\* The output is read to its end, unless the group was signalled: then a
\* process that left the group and holds the stream is not waited for.
Drain(g) ==
    /\ thread[g] = "reaped"
    /\ stream[g] = "closed" \/ g \in told
    /\ thread' = [thread EXCEPT ![g] = "drained"]
    /\ UNCHANGED <<flags, watcher, tracked, told, process, stream>>

\* Mutant: the mark is looked up once it is gone.
UnregisterThenAsk(g) ==
    /\ thread[g] = "drained"
    /\ tracked' = tracked \ {g}
    /\ told' = told \ {g}
    /\ thread' = [thread EXCEPT ![g] = IF g \in told' THEN "interrupted" ELSE "ran"]
    /\ UNCHANGED <<flags, watcher, process, stream>>

\* `unregister(group) | signalled()`: what the exit is worth.
Unregister(g) ==
    /\ thread[g] = "drained"
    /\ tracked' = tracked \ {g}
    /\ told' = told \ {g}
    /\ thread' = [thread EXCEPT ![g] =
                    IF g \in told \/ signalled THEN "interrupted" ELSE "ran"]
    /\ UNCHANGED <<flags, watcher, process, stream>>

-----------------------------------------------------------------------------
\* The processes: a shell exits by itself, or because of a SIGTERM; its
\* output is closed then, or later, or never, when something that left the
\* group keeps it.
Exit(g) ==
    /\ process[g] \in {"alive", "ending"}
    /\ process' = [process EXCEPT ![g] = "exited"]
    /\ UNCHANGED <<flags, watcher, tracked, told, stream, thread>>

CloseStream(g) ==
    /\ process[g] \in {"exited", "dead"}
    /\ stream[g] = "open"
    /\ stream' = [stream EXCEPT ![g] = "closed"]
    /\ UNCHANGED <<flags, watcher, tracked, told, process, thread>>

Init ==
    /\ sent = 0
    /\ signalled = FALSE /\ repeated = FALSE
    /\ watching = FALSE /\ grace = FALSE /\ killed = FALSE
    /\ tracked = {} /\ told = {}
    /\ process = [g \in Groups |-> "none"]
    /\ stream = [g \in Groups |-> "none"]
    /\ thread = [g \in Groups |-> "idle"]

ThreadStep(g) == Spawn(g) \/ Register(g) \/ Reap(g) \/ Drain(g) \/ Unregister(g)

Next ==
    \/ Signal \/ GraceEnds \/ Round
    \/ \E g \in Groups : ThreadStep(g) \/ Exit(g) \/ CloseStream(g)

\* The watcher's loop and the threads go on, the grace period passes and a
\* group that obeys SIGTERM ends; a group left alone need not end, and a
\* stream need not close.
Fairness ==
    /\ WF_vars(Round)
    /\ WF_vars(GraceEnds)
    /\ \A g \in Groups :
        /\ WF_vars(ThreadStep(g))
        /\ WF_vars(process[g] = "ending" /\ Exit(g))

Spec == Init /\ [][Next]_vars /\ Fairness

-----------------------------------------------------------------------------
\* The flags, the groups and the threads have the shape the code gives them.
SignalsTypeOK ==
    /\ sent \in 0 .. MaxSignals
    /\ signalled \in BOOLEAN /\ repeated \in BOOLEAN
    /\ watching \in BOOLEAN /\ grace \in BOOLEAN /\ killed \in BOOLEAN
    /\ told \subseteq tracked
    /\ tracked \subseteq Groups
    /\ process \in [Groups -> {"none", "alive", "ending", "exited", "dead"}]
    /\ stream \in [Groups -> {"none", "open", "closed"}]
    /\ thread \in [Groups -> {"idle", "spawned", "tracked", "reaped", "drained",
                              "interrupted", "ran"}]

\* Once the watcher has seen a stop, every tracked group has been told of it:
\* by the watcher's round, or by the thread that tracked it later.  None slips
\* between the two.
NoneMissed == watching => told = tracked

\* A group sykli signalled is never taken to have run to its end, whatever it
\* exited with and however the watcher and its thread interleave.
SignalledNeverRan ==
    [][\A g \in Groups :
         (thread[g] = "drained" /\ thread'[g] = "ran") => g \notin told /\ ~watching]_vars

\* A group tracked before the watcher's last round ends, even one that
\* ignores SIGTERM: by itself, on SIGTERM or on SIGKILL.
TrackedInTimeEnds ==
    \A g \in Groups :
        (signalled /\ ~killed /\ g \in tracked) ~> process[g] \in {"exited", "dead"}

\* Once a group has ended during a stop, its thread returns, whatever still
\* holds the group's output open.
StopIsNotHeldUp ==
    \A g \in Groups :
        (signalled /\ thread[g] = "reaped") ~> thread[g] \in {"interrupted", "ran"}
=============================================================================
