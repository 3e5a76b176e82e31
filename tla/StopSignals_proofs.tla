------------------------- MODULE StopSignals_proofs -------------------------
(***************************************************************************)
(* Proofs about StopSignals, for every set of groups, whichever of them    *)
(* ignore SIGTERM and however many signals come: a stop misses no group    *)
(* that is tracked, and no attempt the stop reached is taken to have run.  *)
(***************************************************************************)
EXTENDS StopSignals, TLAPS

(***************************************************************************)
(* The inductive invariant.  The watcher leaves a group to the thread that *)
(* tracks it later, which looks at `SIGNALLED` and not at the watcher: so  *)
(* the watcher must never have seen a signal the flag does not show.       *)
(***************************************************************************)
SignalsInv ==
    /\ SignalsTypeOK
    /\ watching => signalled
    /\ NoneMissed

-----------------------------------------------------------------------------
\* Signalling groups leaves every process in one of its states.
LEMMA SignalledType ==
    ASSUME SignalsTypeOK, NEW gs
    PROVE  /\ Term(gs) \in [Groups -> {"none", "alive", "ending", "exited", "dead"}]
           /\ Kill(gs) \in [Groups -> {"none", "alive", "ending", "exited", "dead"}]
BY DEF SignalsTypeOK, Term, Kill

\* At the start nothing is tracked and no signal was seen.
LEMMA SignalsInit == Init => SignalsInv
<1> SUFFICES ASSUME Init
             PROVE  SignalsInv
  OBVIOUS
<1>1. sent \in 0 .. MaxSignals
  BY SignalsAssumption DEF SignalsAssumption, Init
<1>2. /\ signalled \in BOOLEAN /\ repeated \in BOOLEAN
      /\ watching \in BOOLEAN /\ grace \in BOOLEAN /\ killed \in BOOLEAN
      /\ watching => signalled
      /\ told = tracked
  BY DEF Init
<1>3. /\ told \subseteq tracked
      /\ tracked \subseteq Groups
      /\ process \in [Groups -> {"none", "alive", "ending", "exited", "dead"}]
      /\ stream \in [Groups -> {"none", "open", "closed"}]
      /\ thread \in [Groups -> {"idle", "spawned", "tracked", "reaped", "drained",
                                "interrupted", "ran"}]
  BY DEF Init
<1>4. QED
  BY <1>1, <1>2, <1>3, Zenon DEF SignalsInv, SignalsTypeOK, NoneMissed

\* Every step of the handler, the watcher, a thread or a process keeps it.
LEMMA SignalsNext == SignalsInv /\ [Next]_vars => SignalsInv'
<1> SUFFICES ASSUME SignalsInv, [Next]_vars
             PROVE  SignalsInv'
  OBVIOUS
<1> USE SignalsAssumption DEF SignalsAssumption
<1>1. CASE Signal
  <2>1. sent' \in 0 .. MaxSignals
    BY <1>1 DEF Signal, SignalsInv, SignalsTypeOK
  <2>2. signalled' /\ repeated' \in BOOLEAN
    BY <1>1, Zenon DEF Signal, SignalsInv, SignalsTypeOK
  <2>3. UNCHANGED <<watching, grace, killed, tracked, told, process, stream, thread>>
    BY <1>1 DEF Signal, watcher
  <2>4. QED
    BY <2>1, <2>2, <2>3 DEF SignalsInv, SignalsTypeOK, NoneMissed
<1>2. CASE GraceEnds
  BY <1>2 DEF GraceEnds, SignalsInv, SignalsTypeOK, NoneMissed, flags
<1>3. CASE Round
  <2>1. process' \in [Groups -> {"none", "alive", "ending", "exited", "dead"}]
    BY <1>3, SignalledType DEF Round, SignalsInv
  <2>2. QED
    BY <1>3, <2>1 DEF Round, SignalsInv, SignalsTypeOK, NoneMissed, flags
<1>4. ASSUME NEW g \in Groups, Spawn(g)
      PROVE  SignalsInv'
  BY <1>4 DEF Spawn, SignalsInv, SignalsTypeOK, NoneMissed, flags, watcher
<1>5. ASSUME NEW g \in Groups, Register(g)
      PROVE  SignalsInv'
  <2>1. process' \in [Groups -> {"none", "alive", "ending", "exited", "dead"}]
    BY <1>5, SignalledType DEF Register, SignalsInv, SignalsTypeOK
  <2>2. QED
    BY <1>5, <2>1 DEF Register, SignalsInv, SignalsTypeOK, NoneMissed, flags, watcher
<1>6. ASSUME NEW g \in Groups, Reap(g)
      PROVE  SignalsInv'
  BY <1>6 DEF Reap, SignalsInv, SignalsTypeOK, NoneMissed, flags, watcher
<1>7. ASSUME NEW g \in Groups, Drain(g)
      PROVE  SignalsInv'
  BY <1>7 DEF Drain, SignalsInv, SignalsTypeOK, NoneMissed, flags, watcher
<1>8. ASSUME NEW g \in Groups, Unregister(g)
      PROVE  SignalsInv'
  BY <1>8 DEF Unregister, SignalsInv, SignalsTypeOK, NoneMissed, flags, watcher
<1>9. ASSUME NEW g \in Groups, Exit(g) \/ CloseStream(g)
      PROVE  SignalsInv'
  BY <1>9 DEF Exit, CloseStream, SignalsInv, SignalsTypeOK, NoneMissed, flags, watcher
<1>10. CASE UNCHANGED vars
  BY <1>10 DEF vars, SignalsInv, SignalsTypeOK, NoneMissed
<1>11. QED
  BY <1>1, <1>2, <1>3, <1>4, <1>5, <1>6, <1>7, <1>8, <1>9, <1>10 DEF Next, ThreadStep

\* So it holds throughout.
LEMMA SignalsHold == Spec => []SignalsInv
BY SignalsInit, SignalsNext, PTL DEF Spec

-----------------------------------------------------------------------------
\* The flags, the groups and the threads keep the shape the code gives them.
THEOREM SignalsTypeCorrect == Spec => []SignalsTypeOK
<1>1. SignalsInv => SignalsTypeOK
  BY DEF SignalsInv
<1>2. QED
  BY <1>1, SignalsHold, PTL

\* `handle_signals` and `register`: from the watcher's first round on, every
\* tracked group has been signalled, by one of the two.
THEOREM StopMissesNone == Spec => []NoneMissed
<1>1. SignalsInv => NoneMissed
  BY DEF SignalsInv
<1>2. QED
  BY <1>1, SignalsHold, PTL

\* `unregister(group) | signalled()`: the thread of a group the stop reached
\* judges its end interrupted, whatever the watcher does meanwhile.
THEOREM SignalledIsInterrupted == Spec => SignalledNeverRan
<1> DEFINE Judged == \A g \in Groups :
             (thread[g] = "drained" /\ thread'[g] = "ran") => g \notin told /\ ~watching
<1>1. SignalsInv /\ [Next]_vars => [Judged]_vars
  <2> SUFFICES ASSUME SignalsInv, Next, NEW g \in Groups,
                      thread[g] = "drained", thread'[g] = "ran"
               PROVE  g \notin told /\ ~watching
    OBVIOUS
  <2>1. thread \in [Groups -> {"idle", "spawned", "tracked", "reaped", "drained",
                               "interrupted", "ran"}]
    BY DEF SignalsInv, SignalsTypeOK
  <2>2. thread'[g] # thread[g]
    OBVIOUS
  <2>3. PICK h \in Groups : ThreadStep(h)
    BY <2>2 DEF Next, Signal, GraceEnds, Round, Exit, CloseStream
  <2>4. Unregister(h) /\ h = g
    BY <2>1, <2>3 DEF ThreadStep, Spawn, Register, Reap, Drain, Unregister
  <2>5. g \notin told /\ ~signalled
    BY <2>1, <2>4 DEF Unregister
  <2>6. QED
    BY <2>5 DEF SignalsInv
<1>2. QED
  BY <1>1, SignalsHold, PTL DEF Spec, SignalledNeverRan
=============================================================================
