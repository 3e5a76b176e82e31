------------------------- MODULE DurableRun_proofs -------------------------
(***************************************************************************)
(* Proofs about RunJournal and DurableRun, for every set of tasks, every   *)
(* task graph and every bound.                                             *)
(*                                                                         *)
(* First the journal: its state is well typed, and its safety properties   *)
(* hold whichever facts are tried in whichever order.  Then that           *)
(* DurableRun implements it: whatever befalls the coordinators of a run,   *)
(* and in whatever order their steps come, each step records one fact its  *)
(* journal accepts, or none; so everything proved of the journal holds of  *)
(* the run.  Then who owns a run, and what runs in it: a generation        *)
(* belongs to one coordinator, whatever befalls the leases; and, while     *)
(* leases hold, no task ever has two processes and none that is recorded   *)
(* as lost still runs unless nobody could have seen it.                    *)
(*                                                                         *)
(* Then what is known of a run.  By its coordinator: as long as it was not *)
(* taken over, what it believes decided is what the journal has, level by  *)
(* level; so no task is blocked by one that a stop left undecided.  And by *)
(* a status, proved of RunStatus: nothing it calls lost runs or is ever    *)
(* started again, however far the run goes on while the reader looks; and, *)
(* while leases hold, a run it calls lost is one nobody works on.          *)
(***************************************************************************)
EXTENDS RunStatus, SequenceTheorems, TLAPS

(***************************************************************************)
(* The inductive invariant.  The properties support each other: that an    *)
(* accepted end stands needs the evidence of every decision, which needs   *)
(* the one open attempt of a lineage to be its last.  What none of them    *)
(* says is added here: an attempt belongs to the task whose lineage holds  *)
(* it, was opened by a generation that exists, and is withdrawn only once  *)
(* it passed, and no run concludes before it was requested.                *)
(***************************************************************************)
WellLinked ==
    /\ \A t \in Tasks : lineage[t] # 0 => attempts[lineage[t]].task = t
    /\ \A a \in DOMAIN attempts :
        /\ attempts[a].generation \in 1 .. generation
        /\ attempts[a].supersedes < a
        /\ attempts[a].withdrawn => attempts[a].end = "passed"
    /\ concluded # "none" => generation # 0

JournalInv ==
    /\ JournalTypeOK
    /\ WellLinked
    /\ RetryAfterEnd
    /\ DecisionHasEvidence
    /\ AcceptedEndStands
    /\ EndedRunIsQuiet

-----------------------------------------------------------------------------
\* Setting one attempt's state leaves a sequence of attempts, of the same
\* length, that differs there alone.
LEMMA SetAttempt ==
    ASSUME NEW s \in Seq(Attempt), NEW a \in DOMAIN s, NEW r \in Attempt
    PROVE  /\ [s EXCEPT ![a] = r] \in Seq(Attempt)
           /\ Len([s EXCEPT ![a] = r]) = Len(s)
           /\ DOMAIN [s EXCEPT ![a] = r] = DOMAIN s
           /\ [s EXCEPT ![a] = r][a] = r
           /\ \A b \in DOMAIN s : b # a => [s EXCEPT ![a] = r][b] = s[b]
<1>1. a \in 1 .. Len(s)
  OBVIOUS
<1>2. QED
  BY <1>1, ExceptSeq

\* An attempt's end, its start and its withdrawal are the only parts of it
\* a later fact changes: what every such fact leaves of the attempts.
KeptAttempts(a) ==
    /\ attempts' \in Seq(Attempt)
    /\ Len(attempts') = Len(attempts)
    /\ DOMAIN attempts' = DOMAIN attempts
    /\ \A b \in DOMAIN attempts :
        /\ b # a => attempts'[b] = attempts[b]
        /\ attempts'[b].task = attempts[b].task
        /\ attempts'[b].generation = attempts[b].generation
        /\ attempts'[b].supersedes = attempts[b].supersedes

\* An attempt replaced by one of the same task, generation and lineage.
LEMMA ReplacedAttempt ==
    ASSUME JournalTypeOK, NEW a \in DOMAIN attempts, NEW r \in Attempt,
           attempts' = [attempts EXCEPT ![a] = r],
           r.task = attempts[a].task,
           r.generation = attempts[a].generation,
           r.supersedes = attempts[a].supersedes
    PROVE  KeptAttempts(a) /\ attempts'[a] = r
<1>1. attempts \in Seq(Attempt)
  BY DEF JournalTypeOK
<1>2. /\ attempts' \in Seq(Attempt)
      /\ Len(attempts') = Len(attempts)
      /\ DOMAIN attempts' = DOMAIN attempts
      /\ attempts'[a] = r
      /\ \A b \in DOMAIN attempts : b # a => attempts'[b] = attempts[b]
  BY <1>1, SetAttempt
<1>3. QED
  BY <1>2 DEF KeptAttempts

\* Recording how an attempt ended changes its end and nothing else.
LEMMA SetEnd ==
    ASSUME JournalTypeOK, NEW a \in DOMAIN attempts, NEW e \in Ends,
           attempts' = [attempts EXCEPT ![a].end = e]
    PROVE  /\ KeptAttempts(a)
           /\ attempts'[a].end = e
           /\ attempts'[a].started = attempts[a].started
           /\ attempts'[a].withdrawn = attempts[a].withdrawn
<1> DEFINE r == [attempts[a] EXCEPT !.end = e]
<1>1. attempts[a] \in Attempt
  BY ElementOfSeq DEF JournalTypeOK
<1>2. /\ r \in Attempt
      /\ r.end = e
      /\ r.task = attempts[a].task
      /\ r.generation = attempts[a].generation
      /\ r.supersedes = attempts[a].supersedes
      /\ r.started = attempts[a].started
      /\ r.withdrawn = attempts[a].withdrawn
  BY <1>1 DEF Attempt
<1>3. attempts' = [attempts EXCEPT ![a] = r]
  OBVIOUS
<1> HIDE DEF r
<1>4. KeptAttempts(a) /\ attempts'[a] = r
  BY <1>2, <1>3, ReplacedAttempt, Zenon
<1>5. QED
  BY <1>2, <1>4

\* Recording a start changes the start and nothing else.
LEMMA SetStarted ==
    ASSUME JournalTypeOK, NEW a \in DOMAIN attempts,
           attempts' = [attempts EXCEPT ![a].started = TRUE]
    PROVE  /\ KeptAttempts(a)
           /\ attempts'[a].end = attempts[a].end
           /\ attempts'[a].withdrawn = attempts[a].withdrawn
<1> DEFINE r == [attempts[a] EXCEPT !.started = TRUE]
<1>1. attempts[a] \in Attempt
  BY ElementOfSeq DEF JournalTypeOK
<1>2. /\ r \in Attempt
      /\ r.end = attempts[a].end
      /\ r.task = attempts[a].task
      /\ r.generation = attempts[a].generation
      /\ r.supersedes = attempts[a].supersedes
      /\ r.withdrawn = attempts[a].withdrawn
  BY <1>1 DEF Attempt
<1>3. attempts' = [attempts EXCEPT ![a] = r]
  OBVIOUS
<1> HIDE DEF r
<1>4. KeptAttempts(a) /\ attempts'[a] = r
  BY <1>2, <1>3, ReplacedAttempt, Zenon
<1>5. QED
  BY <1>2, <1>4

\* Withdrawing a pass marks the attempt and changes nothing else of it.
LEMMA SetWithdrawn ==
    ASSUME JournalTypeOK, NEW a \in DOMAIN attempts,
           attempts' = [attempts EXCEPT ![a].withdrawn = TRUE]
    PROVE  /\ KeptAttempts(a)
           /\ attempts'[a].end = attempts[a].end
           /\ attempts'[a].started = attempts[a].started
           /\ attempts'[a].withdrawn
<1> DEFINE r == [attempts[a] EXCEPT !.withdrawn = TRUE]
<1>1. attempts[a] \in Attempt
  BY ElementOfSeq DEF JournalTypeOK
<1>2. /\ r \in Attempt
      /\ r.end = attempts[a].end
      /\ r.started = attempts[a].started
      /\ r.task = attempts[a].task
      /\ r.generation = attempts[a].generation
      /\ r.supersedes = attempts[a].supersedes
      /\ r.withdrawn
  BY <1>1 DEF Attempt
<1>3. attempts' = [attempts EXCEPT ![a] = r]
  OBVIOUS
<1> HIDE DEF r
<1>4. KeptAttempts(a) /\ attempts'[a] = r
  BY <1>2, <1>3, ReplacedAttempt, Zenon
<1>5. QED
  BY <1>2, <1>4

-----------------------------------------------------------------------------
\* A new attempt is added at the end; the others stay as they are.
LEMMA AppendedAttempt ==
    ASSUME JournalTypeOK, NEW r \in Attempt, attempts' = Append(attempts, r)
    PROVE  LET n == Len(attempts) + 1
           IN  /\ attempts' \in Seq(Attempt)
               /\ Len(attempts') = n
               /\ DOMAIN attempts' = DOMAIN attempts \cup {n}
               /\ n \in Nat
               /\ \A b \in DOMAIN attempts : b < n /\ attempts'[b] = attempts[b]
               /\ attempts'[n] = r
<1>1. attempts \in Seq(Attempt)
  BY DEF JournalTypeOK
<1>2. /\ attempts' \in Seq(Attempt)
      /\ Len(attempts') = Len(attempts) + 1
      /\ \A b \in 1 .. Len(attempts) : attempts'[b] = attempts[b]
      /\ attempts'[Len(attempts) + 1] = r
  BY <1>1, AppendProperties
<1>3. /\ DOMAIN attempts = 1 .. Len(attempts)
      /\ DOMAIN attempts' = 1 .. Len(attempts')
      /\ Len(attempts) \in Nat
  BY <1>1, <1>2, LenProperties
<1>4. QED
  BY <1>2, <1>3

\* The fields of every attempt have their types.
LEMMA AttemptFields ==
    ASSUME JournalTypeOK
    PROVE  /\ DOMAIN attempts = 1 .. Len(attempts)
           /\ Len(attempts) \in Nat
           /\ \A a \in DOMAIN attempts :
                /\ attempts[a].task \in Tasks
                /\ attempts[a].generation \in Nat
                /\ attempts[a].supersedes \in Nat
                /\ attempts[a].started \in BOOLEAN
                /\ attempts[a].end \in Ends
                /\ attempts[a].withdrawn \in BOOLEAN
<1>1. attempts \in Seq(Attempt)
  BY DEF JournalTypeOK
<1>2. DOMAIN attempts = 1 .. Len(attempts) /\ Len(attempts) \in Nat
  BY <1>1, LenProperties
<1>3. \A a \in DOMAIN attempts : attempts[a] \in Attempt
  BY <1>1, <1>2, ElementOfSeq
<1>4. QED
  BY <1>2, <1>3 DEF Attempt

-----------------------------------------------------------------------------
\* `dispatched` keeps the invariant: the attempt it opens is the only open
\* one of its task, and the last of its lineage.
LEMMA DispatchedKeepsInv ==
    ASSUME JournalInv, NEW t \in Tasks, NEW g \in Generations,
           NEW s \in 0 .. MaxAttempts, Dispatched(t, g, s)
    PROVE  JournalInv'
<1> DEFINE n == Len(attempts) + 1
           r == [task |-> t, generation |-> g, supersedes |-> s,
                 started |-> FALSE, end |-> "none", withdrawn |-> FALSE]
<1> USE BoundsAssumption DEF Generations
<1>1. r \in Attempt
  BY DEF Attempt, Ends
<1>2. /\ r.task = t /\ r.generation = g /\ r.supersedes = s
      /\ r.end = "none" /\ r.withdrawn = FALSE
  OBVIOUS
<1>3. attempts' = Append(attempts, r)
  BY DEF Dispatched
<1> HIDE DEF r
<1>4. /\ attempts' \in Seq(Attempt)
      /\ Len(attempts') = n
      /\ DOMAIN attempts' = DOMAIN attempts \cup {n}
      /\ n \in Nat
      /\ \A b \in DOMAIN attempts : b < n /\ attempts'[b] = attempts[b]
      /\ attempts'[n] = r
  BY <1>1, <1>3, AppendedAttempt DEF JournalInv
<1>5. /\ Current(g) /\ Open /\ UndecidedTask(t) /\ s = lineage[t]
      /\ Len(attempts) < MaxAttempts
      /\ lineage' = [lineage EXCEPT ![t] = n]
      /\ UNCHANGED <<generation, decided, stopped, concluded>>
  BY DEF Dispatched, AcceptsDispatched
<1> HIDE DEF n
<1>6. JournalTypeOK'
  BY <1>4, <1>5 DEF n, JournalInv, JournalTypeOK
<1>9. /\ DOMAIN attempts = 1 .. Len(attempts)
      /\ Len(attempts) \in Nat
      /\ \A a \in DOMAIN attempts : /\ attempts[a].task \in Tasks
                                    /\ attempts[a].generation \in Nat
                                    /\ attempts[a].supersedes \in Nat
  BY AttemptFields DEF JournalInv
<1>7. lineage[t] # 0 => lineage[t] \in DOMAIN attempts /\ attempts[lineage[t]].task = t
  BY DEF JournalInv, JournalTypeOK, WellLinked
<1>8. WellLinked'
  <2>1. \A u \in Tasks : lineage'[u] # 0 => attempts'[lineage'[u]].task = u
    <3> SUFFICES ASSUME NEW u \in Tasks, lineage'[u] # 0
                 PROVE  attempts'[lineage'[u]].task = u
      OBVIOUS
    <3>1. CASE u = t
      BY <1>2, <1>4, <1>5, <3>1 DEF JournalInv, JournalTypeOK
    <3>2. CASE u # t
      <4>1. lineage'[u] = lineage[u] /\ lineage[u] \in DOMAIN attempts
        BY <1>5, <1>9, <3>2 DEF JournalInv, JournalTypeOK
      <4>2. QED
        BY <1>4, <4>1 DEF JournalInv, WellLinked
    <3>3. QED
      BY <3>1, <3>2
  <2>2. attempts'[n].generation \in 1 .. generation' /\ attempts'[n].supersedes < n
    BY <1>2, <1>4, <1>5, <1>9 DEF JournalInv, JournalTypeOK, Current, n
  <2>3. QED
    BY <1>2, <1>4, <1>5, <2>1, <2>2 DEF JournalInv, WellLinked
<1>10. RetryAfterEnd'
  <2> SUFFICES ASSUME NEW a \in DOMAIN attempts'
               PROVE  /\ attempts'[a].end = "none" => /\ lineage'[attempts'[a].task] = a
                                       /\ decided'[attempts'[a].task].outcome = "none"
                      /\ LET p == attempts'[a].supersedes
                         IN  p # 0 => /\ p < a
                                      /\ attempts'[p].task = attempts'[a].task
                                      /\ attempts'[p].end # "none"
    BY DEF RetryAfterEnd, Ended, IsDecided
  <2>1. CASE a = n
    <3>1. /\ lineage'[t] = n
          /\ decided'[t].outcome = "none"
      BY <1>5 DEF JournalInv, JournalTypeOK, UndecidedTask, IsDecided
    <3>2. s # 0 => s < n /\ attempts'[s].task = t /\ attempts'[s].end # "none"
      BY <1>4, <1>5, <1>7 DEF UndecidedTask, Unresolved, Ended
    <3>3. QED
      BY <1>2, <1>4, <2>1, <3>1, <3>2
  <2>2. CASE a \in DOMAIN attempts
    <3>1. attempts'[a] = attempts[a] /\ attempts[a].task \in Tasks
      BY <1>4, <1>9, <2>2
    <3>2. ASSUME ~Ended(a) PROVE attempts[a].task # t
      <4>1. lineage[attempts[a].task] = a
        BY <2>2, <3>2 DEF JournalInv, RetryAfterEnd
      <4>2. a # 0
        BY <1>9, <2>2
      <4>3. QED
        BY <1>5, <3>2, <4>1, <4>2 DEF UndecidedTask, Unresolved
    <3>3. attempts'[a].end = "none" => /\ lineage'[attempts'[a].task] = a
                        /\ decided'[attempts'[a].task].outcome = "none"
      BY <1>5, <2>2, <3>1, <3>2
         DEF JournalInv, JournalTypeOK, RetryAfterEnd, Ended, IsDecided
    <3>4. attempts[a].supersedes # 0 => attempts[a].supersedes \in DOMAIN attempts
      BY <1>9, <2>2 DEF JournalInv, WellLinked
    <3>5. QED
      BY <1>4, <2>2, <3>1, <3>3, <3>4 DEF JournalInv, RetryAfterEnd, Ended
  <2>3. QED
    BY <1>4, <2>1, <2>2
<1>11. decided[t].attempt = 0
  BY <1>5 DEF JournalInv, DecisionHasEvidence, UndecidedTask, IsDecided, FinishedEnds
<1>12. DecisionHasEvidence'
  BY <1>4, <1>5, <1>11 DEF JournalInv, JournalTypeOK, DecisionHasEvidence
<1>13. AcceptedEndStands'
  BY <1>2, <1>4, <1>5, <1>9 DEF JournalInv, AcceptedEndStands, FinishedEnds
<1>14. EndedRunIsQuiet'
  BY <1>5 DEF JournalInv, EndedRunIsQuiet, Open, IsDecided
<1>15. QED
  BY <1>6, <1>8, <1>10, <1>12, <1>13, <1>14 DEF JournalInv

\* `interrupted` and `lost` end an attempt that nothing was accepted from.
LEMMA EndedWithoutOutcomeKeepsInv ==
    ASSUME JournalInv, NEW a \in AttemptIds, Known(a), ~Ended(a),
           NEW e \in LostEnds \cup {"interrupted"},
           attempts' = [attempts EXCEPT ![a].end = e],
           UNCHANGED <<generation, lineage, decided, stopped, concluded>>
    PROVE  JournalInv'
<1>1. a \in DOMAIN attempts /\ e \in Ends /\ e # "none" /\ e \notin FinishedEnds
  BY DEF Known, LostEnds, Ends, FinishedEnds
<1>2. /\ KeptAttempts(a)
      /\ attempts'[a].end = e
      /\ attempts'[a].withdrawn = attempts[a].withdrawn
  BY <1>1, SetEnd DEF JournalInv
<1>3. JournalTypeOK'
  BY <1>2 DEF JournalInv, JournalTypeOK, KeptAttempts
<1>4. WellLinked'
  BY <1>1, <1>2 DEF JournalInv, JournalTypeOK, WellLinked, KeptAttempts, Ended
<1>5. RetryAfterEnd'
  BY <1>1, <1>2 DEF JournalInv, RetryAfterEnd, KeptAttempts, Ended, IsDecided
<1>6. DecisionHasEvidence'
  BY <1>1, <1>2 DEF JournalInv, DecisionHasEvidence, KeptAttempts, Ended, FinishedEnds
<1>7. AcceptedEndStands'
  BY <1>1, <1>2 DEF JournalInv, AcceptedEndStands, KeptAttempts
<1>8. EndedRunIsQuiet'
  BY <1>1, <1>2 DEF JournalInv, EndedRunIsQuiet, KeptAttempts, Ended, IsDecided
<1>9. QED
  BY <1>3, <1>4, <1>5, <1>6, <1>7, <1>8 DEF JournalInv

\* `started` changes nothing that any property of an end or a decision reads.
LEMMA StartedKeepsInv ==
    ASSUME JournalInv, NEW a \in AttemptIds, NEW g \in Generations, Started(a, g)
    PROVE  JournalInv'
<1>1. a \in DOMAIN attempts
  BY DEF Started, AcceptsStarted, Known
<1>2. attempts' = [attempts EXCEPT ![a].started = TRUE]
  BY DEF Started
<1>3. /\ KeptAttempts(a)
      /\ attempts'[a].end = attempts[a].end
      /\ attempts'[a].withdrawn = attempts[a].withdrawn
  BY <1>1, <1>2, SetStarted DEF JournalInv
<1>4. /\ DOMAIN attempts' = DOMAIN attempts
      /\ \A b \in DOMAIN attempts :
            /\ attempts'[b].task = attempts[b].task
            /\ attempts'[b].generation = attempts[b].generation
            /\ attempts'[b].supersedes = attempts[b].supersedes
            /\ attempts'[b].end = attempts[b].end
            /\ attempts'[b].withdrawn = attempts[b].withdrawn
  BY <1>1, <1>3 DEF KeptAttempts
<1>5. UNCHANGED <<generation, lineage, decided, stopped, concluded>>
  BY DEF Started
<1>6. /\ DOMAIN attempts = 1 .. Len(attempts)
      /\ Len(attempts) \in Nat
      /\ \A b \in DOMAIN attempts : attempts[b].supersedes \in Nat
      /\ \A u \in Tasks : lineage[u] # 0 => lineage[u] \in DOMAIN attempts
  BY AttemptFields DEF JournalInv, JournalTypeOK
<1>7. JournalTypeOK'
  BY <1>3, <1>5 DEF JournalInv, JournalTypeOK, KeptAttempts
<1>8. WellLinked'
  BY <1>4, <1>5, <1>6 DEF JournalInv, WellLinked
<1>9. RetryAfterEnd'
  <2>1. \A b \in DOMAIN attempts : attempts[b].supersedes # 0 =>
                                      attempts[b].supersedes \in DOMAIN attempts
    BY <1>6 DEF JournalInv, WellLinked
  <2>2. QED
    BY <1>4, <1>5, <2>1 DEF JournalInv, RetryAfterEnd, Ended, IsDecided
<1>10. DecisionHasEvidence'
  BY <1>4, <1>5, <1>6 DEF JournalInv, DecisionHasEvidence
<1>11. AcceptedEndStands'
  BY <1>4, <1>5 DEF JournalInv, AcceptedEndStands
<1>12. EndedRunIsQuiet'
  BY <1>4, <1>5 DEF JournalInv, EndedRunIsQuiet, Ended, IsDecided
<1>13. QED
  BY <1>7, <1>8, <1>9, <1>10, <1>11, <1>12 DEF JournalInv

\* `finished` decides the task of the attempt it ends: no other attempt of
\* that task can hold the decision, for that one would be the last of the
\* lineage and would have ended.
LEMMA FinishedKeepsInv ==
    ASSUME JournalInv, NEW a \in AttemptIds, NEW g \in Generations,
           NEW x \in BOOLEAN, NEW o \in Outcomes, Finished(a, g, x, o)
    PROVE  JournalInv'
<1> DEFINE t == attempts[a].task
           d == [outcome |-> o, attempt |-> a, generation |-> g]
<1>1. /\ a \in DOMAIN attempts /\ a \in Nat /\ a # 0
      /\ o \in FinishedEnds /\ o \in Ends /\ o # "none"
      /\ attempts[a].end = "none"
      /\ attempts[a].generation = g
  BY DEF Finished, AcceptsFinished, Known, Ended, AttemptIds, Ends, FinishedEnds
<1>2. attempts' = [attempts EXCEPT ![a].end = o]
  BY DEF Finished
<1>3. /\ KeptAttempts(a)
      /\ attempts'[a].end = o
      /\ attempts'[a].withdrawn = attempts[a].withdrawn
  BY <1>1, <1>2, SetEnd DEF JournalInv
<1>4. /\ decided' = [decided EXCEPT ![t] = d]
      /\ UNCHANGED <<generation, lineage, stopped, concluded>>
  BY DEF Finished
<1>5. /\ d \in Decision
      /\ d.outcome = o /\ d.attempt = a /\ d.generation = g
  BY <1>1 DEF Decision, Generations
<1> HIDE DEF d
<1>6. /\ t \in Tasks
      /\ \A b \in DOMAIN attempts : attempts[b].task \in Tasks
      /\ DOMAIN attempts = 1 .. Len(attempts)
      /\ Len(attempts) \in Nat
      /\ \A b \in DOMAIN attempts : attempts[b].supersedes \in Nat
      /\ \A u \in Tasks : lineage[u] # 0 => lineage[u] \in DOMAIN attempts
  BY <1>1, AttemptFields DEF JournalInv, JournalTypeOK
<1>7. decided'[t] = d /\ \A u \in Tasks : u # t => decided'[u] = decided[u]
  BY <1>4, <1>6 DEF JournalInv, JournalTypeOK
<1>8. lineage[t] = a /\ decided[t].outcome = "none" /\ ~attempts[a].withdrawn
  BY <1>1 DEF JournalInv, RetryAfterEnd, WellLinked, Ended, IsDecided
<1>9. JournalTypeOK'
  BY <1>3, <1>4, <1>5 DEF JournalInv, JournalTypeOK, KeptAttempts
<1> HIDE DEF t
<1>10. WellLinked'
  <2>1. \A b \in DOMAIN attempts :
           attempts'[b].withdrawn => attempts'[b].end = "passed"
    BY <1>1, <1>3, <1>8 DEF JournalInv, WellLinked, KeptAttempts
  <2>2. QED
    BY <1>3, <1>4, <1>6, <2>1 DEF JournalInv, WellLinked, KeptAttempts
<1>11. RetryAfterEnd'
  <2>1. \A b \in DOMAIN attempts : b # a /\ ~Ended(b) => attempts[b].task # t
    BY <1>8 DEF JournalInv, RetryAfterEnd
  <2>2. \A b \in DOMAIN attempts : attempts[b].supersedes # 0 =>
                                      attempts[b].supersedes \in DOMAIN attempts
    BY <1>6 DEF JournalInv, WellLinked
  <2>3. \A b \in DOMAIN attempts :
           attempts'[b].end = "none" => /\ lineage[attempts[b].task] = b
                                        /\ decided'[attempts[b].task].outcome = "none"
    BY <1>1, <1>3, <1>6, <1>7, <2>1
       DEF JournalInv, RetryAfterEnd, KeptAttempts, Ended, IsDecided
  <2>4. \A b \in DOMAIN attempts :
           attempts[b].supersedes # 0 => /\ attempts[b].supersedes < b
                                         /\ attempts[attempts[b].supersedes].task = attempts[b].task
                                         /\ attempts'[attempts[b].supersedes].end # "none"
    BY <1>1, <1>3, <2>2 DEF JournalInv, RetryAfterEnd, KeptAttempts, Ended
  <2>5. QED
    BY <1>3, <1>4, <2>2, <2>3, <2>4 DEF RetryAfterEnd, KeptAttempts, Ended, IsDecided
<1>12. DecisionHasEvidence'
  <2>1. \A u \in Tasks : decided[u].attempt # a
    BY <1>1 DEF JournalInv, DecisionHasEvidence, FinishedEnds
  <2>2. /\ lineage'[t] = a /\ attempts'[a].task = t /\ ~attempts'[a].withdrawn
        /\ attempts'[a].generation = g
    BY <1>1, <1>3, <1>4, <1>8 DEF KeptAttempts, t
  <2>3. \A u \in Tasks : decided[u].attempt # 0 => decided[u].attempt \in DOMAIN attempts
    BY <1>6 DEF JournalInv, DecisionHasEvidence
  <2>4. QED
    BY <1>1, <1>3, <1>4, <1>5, <1>7, <2>1, <2>2, <2>3
       DEF JournalInv, DecisionHasEvidence, KeptAttempts
<1>13. AcceptedEndStands'
  <2>1. \A b \in DOMAIN attempts :
          b # a /\ attempts[b].end \in FinishedEnds /\ ~attempts[b].withdrawn
            => attempts[b].task # t
    <3> SUFFICES ASSUME NEW b \in DOMAIN attempts, b # a, attempts[b].task = t,
                        attempts[b].end \in FinishedEnds, ~attempts[b].withdrawn
                 PROVE  FALSE
      OBVIOUS
    <3>1. decided[t].attempt = b
      BY DEF JournalInv, AcceptedEndStands
    <3>2. b # 0
      BY <1>6
    <3>3. QED
      BY <1>6, <1>8, <3>1, <3>2 DEF JournalInv, DecisionHasEvidence
  <2>2. QED
    BY <1>1, <1>3, <1>5, <1>6, <1>7, <1>8, <2>1
       DEF JournalInv, AcceptedEndStands, KeptAttempts, t
<1>14. EndedRunIsQuiet'
  BY <1>1, <1>3, <1>4, <1>5, <1>7 DEF JournalInv, EndedRunIsQuiet, KeptAttempts, Ended, IsDecided
<1>15. QED
  BY <1>9, <1>10, <1>11, <1>12, <1>13, <1>14 DEF JournalInv

\* `reused` and `settled` decide a task no attempt of which is open or
\* holds its decision.
LEMMA DecidedWithoutAttemptKeepsInv ==
    ASSUME JournalInv, NEW t \in Tasks, NEW g \in Generations, NEW o \in Outcomes,
           UndecidedTask(t), Open,
           decided' = [decided EXCEPT ![t] =
                [outcome |-> o, attempt |-> 0, generation |-> g]],
           UNCHANGED <<generation, attempts, lineage, stopped, concluded>>
    PROVE  JournalInv'
<1> DEFINE d == [outcome |-> o, attempt |-> 0, generation |-> g]
<1>1. d \in Decision /\ d.outcome = o /\ d.attempt = 0 /\ o # "none"
  BY DEF Decision, Generations, Outcomes
<1> HIDE DEF d
<1>2. decided'[t] = d /\ \A u \in Tasks : u # t => decided'[u] = decided[u]
  BY DEF d, JournalInv, JournalTypeOK
<1>3. decided[t].outcome = "none" /\ decided[t].attempt = 0
  BY DEF UndecidedTask, IsDecided, JournalInv, DecisionHasEvidence, FinishedEnds
<1>4. \A b \in DOMAIN attempts : attempts[b].task \in Tasks /\ b # 0
  BY AttemptFields DEF JournalInv
<1>5. JournalTypeOK'
  BY <1>1 DEF d, JournalInv, JournalTypeOK
<1>6. WellLinked'
  BY DEF JournalInv, WellLinked
<1>7. RetryAfterEnd'
  <2>1. \A b \in DOMAIN attempts : ~Ended(b) => attempts[b].task # t
    BY <1>4 DEF JournalInv, RetryAfterEnd, UndecidedTask, Unresolved
  <2>2. QED
    BY <1>2, <1>4, <2>1 DEF JournalInv, RetryAfterEnd, Ended, IsDecided
<1>8. DecisionHasEvidence'
  BY <1>1, <1>2 DEF JournalInv, DecisionHasEvidence
<1>9. AcceptedEndStands'
  BY <1>2, <1>3, <1>4 DEF JournalInv, AcceptedEndStands
<1>10. EndedRunIsQuiet'
  BY <1>1, <1>2 DEF JournalInv, EndedRunIsQuiet, Ended, IsDecided, Open
<1>11. QED
  BY <1>5, <1>6, <1>7, <1>8, <1>9, <1>10 DEF JournalInv

\* `withdrawn` undecides a task, and marks the attempt whose pass it was.
LEMMA WithdrawnKeepsInv ==
    ASSUME JournalInv, NEW t \in Tasks, NEW a \in 0 .. MaxAttempts,
           NEW g \in Generations, Withdrawn(t, a, g)
    PROVE  JournalInv'
<1>1. /\ Open
      /\ decided[t].attempt = a
      /\ decided' = [decided EXCEPT ![t] = Undecided]
      /\ UNCHANGED <<generation, lineage, stopped, concluded>>
  BY DEF Withdrawn, AcceptsWithdrawn
<1>2. /\ decided'[t] = Undecided
      /\ \A u \in Tasks : u # t => decided'[u] = decided[u]
      /\ decided' \in [Tasks -> Decision]
      /\ Undecided.outcome = "none" /\ Undecided.attempt = 0
  BY <1>1 DEF JournalInv, JournalTypeOK, Undecided, Decision
<1>3. /\ DOMAIN attempts = 1 .. Len(attempts)
      /\ Len(attempts) \in Nat
      /\ \A b \in DOMAIN attempts : attempts[b].task \in Tasks /\ attempts[b].supersedes \in Nat
      /\ \A u \in Tasks : lineage[u] # 0 => lineage[u] \in DOMAIN attempts
  BY AttemptFields DEF JournalInv, JournalTypeOK
<1>4. CASE a = 0
  <2>1. attempts' = attempts
    BY <1>4 DEF Withdrawn
  <2>2. JournalTypeOK'
    BY <1>1, <1>2, <2>1 DEF JournalInv, JournalTypeOK
  <2>3. WellLinked'
    BY <1>1, <2>1 DEF JournalInv, WellLinked
  <2>4. RetryAfterEnd'
    BY <1>1, <1>2, <1>3, <2>1 DEF JournalInv, RetryAfterEnd, Ended, IsDecided
  <2>5. DecisionHasEvidence'
    BY <1>1, <1>2, <2>1 DEF JournalInv, DecisionHasEvidence
  <2>6. AcceptedEndStands'
    BY <1>1, <1>2, <1>3, <1>4, <2>1 DEF JournalInv, AcceptedEndStands
  <2>7. EndedRunIsQuiet'
    BY <1>1, <2>1 DEF JournalInv, EndedRunIsQuiet, Open, Ended
  <2>8. QED
    BY <2>2, <2>3, <2>4, <2>5, <2>6, <2>7 DEF JournalInv
<1>5. CASE a # 0
  <2>1. /\ a \in DOMAIN attempts /\ attempts[a].end = "passed"
        /\ attempts[a].task = t
    BY <1>1, <1>3, <1>5
       DEF Withdrawn, AcceptsWithdrawn, JournalInv, DecisionHasEvidence
  <2>2. attempts' = [attempts EXCEPT ![a].withdrawn = TRUE]
    BY <1>5 DEF Withdrawn
  <2>3. /\ KeptAttempts(a)
        /\ attempts'[a].end = attempts[a].end
        /\ attempts'[a].withdrawn
    BY <2>1, <2>2, SetWithdrawn DEF JournalInv
  <2>4. /\ DOMAIN attempts' = DOMAIN attempts
        /\ \A b \in DOMAIN attempts :
              /\ attempts'[b].task = attempts[b].task
              /\ attempts'[b].generation = attempts[b].generation
              /\ attempts'[b].supersedes = attempts[b].supersedes
              /\ attempts'[b].end = attempts[b].end
              /\ b # a => attempts'[b].withdrawn = attempts[b].withdrawn
    BY <2>1, <2>3 DEF KeptAttempts
  <2>5. JournalTypeOK'
    BY <1>1, <1>2, <2>3 DEF JournalInv, JournalTypeOK, KeptAttempts
  <2>6. WellLinked'
    <3>1. WellLinked
      BY DEF JournalInv
    <3>2. UNCHANGED <<generation, lineage, concluded>>
      BY <1>1
    <3>3. \A b \in DOMAIN attempts : attempts'[b].withdrawn => attempts[b].end = "passed"
      BY <2>1, <2>4, <3>1 DEF WellLinked
    <3>4. \A u \in Tasks : lineage[u] # 0 => attempts'[lineage[u]].task = u
      BY <1>3, <2>4, <3>1 DEF WellLinked
    <3>5. QED
      BY <2>4, <3>1, <3>2, <3>3, <3>4 DEF WellLinked
  <2>7. RetryAfterEnd'
    <3>1. \A b \in DOMAIN attempts : attempts[b].supersedes # 0 =>
                                        attempts[b].supersedes \in DOMAIN attempts
      BY <1>3 DEF JournalInv, WellLinked
    <3>2. QED
      BY <1>1, <1>2, <1>3, <2>4, <3>1 DEF JournalInv, RetryAfterEnd, Ended, IsDecided
  <2>8. DecisionHasEvidence'
    BY <1>1, <1>2, <1>3, <2>1, <2>4 DEF JournalInv, DecisionHasEvidence
  <2>9. AcceptedEndStands'
    BY <1>1, <1>2, <1>3, <2>1, <2>3, <2>4 DEF JournalInv, AcceptedEndStands
  <2>10. EndedRunIsQuiet'
    BY <1>1, <2>4 DEF JournalInv, EndedRunIsQuiet, Open, Ended
  <2>11. QED
    BY <2>5, <2>6, <2>7, <2>8, <2>9, <2>10 DEF JournalInv
<1>6. QED
  BY <1>4, <1>5

\* `requested`, `resumed`, `stopped` and `concluded` leave every attempt
\* and decision alone.
LEMMA RunFactKeepsInv ==
    ASSUME JournalInv,
           \/ Requested
           \/ \E g \in Generations : \/ Resumed(g)
                                     \/ Stopped(g)
                                     \/ \E o \in RunOutcomes : Concluded(g, o)
    PROVE  JournalInv'
<1> USE BoundsAssumption
<1>1. UNCHANGED <<attempts, lineage, decided>>
  BY DEF Requested, Resumed, Stopped, Concluded
<1>2. generation' \in 0 .. MaxGeneration /\ generation <= generation'
  BY DEF Requested, AcceptsRequested, Resumed, AcceptsResumed, Stopped, Concluded,
         JournalInv, JournalTypeOK, Generations
<1>3. JournalTypeOK'
  BY <1>1, <1>2 DEF Requested, Resumed, Stopped, Concluded, JournalInv, JournalTypeOK
<1>4. WellLinked'
  <2>1. concluded' # "none" => generation' # 0
    BY DEF Requested, Resumed, AcceptsResumed, Stopped, Concluded, AcceptsConcluded, Current,
           JournalInv, JournalTypeOK, WellLinked
  <2>2. QED
    BY <1>1, <1>2, <2>1, AttemptFields DEF JournalInv, JournalTypeOK, WellLinked
<1>5. RetryAfterEnd' /\ DecisionHasEvidence' /\ AcceptedEndStands'
  BY <1>1 DEF JournalInv, RetryAfterEnd, DecisionHasEvidence, AcceptedEndStands,
              Ended, IsDecided
<1>6. EndedRunIsQuiet'
  <2>1. CASE Requested
    BY <1>1, <2>1, AttemptFields DEF Requested, AcceptsRequested, JournalInv, WellLinked,
             EndedRunIsQuiet, Ended, IsDecided
  <2>2. ASSUME NEW g \in Generations, Resumed(g) PROVE EndedRunIsQuiet'
    BY <1>1, <2>2 DEF Resumed, AcceptsResumed, JournalInv, EndedRunIsQuiet
  <2>3. ASSUME NEW g \in Generations, Stopped(g) PROVE EndedRunIsQuiet'
    BY <1>1, <2>3 DEF Stopped, AcceptsStopped, Current, Open, EndedRunIsQuiet, Ended
  <2>4. ASSUME NEW g \in Generations, NEW o \in RunOutcomes, Concluded(g, o)
        PROVE  EndedRunIsQuiet'
    BY <1>1, <2>4 DEF Concluded, AcceptsConcluded, Open, JournalInv, EndedRunIsQuiet,
                      JournalTypeOK, Ended, IsDecided
  <2>5. QED
    BY <2>1, <2>2, <2>3, <2>4
<1>7. QED
  BY <1>3, <1>4, <1>5, <1>6 DEF JournalInv

-----------------------------------------------------------------------------
\* The invariant holds of a run not requested yet.
LEMMA InitInv == JournalInit => JournalInv
<1> SUFFICES ASSUME JournalInit PROVE JournalInv
  OBVIOUS
<1>1. attempts = <<>> /\ attempts \in Seq(Attempt) /\ Len(attempts) = 0
      /\ DOMAIN attempts = {}
  BY DEF JournalInit
<1>2. Undecided \in Decision /\ Undecided.outcome = "none" /\ Undecided.attempt = 0
  BY DEF Undecided, Decision
<1>3. JournalTypeOK
  <2>1. generation \in 0 .. MaxGeneration /\ Len(attempts) <= MaxAttempts
    BY <1>1, BoundsAssumption DEF JournalInit
  <2>2. lineage \in [Tasks -> 0 .. Len(attempts)] /\ decided \in [Tasks -> Decision]
    BY <1>1, <1>2 DEF JournalInit
  <2>3. stopped \in BOOLEAN /\ concluded \in RunOutcomes \cup {"none"}
    BY DEF JournalInit
  <2>4. QED
    BY <1>1, <2>1, <2>2, <2>3 DEF JournalTypeOK
<1>4. QED
  BY <1>1, <1>2, <1>3 DEF JournalInit, JournalInv, WellLinked, RetryAfterEnd, DecisionHasEvidence,
                          AcceptedEndStands, EndedRunIsQuiet

\* Every fact the journal accepts keeps it.
LEMMA NextInv == JournalInv /\ [JournalNext]_journal => JournalInv'
<1> SUFFICES ASSUME JournalInv, [JournalNext]_journal PROVE JournalInv'
  OBVIOUS
<1>1. CASE \/ Requested
           \/ \E g \in Generations : \/ Resumed(g)
                                     \/ Stopped(g)
                                     \/ \E o \in RunOutcomes : Concluded(g, o)
  BY <1>1, RunFactKeepsInv
<1>2. ASSUME NEW g \in Generations, NEW t \in Tasks, NEW s \in 0 .. MaxAttempts,
             Dispatched(t, g, s)
      PROVE  JournalInv'
  BY <1>2, DispatchedKeepsInv
<1>3. ASSUME NEW g \in Generations, NEW t \in Tasks, Reused(t, g)
      PROVE  JournalInv'
  <2>1. "cached" \in Outcomes
    BY DEF Outcomes
  <2>2. QED
    BY <1>3, <2>1, DecidedWithoutAttemptKeepsInv DEF Reused, AcceptsReused
<1>4. ASSUME NEW g \in Generations, NEW t \in Tasks, NEW o \in Outcomes, Settled(t, g, o)
      PROVE  JournalInv'
  BY <1>4, DecidedWithoutAttemptKeepsInv DEF Settled, AcceptsSettled
<1>5. ASSUME NEW g \in Generations, NEW t \in Tasks, NEW a \in 0 .. MaxAttempts,
             Withdrawn(t, a, g)
      PROVE  JournalInv'
  BY <1>5, WithdrawnKeepsInv
<1>6. ASSUME NEW g \in Generations, NEW a \in AttemptIds, Started(a, g)
      PROVE  JournalInv'
  BY <1>6, StartedKeepsInv
<1>7. ASSUME NEW g \in Generations, NEW a \in AttemptIds, NEW x \in BOOLEAN,
             NEW o \in Outcomes, Finished(a, g, x, o)
      PROVE  JournalInv'
  BY <1>7, FinishedKeepsInv
<1>8. ASSUME NEW g \in Generations, NEW a \in AttemptIds, Interrupted(a, g)
      PROVE  JournalInv'
  BY <1>8, EndedWithoutOutcomeKeepsInv DEF Interrupted, AcceptsInterrupted
<1>9. ASSUME NEW g \in Generations, NEW a \in AttemptIds, NEW r \in LostEnds, Lost(a, g, r)
      PROVE  JournalInv'
  BY <1>9, EndedWithoutOutcomeKeepsInv DEF Lost, AcceptsLost
<1>10. CASE UNCHANGED journal
  BY <1>10 DEF journal, JournalInv, JournalTypeOK, WellLinked, RetryAfterEnd,
               DecisionHasEvidence, AcceptedEndStands, EndedRunIsQuiet, Ended, IsDecided
<1>11. QED
  BY <1>1, <1>2, <1>3, <1>4, <1>5, <1>6, <1>7, <1>8, <1>9, <1>10 DEF JournalNext

LEMMA InvHolds == JournalSpec => []JournalInv
  BY InitInv, NextInv, PTL DEF JournalSpec

\* Whatever facts are tried, a run's journal stays well formed.
THEOREM TypeCorrect == JournalSpec => []JournalTypeOK
<1>1. JournalInv => JournalTypeOK
  BY DEF JournalInv
<1>2. QED
  BY <1>1, InvHolds, PTL

\* A retry is dispatched only after everything it supersedes has ended, and
\* a task has at most one attempt without an end, which its lineage ends in.
THEOREM RetryIsOrdered == JournalSpec => []RetryAfterEnd
<1>1. JournalInv => RetryAfterEnd
  BY DEF JournalInv
<1>2. QED
  BY <1>1, InvHolds, PTL

\* Every decision by an attempt has its evidence in the journal.
THEOREM DecisionsAreEvident == JournalSpec => []DecisionHasEvidence
<1>1. JournalInv => DecisionHasEvidence
  BY DEF JournalInv
<1>2. QED
  BY <1>1, InvHolds, PTL

\* An accepted end is never dropped, and a failure never even withdrawn.
THEOREM EndsStand == JournalSpec => []AcceptedEndStands
<1>1. JournalInv => AcceptedEndStands
  BY DEF JournalInv
<1>2. QED
  BY <1>1, InvHolds, PTL

\* A stopped run has nothing running under it, a concluded one nothing open.
THEOREM EndedRunsAreQuiet == JournalSpec => []EndedRunIsQuiet
<1>1. JournalInv => EndedRunIsQuiet
  BY DEF JournalInv
<1>2. QED
  BY <1>1, InvHolds, PTL

\* A coordinator that a newer generation fenced off completes nothing: what
\* it left unfinished can only be found lost.
THEOREM StaleIsRefused == JournalSpec => StaleNeverCompletes
<1> DEFINE A == \A a \in DOMAIN attempts :
                    (attempts[a].generation < generation /\ ~Ended(a)) =>
                        attempts'[a].end \in {"none"} \cup LostEnds
<1>1. ASSUME JournalInv, [JournalNext]_journal PROVE [A]_journal
  <2> SUFFICES ASSUME NEW a \in DOMAIN attempts, attempts[a].generation < generation,
                      ~Ended(a), JournalNext
               PROVE  attempts'[a].end \in {"none"} \cup LostEnds
    BY <1>1
  <2>1. attempts[a].end = "none" /\ attempts[a].generation # generation
    BY AttemptFields, <1>1 DEF Ended, JournalInv, JournalTypeOK
  <2>2. CASE attempts' = attempts
    BY <2>1, <2>2
  <2>3. ASSUME NEW g \in Generations, NEW t \in Tasks, NEW s \in 0 .. MaxAttempts,
               Dispatched(t, g, s)
        PROVE  attempts'[a].end = "none"
    <3> DEFINE r == [task |-> t, generation |-> g, supersedes |-> s,
                     started |-> FALSE, end |-> "none", withdrawn |-> FALSE]
    <3>1. r \in Attempt
      BY BoundsAssumption DEF Attempt, Ends, Generations
    <3>2. attempts' = Append(attempts, r)
      BY <2>3 DEF Dispatched
    <3> HIDE DEF r
    <3>3. attempts'[a] = attempts[a]
      BY <1>1, <3>1, <3>2, AppendedAttempt DEF JournalInv
    <3>4. QED
      BY <2>1, <3>3
  <2>4. ASSUME NEW b \in AttemptIds, NEW g \in Generations, Started(b, g)
        PROVE  attempts'[a].end = "none"
    <3>1. b \in DOMAIN attempts /\ b # a
          /\ attempts' = [attempts EXCEPT ![b].started = TRUE]
      BY <2>1, <2>4 DEF Started, AcceptsStarted, Known, Current
    <3>2. KeptAttempts(b)
      BY <1>1, <3>1, SetStarted DEF JournalInv
    <3>3. QED
      BY <2>1, <3>1, <3>2 DEF KeptAttempts
  <2>5. ASSUME NEW b \in AttemptIds, NEW g \in Generations, NEW e \in Ends,
               Known(b), attempts' = [attempts EXCEPT ![b].end = e],
               b = a => e \in LostEnds
        PROVE  attempts'[a].end \in {"none"} \cup LostEnds
    <3>1. KeptAttempts(b) /\ attempts'[b].end = e
      BY <1>1, <2>5, SetEnd DEF JournalInv, Known
    <3>2. QED
      BY <2>1, <2>5, <3>1 DEF KeptAttempts
  <2>6. ASSUME NEW b \in AttemptIds, NEW g \in Generations, NEW x \in BOOLEAN,
               NEW o \in Outcomes, Finished(b, g, x, o)
        PROVE  attempts'[a].end \in {"none"} \cup LostEnds
    <3>1. b # a /\ Known(b) /\ o \in Ends /\ attempts' = [attempts EXCEPT ![b].end = o]
      BY <2>1, <2>6 DEF Finished, AcceptsFinished, FinishedEnds, Ends
    <3>2. QED
      BY <2>5, <3>1
  <2>7. ASSUME NEW b \in AttemptIds, NEW g \in Generations, Interrupted(b, g)
        PROVE  attempts'[a].end \in {"none"} \cup LostEnds
    <3>1. b # a /\ Known(b) /\ "interrupted" \in Ends
          /\ attempts' = [attempts EXCEPT ![b].end = "interrupted"]
      BY <2>1, <2>7 DEF Interrupted, AcceptsInterrupted, Current, Ends
    <3>2. QED
      BY <2>5, <2>7, <3>1
  <2>8. ASSUME NEW b \in AttemptIds, NEW g \in Generations, NEW r \in LostEnds, Lost(b, g, r)
        PROVE  attempts'[a].end \in {"none"} \cup LostEnds
    <3>1. Known(b) /\ r \in Ends /\ attempts' = [attempts EXCEPT ![b].end = r]
      BY <2>8 DEF Lost, AcceptsLost, Ends
    <3>2. QED
      BY <2>5, <2>8, <3>1
  <2>9. ASSUME NEW t \in Tasks, NEW b \in 0 .. MaxAttempts, NEW g \in Generations,
               Withdrawn(t, b, g), b # 0
        PROVE  attempts'[a].end = "none"
    <3>1. /\ decided[t].attempt = b
          /\ attempts' = [attempts EXCEPT ![b].withdrawn = TRUE]
          /\ attempts[b].end = "passed"
      BY <2>9 DEF Withdrawn, AcceptsWithdrawn
    <3>2. b \in DOMAIN attempts /\ b # a
      BY <1>1, <2>1, <2>9, <3>1, AttemptFields
         DEF JournalInv, JournalTypeOK, DecisionHasEvidence
    <3>3. KeptAttempts(b)
      BY <1>1, <3>1, <3>2, SetWithdrawn DEF JournalInv
    <3>4. QED
      BY <2>1, <3>2, <3>3 DEF KeptAttempts
  <2>10. CASE \E t \in Tasks, b \in 0 .. MaxAttempts, g \in Generations : Withdrawn(t, b, g)
    BY <2>2, <2>9, <2>10 DEF Withdrawn
  <2>11. CASE \/ Requested
              \/ \E g \in Generations :
                    \/ Resumed(g)
                    \/ Stopped(g)
                    \/ \E o \in RunOutcomes : Concluded(g, o)
                    \/ \E t \in Tasks : \/ Reused(t, g)
                                        \/ \E o \in Outcomes : Settled(t, g, o)
    BY <2>2, <2>11 DEF Requested, Resumed, Stopped, Concluded, Reused, Settled
  <2>12. QED
    BY <2>3, <2>4, <2>6, <2>7, <2>8, <2>10, <2>11 DEF JournalNext
<1>2. QED
  BY <1>1, InvHolds, PTL DEF JournalSpec, StaleNeverCompletes

\* Nothing is recorded after the receipt.
THEOREM ConcludedIsEnd == JournalSpec => ConcludedIsFinal
<1>1. ASSUME JournalInv, [JournalNext]_journal PROVE [concluded = "none"]_journal
  <2> SUFFICES ASSUME concluded # "none", JournalNext PROVE FALSE
    BY <1>1
  <2>1. generation # 0
    BY <1>1 DEF JournalInv, WellLinked
  <2>2. \A a \in DOMAIN attempts : Ended(a)
    BY <1>1 DEF JournalInv, EndedRunIsQuiet
  <2>3. ~Open
    BY DEF Open
  <2>4. ASSUME NEW g \in Generations, NEW a \in AttemptIds,
               \/ Started(a, g)
               \/ \E x \in BOOLEAN, o \in Outcomes : Finished(a, g, x, o)
               \/ Interrupted(a, g)
               \/ \E r \in LostEnds : Lost(a, g, r)
        PROVE  FALSE
    <3>1. Known(a) /\ ~Ended(a)
      BY <2>4 DEF Started, AcceptsStarted, Finished, AcceptsFinished, Interrupted,
                  AcceptsInterrupted, Lost, AcceptsLost
    <3>2. QED
      BY <2>2, <3>1 DEF Known
  <2>5. ASSUME NEW g \in Generations, NEW t \in Tasks,
               \/ \E s \in 0 .. MaxAttempts : Dispatched(t, g, s)
               \/ Reused(t, g)
               \/ \E o \in Outcomes : Settled(t, g, o)
               \/ \E a \in 0 .. MaxAttempts : Withdrawn(t, a, g)
        PROVE  FALSE
    BY <2>3, <2>5 DEF Dispatched, AcceptsDispatched, Reused, AcceptsReused, Settled,
                      AcceptsSettled, Withdrawn, AcceptsWithdrawn
  <2>6. ASSUME NEW g \in Generations,
               Resumed(g) \/ Stopped(g) \/ \E o \in RunOutcomes : Concluded(g, o)
        PROVE  FALSE
    BY <2>3, <2>6 DEF Resumed, AcceptsResumed, Stopped, AcceptsStopped, Concluded,
                      AcceptsConcluded
  <2>7. ~Requested
    BY <2>1 DEF Requested, AcceptsRequested
  <2>8. QED
    BY <2>4, <2>5, <2>6, <2>7 DEF JournalNext
<1>2. QED
  BY <1>1, InvHolds, PTL DEF JournalSpec, ConcludedIsFinal

-----------------------------------------------------------------------------
(***************************************************************************)
(* The run implements the journal.                                         *)
(***************************************************************************)
(***************************************************************************)
(* The invariant: the journal's own, and the shape of the coordinators'    *)
(* state, which bounds what a coordinator can try to record.               *)
(***************************************************************************)
RunInv == JournalInv /\ DurableTypeOK

JournalStep == JournalNext \/ UNCHANGED journal

-----------------------------------------------------------------------------
\* Every fact a coordinator records is one of the journal's, because the
\* journal accepted it.
LEMMA RequestedIsAFact == Requested => JournalNext
  BY DEF JournalNext

LEMMA ResumedIsAFact ==
    ASSUME JournalTypeOK, NEW g, Resumed(g)
    PROVE  g \in Generations /\ JournalNext
<1>1. g \in Generations
  BY DEF Resumed, AcceptsResumed, JournalTypeOK, Generations
<1>2. QED
  BY <1>1 DEF JournalNext

LEMMA CurrentIsGeneration ==
    ASSUME JournalTypeOK, NEW g, Current(g)
    PROVE  g \in Generations
  BY DEF Current, JournalTypeOK, Generations

LEMMA KnownIsAttempt ==
    ASSUME JournalTypeOK, NEW a, Known(a)
    PROVE  a \in AttemptIds /\ a \in DOMAIN attempts
  BY AttemptFields, BoundsAssumption DEF Known, JournalTypeOK, AttemptIds

LEMMA DispatchedIsAFact ==
    ASSUME JournalTypeOK, NEW t \in Tasks, NEW g, NEW s, Dispatched(t, g, s)
    PROVE  JournalNext
<1>1. g \in Generations
  BY CurrentIsGeneration DEF Dispatched, AcceptsDispatched
<1>2. s \in 0 .. MaxAttempts
  BY BoundsAssumption DEF Dispatched, AcceptsDispatched, JournalTypeOK
<1>3. QED
  BY <1>1, <1>2 DEF JournalNext

LEMMA AttemptFactIsAFact ==
    ASSUME JournalTypeOK, NEW a, NEW g,
           \/ Started(a, g)
           \/ \E x \in BOOLEAN : \E o : Finished(a, g, x, o)
           \/ Interrupted(a, g)
           \/ \E r : Lost(a, g, r)
    PROVE  JournalNext
<1>1. Current(g) /\ Known(a)
  BY DEF Started, AcceptsStarted, Finished, AcceptsFinished, Interrupted,
         AcceptsInterrupted, Lost, AcceptsLost, Current
<1>2. g \in Generations /\ a \in AttemptIds
  BY <1>1, CurrentIsGeneration, KnownIsAttempt
<1>3. ASSUME NEW x \in BOOLEAN, NEW o, Finished(a, g, x, o) PROVE JournalNext
  <2>1. o \in Outcomes
    BY <1>3 DEF Finished, AcceptsFinished, FinishedEnds, Outcomes
  <2>2. QED
    BY <1>2, <1>3, <2>1 DEF JournalNext
<1>4. ASSUME NEW r, Lost(a, g, r) PROVE JournalNext
  BY <1>2, <1>4 DEF JournalNext, Lost
<1>5. QED
  BY <1>2, <1>3, <1>4 DEF JournalNext

LEMMA TaskFactIsAFact ==
    ASSUME JournalInv, NEW t \in Tasks, NEW g,
           \/ Reused(t, g)
           \/ \E o : Settled(t, g, o)
           \/ \E a : Withdrawn(t, a, g)
    PROVE  JournalNext
<1>1. g \in Generations
  BY CurrentIsGeneration DEF Reused, AcceptsReused, Settled, AcceptsSettled,
     Withdrawn, AcceptsWithdrawn, JournalInv
<1>2. ASSUME NEW o, Settled(t, g, o) PROVE JournalNext
  BY <1>1, <1>2 DEF JournalNext, Settled, AcceptsSettled, Outcomes
<1>3. ASSUME NEW a, Withdrawn(t, a, g) PROVE JournalNext
  <2>1. a = 0 \/ a = lineage[t]
    BY <1>3 DEF Withdrawn, AcceptsWithdrawn, JournalInv, DecisionHasEvidence
  <2>2. a \in 0 .. MaxAttempts
    BY <2>1, BoundsAssumption DEF JournalInv, JournalTypeOK
  <2>3. QED
    BY <1>1, <1>3, <2>2 DEF JournalNext
<1>4. QED
  BY <1>1, <1>2, <1>3 DEF JournalNext

LEMMA EndIsAFact ==
    ASSUME JournalTypeOK, NEW g, Stopped(g) \/ \E o : Concluded(g, o)
    PROVE  JournalNext
<1>1. g \in Generations
  BY CurrentIsGeneration DEF Stopped, AcceptsStopped, Concluded, AcceptsConcluded
<1>2. QED
  BY <1>1 DEF JournalNext, Concluded

-----------------------------------------------------------------------------
\* A process that leaves keeps the coordinators' state well formed.
LEMMA UnbornType == Unborn \in CoState
<1>1. Len(Levels) \in Nat /\ 0 \in 0 .. Len(Levels) /\ 0 \in 0 .. MaxGeneration
  BY GraphAssumption, BoundsAssumption
<1>2. << >> \in Seq(Pass)
  OBVIOUS
<1>3. [t \in Tasks |-> "none"] \in [Tasks -> Outcomes \cup {"none"}]
  OBVIOUS
<1>4. QED
  BY <1>1, <1>2, <1>3 DEF Unborn, CoState

\* The shape of the coordinators' own state.
CoOK ==
    /\ lease \in Coordinators \cup {NoOne}
    /\ co \in [Coordinators -> CoState]
    /\ \A c \in Coordinators : At(c, "consider") => co[c].level > 0 /\ co[c].pos > 0
    /\ thread \in [Coordinators -> [Tasks -> ThreadState]]

LEMMA TypeParts ==
    DurableTypeOK <=> /\ CoOK
                      /\ proc \in [AttemptIds -> {"none", "alive", "exit0", "exit1"}]
                      /\ closed \in SUBSET AttemptIds
                      /\ trapped \in SUBSET AttemptIds
                      /\ now \in Nat
  BY DEF DurableTypeOK, CoOK

\* A coordinator's record is replaced by another well-formed one.
LEMMA MovedKeepsCoOK ==
    ASSUME CoOK, NEW c \in Coordinators, NEW r \in CoState,
           r.pc = "consider" => r.level > 0 /\ r.pos > 0,
           co' = [co EXCEPT ![c] = r],
           lease' \in Coordinators \cup {NoOne},
           thread' \in [Coordinators -> [Tasks -> ThreadState]]
    PROVE  CoOK'
  BY DEF CoOK, At

LEMMA NoThreadsType == NoThreads \in [Tasks -> ThreadState]
<1>1. 0 \in 0 .. MaxAttempts
  BY BoundsAssumption
<1>2. QED
  BY <1>1 DEF NoThreads, NoThread, ThreadState, Returned

\* A process that leaves keeps the coordinators' state well formed.
LEMMA GoneKeepsCoOK ==
    ASSUME CoOK, NEW c \in Coordinators, Gone(c)
    PROVE  CoOK'
<1>1. [Unborn EXCEPT !.pc = "gone"] \in CoState
  BY UnbornType DEF CoState
<1>2. [Unborn EXCEPT !.pc = "gone"].pc = "gone"
  BY UnbornType DEF CoState
<1>3. thread' \in [Coordinators -> [Tasks -> ThreadState]]
  BY NoThreadsType DEF Gone, CoOK
<1>4. lease' \in Coordinators \cup {NoOne}
  BY DEF Gone, CoOK
<1>5. co' = [co EXCEPT ![c] = [Unborn EXCEPT !.pc = "gone"]]
  BY DEF Gone
<1>6. QED
  BY <1>1, <1>2, <1>3, <1>4, <1>5, MovedKeepsCoOK

LEMMA WorldKept ==
    ASSUME DurableTypeOK, CoOK', UNCHANGED world
    PROVE  DurableTypeOK'
<1>1. UNCHANGED <<proc, closed, trapped, now>>
  BY DEF world
<1>2. QED
  BY <1>1 DEF DurableTypeOK, CoOK

\* One thread moves, to a state of the right shape.
LEMMA ThreadKeepsType ==
    ASSUME CoOK, NEW c \in Coordinators, NEW t \in Tasks, NEW r \in ThreadState,
           thread' = [thread EXCEPT ![c][t] = r]
    PROVE  thread' \in [Coordinators -> [Tasks -> ThreadState]]
  BY DEF CoOK

-----------------------------------------------------------------------------
\* Each action records at most one fact, and keeps the shape of the state.
LEMMA CreateStep ==
    ASSUME RunInv, NEW c \in Coordinators, Create(c)
    PROVE  JournalStep /\ DurableTypeOK'
<1>1. JournalStep
  BY RequestedIsAFact DEF Create, JournalStep
<1>2. CoOK
  BY TypeParts DEF RunInv
<1>3. ASSUME NEW pc \in {"level", "detach"}, Begin(c, 1, pc), lease' = c, UNCHANGED thread
      PROVE  CoOK'
  <2>1. 1 \in 0 .. MaxGeneration
    BY BoundsAssumption
  <2>2. [Unborn EXCEPT !.pc = pc, !.generation = 1] \in CoState
    BY <2>1, UnbornType DEF CoState, Executing
  <2>3. [Unborn EXCEPT !.pc = pc, !.generation = 1].pc = pc
    BY UnbornType DEF CoState
  <2>4. QED
    BY <1>2, <1>3, <2>2, <2>3, MovedKeepsCoOK DEF Begin, CoOK
<1>4. CoOK'
  BY <1>2, <1>3, GoneKeepsCoOK DEF Create
<1>5. QED
  BY <1>1, <1>4, WorldKept DEF RunInv, Create

LEMMA DetachStep ==
    ASSUME RunInv, NEW c \in Coordinators, Detach(c) \/ Received(c)
    PROVE  JournalStep /\ DurableTypeOK'
<1>1. JournalStep
  BY EndIsAFact DEF RunInv, JournalInv, Detach, Received, NotStarted, Recorded, NotRecorded,
     JournalStep
<1>2. CoOK
  BY TypeParts DEF RunInv
<1>3. ASSUME NEW pc \in {"received", "level"}, Moved(c, pc), UNCHANGED <<lease, thread>>
      PROVE  CoOK'
  <2>0. co[c] \in CoState
    BY <1>2 DEF CoOK
  <2>1. [co[c] EXCEPT !.pc = pc] \in CoState
    BY <2>0 DEF CoState, Executing
  <2>2. [co[c] EXCEPT !.pc = pc].pc = pc
    BY <1>2 DEF CoOK, CoState
  <2>3. co' = [co EXCEPT ![c] = [co[c] EXCEPT !.pc = pc]]
    BY <1>3 DEF Moved
  <2>4. QED
    BY <1>2, <1>3, <2>1, <2>2, <2>3, MovedKeepsCoOK DEF CoOK
<1>4. CoOK'
  BY <1>2, <1>3, GoneKeepsCoOK DEF Detach, Received, NotStarted
<1>5. QED
  BY <1>1, <1>4, WorldKept DEF RunInv, Detach, Received

LEMMA ReopenStep ==
    ASSUME RunInv, NEW c \in Coordinators, NEW assume, Reopen(c, assume)
    PROVE  JournalStep /\ DurableTypeOK'
<1>1. CoOK
  BY TypeParts DEF RunInv
<1> DEFINE s == {a \in OpenAttempts : GroupExists(a)}
<1> DEFINE r == [Unborn EXCEPT !.pc = "reopened", !.generation = generation, !.assumed = s]
<1>2. generation \in 0 .. MaxGeneration
  BY DEF RunInv, JournalInv, JournalTypeOK
<1>3. s \in SUBSET AttemptIds
  BY KnownIsAttempt DEF OpenAttempts, RunInv, JournalInv, Known
<1>4. r \in CoState /\ r.pc = "reopened"
  BY <1>2, <1>3, UnbornType DEF CoState
<1>5. co' = [co EXCEPT ![c] = r] /\ lease' = c /\ UNCHANGED thread
  BY DEF Reopen
<1>6. CoOK'
  BY <1>1, <1>4, <1>5, MovedKeepsCoOK DEF CoOK
<1>7. QED
  BY <1>6, WorldKept DEF RunInv, Reopen, JournalStep

LEMMA LeaveStep ==
    ASSUME RunInv, NEW c \in Coordinators, Decline(c) \/ Crash(c)
    PROVE  JournalStep /\ DurableTypeOK'
<1>1. CoOK'
  BY TypeParts, GoneKeepsCoOK DEF RunInv, Decline, Crash
<1>2. QED
  BY <1>1, WorldKept DEF RunInv, Decline, Crash, JournalStep

LEMMA TakeOverStep ==
    ASSUME RunInv, NEW c \in Coordinators, TakeOver(c)
    PROVE  JournalStep /\ DurableTypeOK'
<1> DEFINE g == co[c].generation + 1
<1>1. CoOK /\ JournalTypeOK
  BY TypeParts DEF RunInv, JournalInv
<1>2. JournalStep
  BY <1>1, ResumedIsAFact DEF TakeOver, Recorded, NotRecorded, JournalStep
<1>3. ASSUME Resumed(g), co' = [co EXCEPT ![c].generation = g, ![c].pc = "losing"],
             UNCHANGED <<lease, thread>>
      PROVE  CoOK'
  <2> DEFINE r == [co[c] EXCEPT !.generation = g, !.pc = "losing"]
  <2>1. g \in 0 .. MaxGeneration
    BY <1>1, <1>3, ResumedIsAFact DEF Generations
  <2>0. co[c] \in CoState
    BY <1>1 DEF CoOK
  <2>2. r \in CoState /\ r.pc = "losing"
    BY <2>0, <2>1 DEF CoState
  <2>3. co' = [co EXCEPT ![c] = r]
    BY <1>1, <1>3 DEF CoOK, CoState
  <2>4. QED
    BY <1>1, <1>3, <2>2, <2>3, MovedKeepsCoOK DEF CoOK
<1>4. CoOK'
  BY <1>1, <1>3, GoneKeepsCoOK DEF TakeOver, Recorded
<1>5. QED
  BY <1>2, <1>4, WorldKept DEF RunInv, TakeOver

LEMMA RecordLostStep ==
    ASSUME RunInv, NEW c \in Coordinators, NEW a, RecordLost(c, a)
    PROVE  JournalStep /\ DurableTypeOK'
<1>1. CoOK /\ JournalTypeOK
  BY TypeParts DEF RunInv, JournalInv
<1>2. JournalStep
  BY <1>1, AttemptFactIsAFact DEF RecordLost, Recorded, NotRecorded, JournalStep
<1>3. CASE UNCHANGED <<lease, co, thread>>
  BY <1>1, <1>2, <1>3, WorldKept DEF RunInv, RecordLost, CoOK, At
<1>4. CASE Gone(c)
  BY <1>1, <1>2, <1>4, GoneKeepsCoOK, WorldKept DEF RunInv, RecordLost
<1>5. QED
  BY <1>3, <1>4 DEF RecordLost

LEMMA TakenOverStep ==
    ASSUME RunInv, NEW c \in Coordinators, TakenOver(c)
    PROVE  JournalStep /\ DurableTypeOK'
<1> DEFINE d == [t \in Tasks |-> decided[t].outcome]
<1> DEFINE r == [co[c] EXCEPT !.pc = "level", !.assumed = {}, !.decided = d]
<1>1. CoOK /\ JournalTypeOK
  BY TypeParts DEF RunInv, JournalInv
<1>2. d \in [Tasks -> Outcomes \cup {"none"}]
  BY <1>1 DEF JournalTypeOK, Decision
<1>a. co[c] \in CoState
  BY <1>1 DEF CoOK
<1>3. r \in CoState /\ r.pc = "level"
  BY <1>a, <1>2 DEF CoState, Executing
<1>4. co' = [co EXCEPT ![c] = r]
  BY <1>1 DEF TakenOver, CoOK, CoState
<1>5. CoOK'
  BY <1>1, <1>3, <1>4, MovedKeepsCoOK DEF TakenOver, CoOK
<1>6. QED
  BY <1>5, WorldKept DEF RunInv, TakenOver, JournalStep

LEMMA StartLevelStep ==
    ASSUME RunInv, NEW c \in Coordinators, StartLevel(c)
    PROVE  JournalStep /\ DurableTypeOK'
<1>1. CoOK
  BY TypeParts DEF RunInv
<1>2. co[c] \in CoState
  BY <1>1 DEF CoOK
<1> DEFINE next == [co[c] EXCEPT !.level = @ + 1, !.pos = 1, !.pc = "consider"]
<1>3. CASE co[c].level < Len(Levels) /\ co' = [co EXCEPT ![c] = next]
  <2>1. co[c].level \in Nat /\ Len(Levels) \in Nat
    BY <1>2, GraphAssumption DEF CoState
  <2>2. co[c].level + 1 \in 0 .. Len(Levels) /\ co[c].level + 1 > 0
    BY <1>3, <2>1
  <2>3. next \in CoState
    BY <1>2, <2>2 DEF CoState, Executing
  <2>4. next.level > 0 /\ next.pos > 0
    BY <1>2, <2>2 DEF CoState
  <2>5. CoOK'
    BY <1>1, <1>3, <2>3, <2>4, MovedKeepsCoOK DEF StartLevel, CoOK
  <2>6. QED
    BY <2>5, WorldKept DEF RunInv, StartLevel, JournalStep
<1>4. ASSUME NEW pc \in {"window", "withdraw"}, Moved(c, pc) PROVE CoOK'
  <2>1. [co[c] EXCEPT !.pc = pc] \in CoState /\ [co[c] EXCEPT !.pc = pc].pc = pc
    BY <1>2 DEF CoState, Executing
  <2>2. co' = [co EXCEPT ![c] = [co[c] EXCEPT !.pc = pc]]
    BY <1>4 DEF Moved
  <2>3. QED
    BY <1>1, <2>1, <2>2, MovedKeepsCoOK DEF StartLevel, CoOK
<1>5. CASE ~(co[c].level < Len(Levels) /\ co' = [co EXCEPT ![c] = next])
  <2>1. \E pc \in {"window", "withdraw"} : Moved(c, pc)
    BY <1>1, <1>2, <1>5 DEF StartLevel, CoOK, CoState
  <2>2. QED
    BY <1>4, <2>1, WorldKept DEF RunInv, StartLevel, JournalStep
<1>6. QED
  BY <1>3, <1>5

\* A task decided without a thread: its place in the vector, and the position.
LEMMA DecidesKeepsCoOK ==
    ASSUME CoOK, NEW c \in Coordinators, At(c, "consider"), NEW t \in Tasks,
           NEW o \in Outcomes, Decides(c, t, o), UNCHANGED <<lease, thread>>
    PROVE  CoOK'
<1> DEFINE d == [co[c].decided EXCEPT ![t] = o]
<1> DEFINE n == co[c].pos + 1
<1> DEFINE r == [co[c] EXCEPT !.decided = d, !.pos = n]
<1>1. co[c] \in CoState /\ co[c].level > 0 /\ co[c].pos > 0
  BY DEF CoOK
<1>2. d \in [Tasks -> Outcomes \cup {"none"}]
  BY <1>1 DEF CoState
<1>3. r \in CoState /\ r.level > 0 /\ r.pos > 0
  <2>1. n \in Nat /\ n > 0 /\ co[c].level > 0
    BY <1>1 DEF CoState
  <2> HIDE DEF d, n
  <2> QED
    BY <1>1, <1>2, <2>1 DEF CoState
<1>4. co' = [co EXCEPT ![c] = r]
  BY DEF Decides
<1>5. QED
  BY <1>3, <1>4, MovedKeepsCoOK DEF CoOK

LEMMA ReuseKeepsCoOK ==
    ASSUME CoOK, now \in Nat, NEW c \in Coordinators, At(c, "consider"), NEW t \in Tasks,
           Reuse(c, t)
    PROVE  CoOK'
<1> DEFINE p == [task |-> t, attempt |-> 0, at |-> now]
<1> DEFINE d == [co[c].decided EXCEPT ![t] = "cached"]
<1> DEFINE n == co[c].pos + 1
<1> DEFINE q == Append(co[c].passes, p)
<1> DEFINE r == [co[c] EXCEPT !.decided = d, !.pos = n, !.passes = q]
<1>1. co[c] \in CoState /\ co[c].level > 0 /\ co[c].pos > 0
  BY DEF CoOK
<1>2. d \in [Tasks -> Outcomes \cup {"none"}]
  BY <1>1 DEF CoState, Outcomes
<1>3. p \in Pass
  BY DEF Pass
<1>4. q \in Seq(Pass)
  BY <1>1, <1>3 DEF CoState
<1>5. r \in CoState /\ r.level > 0 /\ r.pos > 0
  <2>1. n \in Nat /\ n > 0 /\ co[c].level > 0
    BY <1>1 DEF CoState
  <2> HIDE DEF d, q, n
  <2> QED
    BY <1>1, <1>2, <1>4, <2>1 DEF CoState
<1>6. CASE co' = [co EXCEPT ![c] = r] /\ UNCHANGED <<lease, thread>>
  BY <1>5, <1>6, MovedKeepsCoOK DEF CoOK
<1>7. CASE Gone(c)
  BY <1>7, GoneKeepsCoOK
<1>8. QED
  BY <1>6, <1>7 DEF Reuse

LEMMA ConsiderStep ==
    ASSUME RunInv, NEW c \in Coordinators, Consider(c)
    PROVE  JournalStep /\ DurableTypeOK'
<1> DEFINE t == Levels[co[c].level][co[c].pos]
<1>1. CoOK /\ At(c, "consider") /\ now \in Nat
  BY TypeParts DEF RunInv, Consider
<1>2. co[c] \in CoState /\ co[c].level > 0 /\ co[c].pos > 0
  BY <1>1 DEF CoOK
<1>3. t \in Tasks
  <2>1. co[c].level \in DOMAIN Levels /\ Levels[co[c].level] \in Seq(Tasks)
    BY <1>2, GraphAssumption DEF CoState
  <2>2. co[c].pos <= Len(Levels[co[c].level])
    BY DEF Consider
  <2>3. co[c].pos \in Nat /\ co[c].pos > 0
    BY <1>2 DEF CoState
  <2>4. co[c].pos \in 1 .. Len(Levels[co[c].level])
    BY <2>1, <2>2, <2>3
  <2>5. QED
    BY <2>1, <2>4
<1>4. JournalStep
  BY <1>3, TaskFactIsAFact DEF RunInv, Consider, SettleAs, Reuse, Recorded, NotRecorded,
     JournalStep
<1>5. ASSUME NEW o \in {"blocked", "errored"}, SettleAs(c, t, o) PROVE CoOK'
  BY <1>1, <1>3, <1>5, DecidesKeepsCoOK, GoneKeepsCoOK DEF SettleAs, Outcomes
<1>6. ASSUME Reuse(c, t) PROVE CoOK'
  BY <1>1, <1>3, <1>6, ReuseKeepsCoOK
<1>7. ASSUME co' = [co EXCEPT ![c].pos = @ + 1], UNCHANGED lease,
             \/ UNCHANGED thread
             \/ thread' = [thread EXCEPT ![c][t].st = "ready"]
      PROVE  CoOK'
  <2> DEFINE r == [co[c] EXCEPT !.pos = @ + 1]
  <2>1. r \in CoState /\ r.level > 0 /\ r.pos > 0
    <3>1. co[c].pos + 1 \in Nat /\ co[c].pos + 1 > 0
      BY <1>2 DEF CoState
    <3>2. r = [co[c] EXCEPT !.pos = co[c].pos + 1]
      OBVIOUS
    <3>3. QED
      BY <1>2, <3>1, <3>2 DEF CoState
  <2>2. thread[c][t] \in ThreadState
    BY <1>1, <1>3 DEF CoOK
  <2>3. [thread[c][t] EXCEPT !.st = "ready"] \in ThreadState
    BY <2>2 DEF ThreadState
  <2>4. thread' \in [Coordinators -> [Tasks -> ThreadState]]
    <3>1. CASE UNCHANGED thread
      BY <1>1, <3>1 DEF CoOK
    <3>2. CASE thread' = [thread EXCEPT ![c][t].st = "ready"]
      BY <1>1, <1>3, <2>3, <3>2, ThreadKeepsType
    <3>3. QED
      BY <1>7, <3>1, <3>2
  <2>5. co' = [co EXCEPT ![c] = r]
    BY <1>7
  <2>6. QED
    BY <1>1, <1>7, <2>1, <2>4, <2>5, MovedKeepsCoOK DEF CoOK
<1>8. CoOK'
  BY <1>5, <1>6, <1>7 DEF Consider
<1>9. QED
  BY <1>4, <1>8, WorldKept DEF RunInv, Consider

LEMMA StartThreadsStep ==
    ASSUME RunInv, NEW c \in Coordinators, StartThreads(c)
    PROVE  JournalStep /\ DurableTypeOK'
<1>1. CoOK
  BY TypeParts DEF RunInv
<1>2. co[c] \in CoState
  BY <1>1 DEF CoOK
<1>3. [co[c] EXCEPT !.pc = "threads"] \in CoState
      /\ [co[c] EXCEPT !.pc = "threads"].pc = "threads"
  BY <1>2 DEF CoState, Executing
<1>4. co' = [co EXCEPT ![c] = [co[c] EXCEPT !.pc = "threads"]]
  BY DEF StartThreads, Moved
<1>5. CoOK'
  BY <1>1, <1>3, <1>4, MovedKeepsCoOK DEF StartThreads, CoOK
<1>6. QED
  BY <1>5, WorldKept DEF RunInv, StartThreads, JournalStep

LEMMA JoinStep ==
    ASSUME RunInv, NEW c \in Coordinators, Join(c)
    PROVE  JournalStep /\ DurableTypeOK'
<1>1. CoOK
  BY TypeParts DEF RunInv
<1>2. co[c] \in CoState
  BY <1>1 DEF CoOK
<1> DEFINE d == [t \in Tasks |-> IF thread[c][t].st = "done" THEN thread[c][t].outcome
                                 ELSE co[c].decided[t]]
<1> DEFINE r == [co[c] EXCEPT !.pc = "level", !.pos = 0, !.decided = d]
<1>3. CASE Gone(c)
  BY <1>1, <1>3, GoneKeepsCoOK, WorldKept DEF RunInv, Join, JournalStep
<1>4. CASE ~Gone(c)
  <2>1. /\ co' = [co EXCEPT ![c] = r]
        /\ thread' = [thread EXCEPT ![c] = NoThreads]
        /\ UNCHANGED lease
    BY <1>4 DEF Join
  <2>2. d \in [Tasks -> Outcomes \cup {"none"}]
    <3>1. \A t \in Tasks : thread[c][t].outcome \in Outcomes \cup {"none"}
      BY <1>1 DEF CoOK, ThreadState, FinishedEnds, Outcomes
    <3>2. \A t \in Tasks : co[c].decided[t] \in Outcomes \cup {"none"}
      BY <1>2 DEF CoState
    <3>3. QED
      BY <3>1, <3>2
  <2>3. r \in CoState /\ r.pc = "level"
    BY <1>2, <2>2 DEF CoState, Executing
  <2>4. thread' \in [Coordinators -> [Tasks -> ThreadState]]
    BY <1>1, <2>1, NoThreadsType DEF CoOK
  <2>5. CoOK'
    BY <1>1, <2>1, <2>3, <2>4, MovedKeepsCoOK DEF CoOK
  <2>6. QED
    BY <2>5, WorldKept DEF RunInv, Join, JournalStep
<1>5. QED
  BY <1>3, <1>4

-----------------------------------------------------------------------------
\* A thread that stepped, or failed, leaves its coordinator well formed.
LEMMA SteppedType ==
    ASSUME CoOK, NEW c \in Coordinators, NEW t \in Tasks,
           NEW st \in Returned \cup Holding \cup {"ready"}, Stepped(c, t, st)
    PROVE  thread' \in [Coordinators -> [Tasks -> ThreadState]]
<1>1. thread[c][t] \in ThreadState
  BY DEF CoOK
<1>2. [thread[c][t] EXCEPT !.st = st] \in ThreadState
  BY <1>1 DEF ThreadState
<1>3. QED
  BY <1>2, ThreadKeepsType DEF Stepped

LEMMA FailedKeepsCoOK ==
    ASSUME CoOK, NEW c \in Coordinators, NEW t \in Tasks, Stepped(c, t, "failed"),
           NEW unreadable \in BOOLEAN, co' = [co EXCEPT ![c].fenced = @ \/ unreadable],
           UNCHANGED lease, At(c, "threads")
    PROVE  CoOK'
<1> DEFINE f == co[c].fenced \/ unreadable
<1>1. co[c] \in CoState /\ f \in BOOLEAN
  BY DEF CoOK
<1>2. [co[c] EXCEPT !.fenced = f] \in CoState /\ [co[c] EXCEPT !.fenced = f].pc = "threads"
  <2> HIDE DEF f
  <2> QED
    BY <1>1 DEF CoState, At
<1>3. thread' \in [Coordinators -> [Tasks -> ThreadState]]
  BY SteppedType DEF Returned
<1>4. QED
  BY <1>2, <1>3, MovedKeepsCoOK DEF CoOK

LEMMA DispatchStep ==
    ASSUME RunInv, NEW c \in Coordinators, NEW t \in Tasks, Dispatch(c, t)
    PROVE  JournalStep /\ DurableTypeOK'
<1> DEFINE fact == Dispatched(t, co[c].generation, lineage[t])
<1>1. CoOK /\ JournalTypeOK /\ At(c, "threads")
  BY TypeParts DEF RunInv, JournalInv, Dispatch, Running
<1>2. JournalStep
  BY <1>1, DispatchedIsAFact DEF Dispatch, ThreadFails, Recorded, NotRecorded, JournalStep
<1>3. CASE fact /\ UNCHANGED co
           /\ thread' = [thread EXCEPT ![c][t].st = "dispatched",
                                       ![c][t].attempt = Len(attempts) + 1]
  <2> DEFINE n == Len(attempts) + 1
  <2> DEFINE r == [thread[c][t] EXCEPT !.st = "dispatched", !.attempt = n]
  <2>1. n \in 0 .. MaxAttempts
    BY <1>1, <1>3, BoundsAssumption DEF Dispatched, AcceptsDispatched, JournalTypeOK
  <2>2. thread[c][t] \in ThreadState
    BY <1>1 DEF CoOK
  <2>3. r \in ThreadState
    <3> HIDE DEF n
    <3> QED
      BY <2>1, <2>2 DEF ThreadState, Holding
  <2>4. thread' = [thread EXCEPT ![c][t] = r]
    BY <1>1, <1>3 DEF CoOK
  <2>a. thread' \in [Coordinators -> [Tasks -> ThreadState]]
    BY <1>1, <2>3, <2>4, ThreadKeepsType
  <2>5. CoOK'
    BY <1>1, <1>3, <2>a DEF CoOK, At, Dispatch
  <2>6. QED
    BY <1>2, <2>5, WorldKept DEF RunInv, Dispatch
<1>4. CASE ThreadFails(c, t, AcceptsDispatched(t, co[c].generation, lineage[t]), fact)
  <2>1. CoOK'
    BY <1>1, <1>4, FailedKeepsCoOK DEF ThreadFails, Dispatch
  <2>2. QED
    BY <1>2, <2>1, WorldKept DEF RunInv, Dispatch
<1>5. QED
  BY <1>3, <1>4 DEF Dispatch, Recorded

LEMMA LaunchStep ==
    ASSUME RunInv, NEW c \in Coordinators, NEW t \in Tasks, Launch(c, t)
    PROVE  JournalStep /\ DurableTypeOK'
<1>1. CoOK /\ proc \in [AttemptIds -> {"none", "alive", "exit0", "exit1"}]
  BY TypeParts DEF RunInv
<1>2. CASE Stepped(c, t, "spawned")
           /\ proc' = [proc EXCEPT ![thread[c][t].attempt] = "alive"]
  <2>1. thread' \in [Coordinators -> [Tasks -> ThreadState]]
    BY <1>1, <1>2, SteppedType DEF Holding
  <2>2. proc' \in [AttemptIds -> {"none", "alive", "exit0", "exit1"}]
    BY <1>1, <1>2
  <2>3. QED
    BY <2>1, <2>2 DEF RunInv, DurableTypeOK, Launch, JournalStep, At
<1>3. CASE UNCHANGED proc
           /\ thread' = [thread EXCEPT ![c][t].st = "judged", ![c][t].outcome = "errored"]
  <2> DEFINE r == [thread[c][t] EXCEPT !.st = "judged", !.outcome = "errored"]
  <2>1. thread[c][t] \in ThreadState
    BY <1>1 DEF CoOK
  <2>2. r \in ThreadState
    BY <2>1 DEF ThreadState, Holding, FinishedEnds
  <2>3. thread' = [thread EXCEPT ![c][t] = r]
    BY <1>1, <1>3 DEF CoOK
  <2>4. thread' \in [Coordinators -> [Tasks -> ThreadState]]
    BY <1>1, <2>2, <2>3, ThreadKeepsType
  <2>5. QED
    BY <1>3, <2>4 DEF RunInv, DurableTypeOK, Launch, JournalStep, At
<1>4. CASE UNCHANGED proc /\ Stepped(c, t, "failed")
  <2>1. thread' \in [Coordinators -> [Tasks -> ThreadState]]
    BY <1>1, <1>4, SteppedType DEF Returned
  <2>2. QED
    BY <1>4, <2>1 DEF RunInv, DurableTypeOK, Launch, JournalStep, At
<1>5. QED
  BY <1>2, <1>3, <1>4 DEF Launch

LEMMA RecordStartStep ==
    ASSUME RunInv, NEW c \in Coordinators, NEW t \in Tasks, RecordStart(c, t)
    PROVE  JournalStep /\ DurableTypeOK'
<1> DEFINE a == thread[c][t].attempt
<1>1. /\ CoOK /\ JournalTypeOK /\ At(c, "threads")
      /\ proc \in [AttemptIds -> {"none", "alive", "exit0", "exit1"}]
  BY TypeParts DEF RunInv, JournalInv, RecordStart, Running
<1>2. JournalStep
  BY <1>1, AttemptFactIsAFact DEF RecordStart, ThreadFails, Recorded, NotRecorded, JournalStep
<1>3. CASE Stepped(c, t, "running") /\ UNCHANGED <<co, proc>>
  <2>1. thread' \in [Coordinators -> [Tasks -> ThreadState]]
    BY <1>1, <1>3, SteppedType DEF Holding
  <2>2. QED
    BY <1>2, <1>3, <2>1 DEF RunInv, DurableTypeOK, RecordStart, At
<1>4. CASE /\ ThreadFails(c, t, AcceptsStarted(a, co[c].generation),
                          Started(a, co[c].generation))
           /\ proc' = Killed(a)
  <2>1. CoOK'
    BY <1>1, <1>4, FailedKeepsCoOK DEF ThreadFails, RecordStart
  <2>2. proc' \in [AttemptIds -> {"none", "alive", "exit0", "exit1"}]
    BY <1>1, <1>4 DEF Killed
  <2>3. QED
    BY <1>2, <2>1, <2>2 DEF RunInv, DurableTypeOK, CoOK, RecordStart
<1>5. QED
  BY <1>3, <1>4 DEF RecordStart

LEMMA ObserveStep ==
    ASSUME RunInv, NEW c \in Coordinators, NEW t \in Tasks, Observe(c, t)
    PROVE  JournalStep /\ DurableTypeOK'
<1> DEFINE r == [thread[c][t] EXCEPT !.st = "exited", !.at = now']
<1>1. CoOK /\ now \in Nat
  BY TypeParts DEF RunInv
<1>2. now' \in Nat
  BY <1>1 DEF Observe
<1>3. thread[c][t] \in ThreadState
  BY <1>1 DEF CoOK
<1>4. r \in ThreadState
  BY <1>2, <1>3 DEF ThreadState, Holding
<1>5. thread' = [thread EXCEPT ![c][t] = r]
  BY <1>1 DEF CoOK, Observe
<1>6. thread' \in [Coordinators -> [Tasks -> ThreadState]]
  BY <1>1, <1>4, <1>5, ThreadKeepsType
<1>7. QED
  BY <1>2, <1>6 DEF RunInv, DurableTypeOK, Observe, JournalStep, At

LEMMA JudgeStep ==
    ASSUME RunInv, NEW c \in Coordinators, NEW t \in Tasks, Judge(c, t)
    PROVE  JournalStep /\ DurableTypeOK'
<1>1. CoOK
  BY TypeParts DEF RunInv
<1>2. ASSUME NEW o \in FinishedEnds,
             thread' = [thread EXCEPT ![c][t].st = "judged", ![c][t].outcome = o]
      PROVE  thread' \in [Coordinators -> [Tasks -> ThreadState]]
  <2> DEFINE r == [thread[c][t] EXCEPT !.st = "judged", !.outcome = o]
  <2>1. thread[c][t] \in ThreadState
    BY <1>1 DEF CoOK
  <2>2. r \in ThreadState
    BY <2>1 DEF ThreadState, Holding
  <2>3. thread' = [thread EXCEPT ![c][t] = r]
    BY <1>1, <1>2 DEF CoOK
  <2>4. QED
    BY <1>1, <2>2, <2>3, ThreadKeepsType
<1>3. thread' \in [Coordinators -> [Tasks -> ThreadState]]
  BY <1>1, <1>2, SteppedType DEF Judge, Holding, FinishedEnds
<1>4. CoOK'
  BY <1>1, <1>3 DEF Judge, CoOK, At
<1>5. QED
  BY <1>4, WorldKept DEF RunInv, Judge, JournalStep

LEMMA RecordFinishStep ==
    ASSUME RunInv, NEW c \in Coordinators, NEW t \in Tasks, RecordFinish(c, t)
    PROVE  JournalStep /\ DurableTypeOK'
<1> DEFINE th == thread[c][t]
<1> DEFINE p == [task |-> t, attempt |-> th.attempt, at |-> th.at]
<1> DEFINE q == Append(co[c].passes, p)
<1>1. CoOK /\ JournalTypeOK /\ At(c, "threads")
  BY TypeParts DEF RunInv, JournalInv, RecordFinish, Running
<1>2. JournalStep
  BY <1>1, AttemptFactIsAFact DEF RecordFinish, ThreadFails, Recorded, NotRecorded, JournalStep
<1>3. CASE Stepped(c, t, "done") /\ (co' = co \/ co' = [co EXCEPT ![c].passes = q])
  <2>1. thread' \in [Coordinators -> [Tasks -> ThreadState]]
    BY <1>1, <1>3, SteppedType DEF Returned
  <2>2. CASE co' = co
    <3>1. CoOK'
      BY <1>1, <2>1, <2>2 DEF CoOK, At, RecordFinish
    <3>2. QED
      BY <1>2, <3>1, WorldKept DEF RunInv, RecordFinish
  <2>3. CASE co' = [co EXCEPT ![c].passes = q]
    <3>1. co[c] \in CoState /\ th \in ThreadState
      BY <1>1 DEF CoOK
    <3>2. p \in Pass
      BY <3>1 DEF ThreadState, Pass
    <3>3. q \in Seq(Pass)
      BY <3>1, <3>2 DEF CoState
    <3>4. [co[c] EXCEPT !.passes = q] \in CoState
          /\ [co[c] EXCEPT !.passes = q].pc = "threads"
      <4> HIDE DEF q
      <4> QED
        BY <1>1, <3>1, <3>3 DEF CoState, At
    <3>5. CoOK'
      BY <1>1, <2>1, <2>3, <3>4, MovedKeepsCoOK DEF CoOK, RecordFinish
    <3>6. QED
      BY <1>2, <3>5, WorldKept DEF RunInv, RecordFinish
  <2>4. QED
    BY <1>3, <2>2, <2>3
<1>4. CASE /\ Stepped(c, t, "failed")
           /\ \E u \in BOOLEAN : co' = [co EXCEPT ![c].fenced = @ \/ u]
  <2>1. CoOK'
    BY <1>1, <1>4, FailedKeepsCoOK DEF RecordFinish
  <2>2. QED
    BY <1>2, <2>1, WorldKept DEF RunInv, RecordFinish
<1>5. QED
  BY <1>3, <1>4 DEF RecordFinish, ThreadFails

LEMMA RecordInterruptStep ==
    ASSUME RunInv, NEW c \in Coordinators, NEW t \in Tasks, RecordInterrupt(c, t)
    PROVE  JournalStep /\ DurableTypeOK'
<1>1. CoOK /\ JournalTypeOK /\ At(c, "threads")
  BY TypeParts DEF RunInv, JournalInv, RecordInterrupt, Running
<1>2. JournalStep
  BY <1>1, AttemptFactIsAFact DEF RecordInterrupt, ThreadFails, Recorded, NotRecorded,
     JournalStep
<1>3. CASE Stepped(c, t, "interrupted") /\ UNCHANGED co
  <2>1. thread' \in [Coordinators -> [Tasks -> ThreadState]]
    BY <1>1, <1>3, SteppedType DEF Returned
  <2>2. CoOK'
    BY <1>1, <1>3, <2>1 DEF CoOK, At, RecordInterrupt
  <2>3. QED
    BY <1>2, <2>2, WorldKept DEF RunInv, RecordInterrupt
<1>4. CASE /\ Stepped(c, t, "failed")
           /\ \E u \in BOOLEAN : co' = [co EXCEPT ![c].fenced = @ \/ u]
  <2>1. CoOK'
    BY <1>1, <1>4, FailedKeepsCoOK DEF RecordInterrupt
  <2>2. QED
    BY <1>2, <2>1, WorldKept DEF RunInv, RecordInterrupt
<1>5. QED
  BY <1>3, <1>4 DEF RecordInterrupt, ThreadFails

-----------------------------------------------------------------------------
\* The run's end.
LEMMA PcKeepsCoOK ==
    ASSUME CoOK, NEW c \in Coordinators,
           NEW pc \in {"withdraw", "withdrawing", "conclude"}, Moved(c, pc),
           UNCHANGED <<lease, thread>>
    PROVE  CoOK'
<1>1. co[c] \in CoState
  BY DEF CoOK
<1>2. [co[c] EXCEPT !.pc = pc] \in CoState /\ [co[c] EXCEPT !.pc = pc].pc = pc
  BY <1>1 DEF CoState
<1>3. co' = [co EXCEPT ![c] = [co[c] EXCEPT !.pc = pc]]
  BY DEF Moved
<1>4. QED
  BY <1>2, <1>3, MovedKeepsCoOK DEF CoOK

LEMMA WaitOutWindowStep ==
    ASSUME RunInv, NEW c \in Coordinators, WaitOutWindow(c)
    PROVE  JournalStep /\ DurableTypeOK'
<1>1. CoOK'
  BY TypeParts, PcKeepsCoOK DEF RunInv, WaitOutWindow
<1>2. QED
  BY <1>1, WorldKept DEF RunInv, WaitOutWindow, JournalStep

LEMMA BeginWithdrawStep ==
    ASSUME RunInv, NEW c \in Coordinators, BeginWithdraw(c)
    PROVE  JournalStep /\ DurableTypeOK'
<1>1. CoOK
  BY TypeParts DEF RunInv
<1>2. co[c] \in CoState
  BY <1>1 DEF CoOK
<1>3. CASE co' = [co EXCEPT ![c].pc = "withdrawing", ![c].passes = << >>]
  <2> DEFINE r == [co[c] EXCEPT !.pc = "withdrawing", !.passes = << >>]
  <2>1. << >> \in Seq(Pass)
    OBVIOUS
  <2>2. r \in CoState /\ r.pc = "withdrawing"
    BY <1>2, <2>1 DEF CoState
  <2>3. co' = [co EXCEPT ![c] = r]
    BY <1>1, <1>3 DEF CoOK
  <2>4. CoOK'
    BY <1>1, <2>2, <2>3, MovedKeepsCoOK DEF CoOK, BeginWithdraw
  <2>5. QED
    BY <2>4, WorldKept DEF RunInv, BeginWithdraw, JournalStep
<1>4. ASSUME NEW cutoff, NEW first \in LateEnds(c, cutoff),
             co' = [co EXCEPT ![c].pc = "withdrawing", ![c].first = first]
      PROVE  CoOK'
  <2> DEFINE r == [co[c] EXCEPT !.pc = "withdrawing", !.first = first]
  <2>1. first \in Nat
    <3>1. PICK i \in DOMAIN co[c].passes : first = co[c].passes[i].at
      BY DEF LateEnds, AttemptPasses
    <3>2. co[c].passes \in Seq(Pass)
      BY <1>2 DEF CoState
    <3>3. co[c].passes[i] \in Pass
      BY <3>1, <3>2
    <3>4. QED
      BY <3>1, <3>3 DEF Pass
  <2>2. r \in CoState /\ r.pc = "withdrawing"
    BY <1>2, <2>1 DEF CoState
  <2>3. co' = [co EXCEPT ![c] = r]
    BY <1>1, <1>4 DEF CoOK
  <2>4. QED
    BY <1>1, <2>2, <2>3, MovedKeepsCoOK DEF CoOK, BeginWithdraw
<1>5. CoOK'
  <2>1. CASE co' = [co EXCEPT ![c].pc = "withdrawing", ![c].passes = << >>]
    BY <1>3, <2>1, TypeParts DEF BeginWithdraw, CoOK, DurableTypeOK
  <2>2. CASE \E cutoff : \E first \in LateEnds(c, cutoff) :
                co' = [co EXCEPT ![c].pc = "withdrawing", ![c].first = first]
    BY <1>4, <2>2
  <2>3. QED
    BY <2>1, <2>2 DEF BeginWithdraw
<1>6. QED
  BY <1>5, WorldKept DEF RunInv, BeginWithdraw, JournalStep

LEMMA WithdrawNextStep ==
    ASSUME RunInv, NEW c \in Coordinators, WithdrawNext(c)
    PROVE  JournalStep /\ DurableTypeOK'
<1> DEFINE p == Head(co[c].passes)
<1>1. CoOK
  BY TypeParts DEF RunInv
<1>2. co[c] \in CoState
  BY <1>1 DEF CoOK
<1>3. p \in Pass /\ Tail(co[c].passes) \in Seq(Pass)
  BY <1>2 DEF CoState, WithdrawNext
<1>4. p.task \in Tasks
  BY <1>3 DEF Pass
<1>5. JournalStep
  BY <1>4, TaskFactIsAFact DEF RunInv, WithdrawNext, Recorded, NotRecorded, JournalStep
<1>6. CASE co' = [co EXCEPT ![c].passes = Tail(@)] /\ UNCHANGED <<lease, thread>>
  <2> DEFINE q == Tail(co[c].passes)
  <2>1. [co[c] EXCEPT !.passes = q] \in CoState
        /\ [co[c] EXCEPT !.passes = q].pc = "withdrawing"
    <3>1. co[c].pc = "withdrawing"
      BY DEF WithdrawNext, At
    <3> HIDE DEF q
    <3> QED
      BY <1>2, <1>3, <3>1 DEF CoState, q
  <2>2. CoOK'
    BY <1>1, <1>6, <2>1, MovedKeepsCoOK DEF CoOK
  <2>3. QED
    BY <1>5, <2>2, WorldKept DEF RunInv, WithdrawNext
<1>7. CASE Gone(c)
  BY <1>1, <1>5, <1>7, GoneKeepsCoOK, WorldKept DEF RunInv, WithdrawNext
<1>8. QED
  BY <1>6, <1>7 DEF WithdrawNext

LEMMA RecordEndStep ==
    ASSUME RunInv, NEW c \in Coordinators, RecordStop(c) \/ RecordConclusion(c)
    PROVE  JournalStep /\ DurableTypeOK'
<1>1. JournalStep
  BY EndIsAFact DEF RunInv, JournalInv, RecordStop, RecordConclusion, Recorded, NotRecorded,
     JournalStep
<1>2. CoOK'
  BY TypeParts, GoneKeepsCoOK DEF RunInv, RecordStop, RecordConclusion
<1>3. QED
  BY <1>1, <1>2, WorldKept DEF RunInv, RecordStop, RecordConclusion

-----------------------------------------------------------------------------
\* What comes from outside never touches the journal.
LEMMA LoseLeaseStep ==
    ASSUME RunInv, NEW c \in Coordinators, LoseLease(c)
    PROVE  JournalStep /\ DurableTypeOK'
  BY DEF RunInv, DurableTypeOK, LoseLease, JournalStep, world, At

LEMMA SignalStep ==
    ASSUME RunInv, NEW c \in Coordinators, StopBegins(c) \/ HandlerRuns(c)
    PROVE  JournalStep /\ DurableTypeOK'
<1>1. CoOK /\ now \in Nat
  BY TypeParts DEF RunInv
<1>2. co[c] \in CoState
  BY <1>1 DEF CoOK
<1>3. ASSUME NEW st \in {"begun", "flagged", "stamped"}, NEW n \in Nat,
             co' = [co EXCEPT ![c] = [co[c] EXCEPT !.stop = st, !.began = n]],
             UNCHANGED <<lease, thread>>
      PROVE  CoOK'
  <2> DEFINE r == [co[c] EXCEPT !.stop = st, !.began = n]
  <2>1. r \in CoState /\ r.pc = co[c].pc /\ r.level = co[c].level /\ r.pos = co[c].pos
    BY <1>2 DEF CoState
  <2>2. r.pc = "consider" => r.level > 0 /\ r.pos > 0
    BY <1>1, <2>1 DEF CoOK, At
  <2>3. QED
    BY <1>1, <1>3, <2>1, <2>2, MovedKeepsCoOK DEF CoOK
<1>4. CASE StopBegins(c)
  <2>1. co' = [co EXCEPT ![c] = [co[c] EXCEPT !.stop = "begun", !.began = now]]
    BY <1>1, <1>4 DEF CoOK, StopBegins
  <2>2. QED
    BY <1>1, <1>3, <1>4, <2>1, WorldKept DEF RunInv, StopBegins, JournalStep
<1>5. CASE HandlerRuns(c)
  <2>1. PICK st \in {"flagged", "stamped"} : co' = [co EXCEPT ![c].stop = st]
    BY <1>5 DEF HandlerRuns
  <2>2. co[c].began \in Nat
    BY <1>2 DEF CoState
  <2>3. [co[c] EXCEPT !.stop = st, !.began = co[c].began] = [co[c] EXCEPT !.stop = st]
    BY <1>2 DEF CoState
  <2>4. co' = [co EXCEPT ![c] = [co[c] EXCEPT !.stop = st, !.began = co[c].began]]
    BY <2>1, <2>3
  <2>5. QED
    BY <1>3, <1>5, <2>2, <2>4, WorldKept DEF RunInv, HandlerRuns, JournalStep
<1>6. QED
  BY <1>4, <1>5

LEMMA ProcessStep ==
    ASSUME RunInv, NEW a \in AttemptIds, ProcExit(a) \/ CloseLease(a)
    PROVE  JournalStep /\ DurableTypeOK'
<1>1. CASE ProcExit(a)
  BY <1>1 DEF RunInv, DurableTypeOK, ProcExit, JournalStep, At
<1>2. CASE CloseLease(a)
  BY <1>2 DEF RunInv, DurableTypeOK, CloseLease, JournalStep, At
<1>3. QED
  BY <1>1, <1>2

-----------------------------------------------------------------------------
LEMMA RunInit == Init => RunInv
<1> SUFFICES ASSUME Init PROVE RunInv
  OBVIOUS
<1>1. JournalInv
  BY InitInv DEF Init
<1>2. co \in [Coordinators -> CoState] /\ \A c \in Coordinators : co[c] = Unborn
  BY UnbornType DEF Init
<1>3. \A c \in Coordinators : ~At(c, "consider")
  BY <1>2 DEF At, Unborn
<1>4. thread \in [Coordinators -> [Tasks -> ThreadState]]
  BY NoThreadsType DEF Init
<1>5. QED
  BY <1>1, <1>2, <1>3, <1>4 DEF Init, RunInv, DurableTypeOK

\* Every step records one fact or none, and keeps the shape of the state.
LEMMA RunStep ==
    ASSUME RunInv, Next
    PROVE  JournalStep /\ DurableTypeOK'
<1>1. ASSUME NEW c \in Coordinators, MainStep(c) PROVE JournalStep /\ DurableTypeOK'
  BY <1>1, DetachStep, TakeOverStep, RecordLostStep, TakenOverStep, StartLevelStep,
     ConsiderStep, StartThreadsStep, JoinStep, WaitOutWindowStep, BeginWithdrawStep,
     WithdrawNextStep, RecordEndStep DEF MainStep
<1>2. ASSUME NEW c \in Coordinators, NEW t \in Tasks, ThreadStep(c, t)
      PROVE  JournalStep /\ DurableTypeOK'
  BY <1>2, DispatchStep, LaunchStep, RecordStartStep, ObserveStep, JudgeStep,
     RecordFinishStep, RecordInterruptStep DEF ThreadStep
<1>3. ASSUME Environment PROVE JournalStep /\ DurableTypeOK'
  BY <1>3, CreateStep, ReopenStep, LeaveStep, LoseLeaseStep, SignalStep, ProcessStep
     DEF Environment
<1>4. QED
  BY <1>1, <1>2, <1>3 DEF Next

LEMMA RunNext == RunInv /\ [Next]_vars => RunInv' /\ [JournalNext]_journal
<1> SUFFICES ASSUME RunInv, [Next]_vars PROVE RunInv' /\ [JournalNext]_journal
  OBVIOUS
<1>1. CASE Next
  BY <1>1, RunStep, NextInv DEF RunInv, JournalStep
<1>2. CASE UNCHANGED vars
  <2>1. UNCHANGED journal
    BY <1>2 DEF vars
  <2>2. JournalInv'
    BY <2>1, NextInv DEF RunInv
  <2>3. DurableTypeOK'
    BY <1>2 DEF vars, RunInv, DurableTypeOK, At
  <2>4. QED
    BY <2>1, <2>2, <2>3 DEF RunInv
<1>3. QED
  BY <1>1, <1>2

\* Whatever befalls a run, its coordinators and threads keep their shape.
THEOREM RunTypeCorrect == Spec => []DurableTypeOK
<1>1. RunInv => DurableTypeOK
  BY DEF RunInv
<1>2. QED
  BY <1>1, RunInit, RunNext, PTL DEF Spec

\* Whatever crashes, fails to be written, is stopped, is lost or is taken over
\* by several at once, the run's records are those of one journal: each step
\* of any coordinator records one fact the journal accepts, or none.
THEOREM RunImplementsJournal == Spec => JournalSpec
<1>1. Init => JournalInit
  BY DEF Init
<1>2. QED
  BY <1>1, RunInit, RunNext, PTL DEF Spec, JournalSpec

\* A run concluded by any of its coordinators never changes again.
THEOREM ConcludedRunIsFinal == Spec => ConcludedIsFinal
  BY RunImplementsJournal, ConcludedIsEnd, PTL

\* A coordinator that was taken over never completes an attempt.
THEOREM StaleCoordinatorIsFenced == Spec => StaleNeverCompletes
  BY RunImplementsJournal, StaleIsRefused, PTL

\* Across every crash and resume, a retry comes after the end of what it
\* supersedes.
THEOREM RunRetriesInOrder == Spec => []RetryAfterEnd
  BY RunImplementsJournal, RetryIsOrdered, PTL

-----------------------------------------------------------------------------
\* What the steps do to the coordinators' records and the threads, field by
\* field: the invariants below are kept or broken by these alone.

Off(c) == co[c].pc \in {"unborn", "gone"}

\* A coordinator at work: past the takeover, in a generation of its own.
Owns(c) == co[c].pc \notin {"unborn", "gone", "reopened"}

\* The other coordinators, and their threads, stay as they are.
OthersStand(c) ==
    \A d \in Coordinators : d # c => co'[d] = co[d] /\ thread'[d] = thread[d]

KeepsPlan(c) ==
    /\ co'[c].decided = co[c].decided
    /\ co'[c].level = co[c].level
    /\ co'[c].pos = co[c].pos

KeepsPasses(c) == co'[c].passes = co[c].passes /\ co'[c].first = co[c].first

KeepsStop(c) == co'[c].stop = co[c].stop /\ co'[c].began = co[c].began

KeepsSelf(c) ==
    /\ co'[c].generation = co[c].generation
    /\ co'[c].fenced = co[c].fenced

LEMMA CoSet ==
    ASSUME CoOK, NEW c \in Coordinators, NEW r, co' = [co EXCEPT ![c] = r]
    PROVE  co'[c] = r /\ \A d \in Coordinators : d # c => co'[d] = co[d]
  BY DEF CoOK

LEMMA MovedFields ==
    ASSUME CoOK, NEW c \in Coordinators, NEW pc, Moved(c, pc)
    PROVE  /\ co'[c].pc = pc
           /\ co'[c].assumed = co[c].assumed
           /\ KeepsSelf(c) /\ KeepsPlan(c) /\ KeepsPasses(c) /\ KeepsStop(c)
           /\ \A d \in Coordinators : d # c => co'[d] = co[d]
<1> DEFINE r == [co[c] EXCEPT !.pc = pc]
<1>1. co[c] \in CoState
  BY DEF CoOK
<1>2. co' = [co EXCEPT ![c] = r]
  BY DEF Moved
<1>3. co'[c] = r /\ \A d \in Coordinators : d # c => co'[d] = co[d]
  BY <1>2, CoSet
<1>4. QED
  BY <1>1, <1>3 DEF CoState, KeepsSelf, KeepsPlan, KeepsPasses, KeepsStop

\* A process that left has nothing of its own any more.
LEMMA GoneFields ==
    ASSUME CoOK, NEW c \in Coordinators, Gone(c)
    PROVE  /\ co'[c].pc = "gone"
           /\ co'[c].generation = 0
           /\ \A t \in Tasks : thread'[c][t].st = "none"
           /\ lease' = IF lease = c THEN NoOne ELSE lease
           /\ OthersStand(c)
<1>1. co' = [co EXCEPT ![c] = [Unborn EXCEPT !.pc = "gone"]]
  BY DEF Gone
<1>2. co'[c] = [Unborn EXCEPT !.pc = "gone"] /\ \A d \in Coordinators : d # c => co'[d] = co[d]
  BY <1>1, CoSet
<1>3. co'[c].pc = "gone" /\ co'[c].generation = 0
  BY <1>2 DEF Unborn
<1>4. thread'[c] = NoThreads /\ \A d \in Coordinators : d # c => thread'[d] = thread[d]
  BY DEF Gone, CoOK
<1>5. \A t \in Tasks : thread'[c][t].st = "none"
  BY <1>4 DEF NoThreads, NoThread
<1>6. QED
  BY <1>2, <1>3, <1>4, <1>5 DEF Gone, OthersStand

\* One thread's record is replaced.
LEMMA ThreadSet ==
    ASSUME CoOK, NEW c \in Coordinators, NEW t \in Tasks, NEW r,
           thread' = [thread EXCEPT ![c][t] = r]
    PROVE  /\ thread'[c][t] = r
           /\ \A u \in Tasks : u # t => thread'[c][u] = thread[c][u]
           /\ \A d \in Coordinators : d # c => thread'[d] = thread[d]
  BY DEF CoOK

LEMMA SteppedFields ==
    ASSUME CoOK, NEW c \in Coordinators, NEW t \in Tasks, NEW st, Stepped(c, t, st)
    PROVE  /\ thread'[c][t].st = st
           /\ thread'[c][t].attempt = thread[c][t].attempt
           /\ thread'[c][t].at = thread[c][t].at
           /\ thread'[c][t].outcome = thread[c][t].outcome
           /\ \A u \in Tasks : u # t => thread'[c][u] = thread[c][u]
           /\ \A d \in Coordinators : d # c => thread'[d] = thread[d]
<1> DEFINE r == [thread[c][t] EXCEPT !.st = st]
<1>1. thread' = [thread EXCEPT ![c][t] = r]
  BY DEF Stepped
<1>2. thread[c][t] \in ThreadState
  BY DEF CoOK
<1>3. /\ r.st = st
      /\ r.attempt = thread[c][t].attempt
      /\ r.at = thread[c][t].at
      /\ r.outcome = thread[c][t].outcome
  BY <1>2 DEF ThreadState
<1> HIDE DEF r
<1>4. /\ thread'[c][t] = r
      /\ \A u \in Tasks : u # t => thread'[c][u] = thread[c][u]
      /\ \A d \in Coordinators : d # c => thread'[d] = thread[d]
  BY <1>1, ThreadSet
<1>5. QED
  BY <1>3, <1>4

\* A thread whose fact was not recorded only fails, and may fence its
\* coordinator.
LEMMA FailsFields ==
    ASSUME CoOK, NEW c \in Coordinators, NEW t \in Tasks, NEW accepts, NEW fact,
           ThreadFails(c, t, accepts, fact)
    PROVE  /\ thread'[c][t].st = "failed"
           /\ \A u \in Tasks : u # t => thread'[c][u] = thread[c][u]
           /\ co'[c].pc = co[c].pc
           /\ co'[c].generation = co[c].generation
           /\ co[c].fenced => co'[c].fenced
           /\ co'[c].assumed = co[c].assumed
           /\ KeepsPlan(c) /\ KeepsPasses(c) /\ KeepsStop(c)
           /\ OthersStand(c)
<1>1. PICK u \in BOOLEAN : co' = [co EXCEPT ![c].fenced = co[c].fenced \/ u]
  BY DEF ThreadFails
<1> DEFINE f == co[c].fenced \/ u
<1> DEFINE r == [co[c] EXCEPT !.fenced = f]
<1>2. co[c] \in CoState
  BY DEF CoOK
<1>3. co' = [co EXCEPT ![c] = r]
  BY <1>1
<1>4. co'[c] = r /\ \A d \in Coordinators : d # c => co'[d] = co[d]
  BY <1>3, CoSet
<1>5. co[c].fenced => f
  OBVIOUS
<1>6. /\ thread'[c][t].st = "failed"
      /\ \A v \in Tasks : v # t => thread'[c][v] = thread[c][v]
      /\ \A d \in Coordinators : d # c => thread'[d] = thread[d]
  BY SteppedFields DEF ThreadFails
<1> HIDE DEF f
<1>7. QED
  BY <1>2, <1>4, <1>5, <1>6 DEF CoState, KeepsPlan, KeepsPasses, KeepsStop, OthersStand

-----------------------------------------------------------------------------
\* What a step of a coordinator's main thread does to the attempts: none is
\* opened or started, and only those it finds lost are given an end.
LostBy(c, a) ==
    /\ At(c, "losing")
    /\ ~Ended(a)
    /\ attempts'[a].end = IF a \in co[c].assumed THEN "assumed" ELSE "lost"

Losing(c) ==
    /\ DOMAIN attempts' = DOMAIN attempts
    /\ \A a \in DOMAIN attempts :
        /\ attempts'[a].task = attempts[a].task
        /\ attempts'[a].generation = attempts[a].generation
        /\ attempts'[a].started = attempts[a].started
        /\ attempts'[a].end = attempts[a].end \/ LostBy(c, a)

LEMMA SameAttempts ==
    ASSUME NEW c \in Coordinators, UNCHANGED attempts
    PROVE  Losing(c)
  BY DEF Losing

LEMMA QuietFact ==
    ASSUME JournalTypeOK, NEW c \in Coordinators, NEW g, NEW t \in Tasks,
           \/ UNCHANGED journal \/ Requested \/ Resumed(g) \/ Stopped(g) \/ Reused(t, g)
           \/ \E o : Settled(t, g, o)
           \/ \E o : Concluded(g, o)
    PROVE  Losing(c)
  BY SameAttempts DEF journal, Requested, Resumed, Stopped, Reused, Settled, Concluded

LEMMA QuietRunFact ==
    ASSUME JournalTypeOK, NEW c \in Coordinators, NEW g,
           \/ UNCHANGED journal \/ Requested \/ Resumed(g) \/ Stopped(g)
           \/ \E o : Concluded(g, o)
    PROVE  Losing(c)
  BY SameAttempts DEF journal, Requested, Resumed, Stopped, Concluded

LEMMA WithdrawnFact ==
    ASSUME JournalInv, NEW c \in Coordinators, NEW g, NEW t \in Tasks, NEW a,
           Withdrawn(t, a, g)
    PROVE  Losing(c)
<1>1. CASE a = 0
  BY <1>1, SameAttempts DEF Withdrawn
<1>2. CASE a # 0
  <2>1. a = lineage[t] /\ a \in 0 .. Len(attempts)
    BY <1>2 DEF Withdrawn, AcceptsWithdrawn, JournalInv, DecisionHasEvidence, JournalTypeOK
  <2>2. a \in DOMAIN attempts
    BY <1>2, <2>1, AttemptFields DEF JournalInv
  <2>3. attempts' = [attempts EXCEPT ![a].withdrawn = TRUE]
    BY <1>2 DEF Withdrawn
  <2>4. /\ KeptAttempts(a)
        /\ attempts'[a].end = attempts[a].end
        /\ attempts'[a].started = attempts[a].started
    BY <2>2, <2>3, SetWithdrawn DEF JournalInv
  <2>5. QED
    BY <2>4 DEF KeptAttempts, Losing
<1>3. QED
  BY <1>1, <1>2

LEMMA LostFact ==
    ASSUME JournalTypeOK, NEW c \in Coordinators, At(c, "losing"), NEW a, NEW g,
           Lost(a, g, IF a \in co[c].assumed THEN "assumed" ELSE "lost")
    PROVE  Losing(c)
<1> DEFINE e == IF a \in co[c].assumed THEN "assumed" ELSE "lost"
<1>1. a \in DOMAIN attempts /\ ~Ended(a) /\ attempts' = [attempts EXCEPT ![a].end = e]
  BY DEF Lost, AcceptsLost, Known
<1>2. e \in Ends
  BY DEF Ends, LostEnds
<1> HIDE DEF e
<1>3. /\ KeptAttempts(a)
      /\ attempts'[a].end = e
      /\ attempts'[a].started = attempts[a].started
  BY <1>1, <1>2, SetEnd
<1>4. LostBy(c, a)
  BY <1>1, <1>3 DEF LostBy, e
<1>5. QED
  BY <1>3, <1>4 DEF KeptAttempts, Losing

-----------------------------------------------------------------------------
\* The main thread goes on; or the process leaves.
Walks(c) ==
    /\ OthersStand(c)
    /\ UNCHANGED <<lease, world>>
    /\ Losing(c)
    /\ ~Off(c) /\ ~Off(c)'
    /\ co'[c].fenced = co[c].fenced
    /\ \A t \in Tasks :
        \/ /\ thread'[c][t] = thread[c][t]
           /\ \/ co'[c].pc \in {co[c].pc, "threads"}
              \/ co[c].pc \notin {"consider", "threads"}
        \/ thread'[c][t].st = "none"
        \/ thread'[c][t].st = "ready" /\ At(c, "consider")'
    /\ \/ co'[c].generation = co[c].generation /\ (Owns(c)' <=> Owns(c))
       \/ At(c, "reopened")
    /\ co'[c].pc \in {"reopened", "losing"} =>
         co[c].pc \in {"reopened", "losing"} /\ co'[c].assumed = co[c].assumed

Leaves(c) == Gone(c) /\ Losing(c) /\ UNCHANGED world

LEMMA DetachEffect ==
    ASSUME RunInv, NEW c \in Coordinators, Detach(c) \/ Received(c)
    PROVE  Walks(c) \/ Leaves(c)
<1>1. CoOK /\ JournalTypeOK
  BY TypeParts DEF RunInv, JournalInv
<1>2. Losing(c)
  BY <1>1, QuietRunFact DEF Detach, Received, NotStarted, Recorded, NotRecorded
<1>3. CASE NotStarted(c)
  BY <1>2, <1>3 DEF Detach, Received, Leaves, NotStarted
<1>4. ASSUME NEW pc \in {"received", "level"}, Moved(c, pc), UNCHANGED <<lease, thread>>
      PROVE  Walks(c)
  BY <1>1, <1>2, <1>4, MovedFields
     DEF Walks, OthersStand, Off, Owns, At, Detach, Received, KeepsSelf
<1>5. QED
  BY <1>3, <1>4 DEF Detach, Received

LEMMA TakeOverEffect ==
    ASSUME RunInv, NEW c \in Coordinators, TakeOver(c)
    PROVE  Walks(c) \/ Leaves(c)
<1> DEFINE g == co[c].generation + 1
<1>1. CoOK /\ JournalTypeOK
  BY TypeParts DEF RunInv, JournalInv
<1>2. Losing(c)
  BY <1>1, QuietRunFact DEF TakeOver, Recorded, NotRecorded
<1>3. CASE co' = [co EXCEPT ![c].generation = g, ![c].pc = "losing"]
           /\ UNCHANGED <<lease, thread>>
  <2> DEFINE r == [co[c] EXCEPT !.generation = g, !.pc = "losing"]
  <2>1. co[c] \in CoState
    BY <1>1 DEF CoOK
  <2>2. co' = [co EXCEPT ![c] = r]
    BY <1>1, <1>3 DEF CoOK, CoState
  <2>3. r.pc = "losing" /\ r.assumed = co[c].assumed /\ r.fenced = co[c].fenced
    BY <2>1 DEF CoState
  <2> HIDE DEF r
  <2>4. co'[c] = r /\ \A d \in Coordinators : d # c => co'[d] = co[d]
    BY <1>1, <2>2, CoSet
  <2>5. QED
    BY <1>2, <1>3, <2>3, <2>4 DEF Walks, OthersStand, Off, Owns, At, TakeOver
<1>4. QED
  BY <1>2, <1>3 DEF TakeOver, Leaves

LEMMA RecordLostEffect ==
    ASSUME RunInv, NEW c \in Coordinators, NEW a, RecordLost(c, a)
    PROVE  Walks(c) \/ Leaves(c)
<1>1. CoOK /\ JournalTypeOK /\ At(c, "losing")
  BY TypeParts DEF RunInv, JournalInv, RecordLost
<1>2. Losing(c)
  BY <1>1, LostFact, QuietRunFact DEF RecordLost, Recorded, NotRecorded
<1>3. QED
  BY <1>1, <1>2 DEF RecordLost, Leaves, Walks, OthersStand, Off, Owns, At

LEMMA TakenOverEffect ==
    ASSUME RunInv, NEW c \in Coordinators, TakenOver(c)
    PROVE  Walks(c)
<1> DEFINE d == [t \in Tasks |-> decided[t].outcome]
<1> DEFINE r == [co[c] EXCEPT !.pc = "level", !.assumed = {}, !.decided = d]
<1>1. CoOK /\ JournalTypeOK
  BY TypeParts DEF RunInv, JournalInv
<1>2. co[c] \in CoState
  BY <1>1 DEF CoOK
<1>3. co' = [co EXCEPT ![c] = r]
  BY <1>1 DEF TakenOver, CoOK, CoState
<1>4. r.pc = "level" /\ r.generation = co[c].generation /\ r.fenced = co[c].fenced
  BY <1>2 DEF CoState
<1> HIDE DEF r
<1>5. co'[c] = r /\ \A e \in Coordinators : e # c => co'[e] = co[e]
  BY <1>1, <1>3, CoSet
<1>6. Losing(c)
  BY <1>1, QuietRunFact DEF TakenOver
<1>7. QED
  BY <1>4, <1>5, <1>6 DEF TakenOver, Walks, OthersStand, Off, Owns, At

LEMMA StartLevelEffect ==
    ASSUME RunInv, NEW c \in Coordinators, StartLevel(c) \/ StartThreads(c)
    PROVE  Walks(c)
<1>1. CoOK /\ JournalTypeOK
  BY TypeParts DEF RunInv, JournalInv
<1>2. co[c] \in CoState
  BY <1>1 DEF CoOK
<1>3. Losing(c)
  BY <1>1, QuietRunFact DEF StartLevel, StartThreads
<1>4. UNCHANGED <<lease, thread, world>> /\ co[c].pc \in {"level", "consider"}
  BY DEF StartLevel, StartThreads, At
<1>5. ASSUME NEW pc \in {"window", "withdraw", "threads"}, Moved(c, pc),
             pc = "threads" \/ At(c, "level")
      PROVE  Walks(c)
  BY <1>1, <1>3, <1>4, <1>5, MovedFields DEF Walks, OthersStand, Off, Owns, At, KeepsSelf
<1>6. CASE At(c, "level")
           /\ co' = [co EXCEPT ![c].level = @ + 1, ![c].pos = 1, ![c].pc = "consider"]
  <2> DEFINE r == [co[c] EXCEPT !.level = @ + 1, !.pos = 1, !.pc = "consider"]
  <2>1. co' = [co EXCEPT ![c] = r]
    BY <1>1, <1>6 DEF CoOK, CoState
  <2>2. r.pc = "consider" /\ r.generation = co[c].generation /\ r.fenced = co[c].fenced
    BY <1>2 DEF CoState
  <2> HIDE DEF r
  <2>3. co'[c] = r /\ \A e \in Coordinators : e # c => co'[e] = co[e]
    BY <1>1, <2>1, CoSet
  <2>4. QED
    BY <1>3, <1>4, <1>6, <2>2, <2>3 DEF Walks, OthersStand, Off, Owns, At
<1>7. QED
  BY <1>5, <1>6 DEF StartLevel, StartThreads

\* The task `execute` has come to.
Considered(c) == Levels[co[c].level][co[c].pos]

LEMMA ConsideredIsTask ==
    ASSUME CoOK, NEW c \in Coordinators, At(c, "consider"),
           co[c].pos <= Len(Levels[co[c].level])
    PROVE  /\ co[c].level \in DOMAIN Levels
           /\ co[c].pos \in 1 .. Len(Levels[co[c].level])
           /\ co[c].pos \in DOMAIN Levels[co[c].level]
           /\ Considered(c) \in Tasks
<1>1. co[c] \in CoState /\ co[c].level > 0 /\ co[c].pos > 0
  BY DEF CoOK
<1>2. co[c].level \in DOMAIN Levels /\ Levels[co[c].level] \in Seq(Tasks)
  BY <1>1, GraphAssumption DEF CoState
<1>3. co[c].pos \in Nat
  BY <1>1 DEF CoState
<1>4. co[c].pos \in 1 .. Len(Levels[co[c].level])
  BY <1>1, <1>2, <1>3
<1>5. QED
  BY <1>2, <1>4 DEF Considered

\* What settling a task without a thread does to the coordinator's record.
LEMMA DecidesFields ==
    ASSUME CoOK, NEW c \in Coordinators, NEW t \in Tasks, NEW o, Decides(c, t, o)
    PROVE  /\ co'[c].decided = [co[c].decided EXCEPT ![t] = o]
           /\ co'[c].pos = co[c].pos + 1
           /\ co'[c].pc = co[c].pc
           /\ co'[c].level = co[c].level
           /\ co'[c].assumed = co[c].assumed
           /\ KeepsSelf(c) /\ KeepsPasses(c) /\ KeepsStop(c)
           /\ \A d \in Coordinators : d # c => co'[d] = co[d]
<1> DEFINE v == [co[c].decided EXCEPT ![t] = o]
<1> DEFINE n == co[c].pos + 1
<1> DEFINE r == [co[c] EXCEPT !.decided = v, !.pos = n]
<1>1. co[c] \in CoState
  BY DEF CoOK
<1>2. co' = [co EXCEPT ![c] = r]
  BY DEF Decides
<1>3. co'[c] = r /\ \A d \in Coordinators : d # c => co'[d] = co[d]
  BY <1>2, CoSet
<1> HIDE DEF v, n
<1>4. QED
  BY <1>1, <1>3 DEF CoState, KeepsSelf, KeepsPasses, KeepsStop, v, n

LEMMA ReuseFields ==
    ASSUME CoOK, NEW c \in Coordinators, NEW t \in Tasks,
           co' = [co EXCEPT ![c].decided[t] = "cached", ![c].pos = @ + 1,
                            ![c].passes = Append(@, [task |-> t, attempt |-> 0, at |-> now])]
    PROVE  /\ co'[c].decided = [co[c].decided EXCEPT ![t] = "cached"]
           /\ co'[c].pos = co[c].pos + 1
           /\ co'[c].passes = Append(co[c].passes, [task |-> t, attempt |-> 0, at |-> now])
           /\ co'[c].pc = co[c].pc
           /\ co'[c].level = co[c].level
           /\ co'[c].assumed = co[c].assumed
           /\ co'[c].first = co[c].first
           /\ KeepsSelf(c) /\ KeepsStop(c)
           /\ \A d \in Coordinators : d # c => co'[d] = co[d]
<1> DEFINE v == [co[c].decided EXCEPT ![t] = "cached"]
<1> DEFINE n == co[c].pos + 1
<1> DEFINE q == Append(co[c].passes, [task |-> t, attempt |-> 0, at |-> now])
<1> DEFINE r == [co[c] EXCEPT !.decided = v, !.pos = n, !.passes = q]
<1>1. co[c] \in CoState
  BY DEF CoOK
<1>2. co' = [co EXCEPT ![c] = r]
  OBVIOUS
<1>3. co'[c] = r /\ \A d \in Coordinators : d # c => co'[d] = co[d]
  BY <1>2, CoSet
<1> HIDE DEF v, n, q
<1>4. /\ r.decided = v /\ r.pos = n /\ r.passes = q
      /\ r.pc = co[c].pc /\ r.level = co[c].level
      /\ r.assumed = co[c].assumed /\ r.first = co[c].first
      /\ r.generation = co[c].generation /\ r.fenced = co[c].fenced
      /\ r.stop = co[c].stop /\ r.began = co[c].began
  BY <1>1 DEF CoState
<1> HIDE DEF r
<1>5. QED
  BY <1>3, <1>4 DEF KeepsSelf, KeepsStop, v, n, q

LEMMA PassesOverFields ==
    ASSUME CoOK, NEW c \in Coordinators, co' = [co EXCEPT ![c].pos = @ + 1]
    PROVE  /\ co'[c].pos = co[c].pos + 1
           /\ co'[c].pc = co[c].pc
           /\ co'[c].level = co[c].level
           /\ co'[c].decided = co[c].decided
           /\ co'[c].assumed = co[c].assumed
           /\ KeepsSelf(c) /\ KeepsPasses(c) /\ KeepsStop(c)
           /\ \A d \in Coordinators : d # c => co'[d] = co[d]
<1> DEFINE n == co[c].pos + 1
<1> DEFINE r == [co[c] EXCEPT !.pos = n]
<1>1. co[c] \in CoState
  BY DEF CoOK
<1>2. co' = [co EXCEPT ![c] = r]
  OBVIOUS
<1>3. co'[c] = r /\ \A d \in Coordinators : d # c => co'[d] = co[d]
  BY <1>2, CoSet
<1> HIDE DEF n
<1>4. QED
  BY <1>1, <1>3 DEF CoState, KeepsSelf, KeepsPasses, KeepsStop, n

LEMMA ReadyFields ==
    ASSUME CoOK, NEW c \in Coordinators, NEW t \in Tasks,
           thread' = [thread EXCEPT ![c][t].st = "ready"]
    PROVE  /\ thread'[c][t].st = "ready"
           /\ thread'[c][t].attempt = thread[c][t].attempt
           /\ thread'[c][t].outcome = thread[c][t].outcome
           /\ \A u \in Tasks : u # t => thread'[c][u] = thread[c][u]
           /\ \A d \in Coordinators : d # c => thread'[d] = thread[d]
<1>1. Stepped(c, t, "ready")
  BY DEF Stepped
<1>2. QED
  BY <1>1, SteppedFields

LEMMA ConsiderEffect ==
    ASSUME RunInv, NEW c \in Coordinators, Consider(c)
    PROVE  Walks(c) \/ Leaves(c)
<1> DEFINE t == Considered(c)
<1>1. CoOK /\ JournalTypeOK /\ At(c, "consider") /\ UNCHANGED world
  BY TypeParts DEF RunInv, JournalInv, Consider
<1>2. t \in Tasks
  BY <1>1, ConsideredIsTask DEF Consider
<1>3. Losing(c)
  BY <1>1, <1>2, QuietFact
     DEF Consider, Considered, SettleAs, Reuse, Recorded, NotRecorded
<1>4. ASSUME NEW o, SettleAs(c, t, o) PROVE Walks(c) \/ Leaves(c)
  BY <1>1, <1>2, <1>3, <1>4, DecidesFields
     DEF SettleAs, Leaves, Walks, OthersStand, Off, Owns, At, KeepsSelf
<1>5. ASSUME Reuse(c, t) PROVE Walks(c) \/ Leaves(c)
  BY <1>1, <1>2, <1>3, <1>5, ReuseFields
     DEF Reuse, Leaves, Walks, OthersStand, Off, Owns, At, KeepsSelf
<1>6. ASSUME co' = [co EXCEPT ![c].pos = @ + 1], UNCHANGED lease,
             \/ UNCHANGED thread
             \/ thread' = [thread EXCEPT ![c][t].st = "ready"]
      PROVE  Walks(c)
  BY <1>1, <1>2, <1>3, <1>6, PassesOverFields, ReadyFields
     DEF Walks, OthersStand, Off, Owns, At, KeepsSelf
<1>7. QED
  BY <1>4, <1>5, <1>6 DEF Consider, Considered

LEMMA JoinedFields ==
    ASSUME CoOK, NEW c \in Coordinators, Join(c), ~Gone(c)
    PROVE  /\ co'[c].pc = "level"
           /\ co'[c].decided = [t \in Tasks |-> IF thread[c][t].st = "done"
                                                THEN thread[c][t].outcome
                                                ELSE co[c].decided[t]]
           /\ co'[c].level = co[c].level
           /\ KeepsSelf(c) /\ KeepsPasses(c) /\ KeepsStop(c)
           /\ \A t \in Tasks : thread'[c][t].st = "none"
           /\ OthersStand(c)
           /\ \A t \in Tasks : thread[c][t].st # "failed"
           /\ UNCHANGED lease
<1> DEFINE v == [t \in Tasks |-> IF thread[c][t].st = "done" THEN thread[c][t].outcome
                                 ELSE co[c].decided[t]]
<1> DEFINE r == [co[c] EXCEPT !.pc = "level", !.pos = 0, !.decided = v]
<1>1. co[c] \in CoState
  BY DEF CoOK
<1>2. /\ co' = [co EXCEPT ![c] = r]
      /\ thread' = [thread EXCEPT ![c] = NoThreads]
      /\ UNCHANGED lease
      /\ \A t \in Tasks : thread[c][t].st # "failed"
  BY DEF Join
<1>3. co'[c] = r /\ \A d \in Coordinators : d # c => co'[d] = co[d]
  BY <1>2, CoSet
<1>4. thread'[c] = NoThreads /\ \A d \in Coordinators : d # c => thread'[d] = thread[d]
  BY <1>2 DEF CoOK
<1>5. \A t \in Tasks : thread'[c][t].st = "none"
  BY <1>4 DEF NoThreads, NoThread
<1> HIDE DEF v
<1>6. /\ r.pc = "level" /\ r.decided = v /\ r.level = co[c].level
      /\ r.generation = co[c].generation /\ r.fenced = co[c].fenced
      /\ r.passes = co[c].passes /\ r.first = co[c].first
      /\ r.stop = co[c].stop /\ r.began = co[c].began
  BY <1>1 DEF CoState
<1> HIDE DEF r
<1>7. KeepsSelf(c) /\ KeepsPasses(c) /\ KeepsStop(c) /\ OthersStand(c)
  BY <1>3, <1>4, <1>6 DEF KeepsSelf, KeepsPasses, KeepsStop, OthersStand
<1>8. co'[c].pc = "level" /\ co'[c].decided = v /\ co'[c].level = co[c].level
  BY <1>3, <1>6
<1>9. QED
  BY <1>2, <1>5, <1>7, <1>8 DEF v

LEMMA JoinEffect ==
    ASSUME RunInv, NEW c \in Coordinators, Join(c)
    PROVE  Walks(c) \/ Leaves(c)
<1>1. CoOK /\ JournalTypeOK /\ At(c, "threads") /\ UNCHANGED world
  BY TypeParts DEF RunInv, JournalInv, Join
<1>2. Losing(c)
  BY <1>1, QuietRunFact DEF Join
<1>3. CASE Gone(c)
  BY <1>1, <1>2, <1>3 DEF Leaves
<1>4. CASE ~Gone(c)
  BY <1>1, <1>2, <1>4, JoinedFields DEF Walks, Off, Owns, At, KeepsSelf
<1>5. QED
  BY <1>3, <1>4

\* What the choice of the passes to withdraw does to the record.
LEMMA BeginWithdrawFields ==
    ASSUME CoOK, NEW c \in Coordinators, BeginWithdraw(c)
    PROVE  /\ co'[c].pc = "withdrawing"
           /\ co'[c].assumed = co[c].assumed
           /\ co'[c].passes \in {co[c].passes, << >>}
           /\ KeepsSelf(c) /\ KeepsPlan(c) /\ KeepsStop(c)
           /\ \A d \in Coordinators : d # c => co'[d] = co[d]
<1>1. co[c] \in CoState
  BY DEF CoOK
<1>2. CASE co' = [co EXCEPT ![c].pc = "withdrawing", ![c].passes = << >>]
  <2> DEFINE r == [co[c] EXCEPT !.pc = "withdrawing", !.passes = << >>]
  <2>1. co' = [co EXCEPT ![c] = r]
    BY <1>2 DEF CoOK
  <2>2. co'[c] = r /\ \A d \in Coordinators : d # c => co'[d] = co[d]
    BY <2>1, CoSet
  <2>3. QED
    BY <1>1, <2>2 DEF CoState, KeepsSelf, KeepsPlan, KeepsStop
<1>3. ASSUME NEW f, co' = [co EXCEPT ![c].pc = "withdrawing", ![c].first = f]
      PROVE  /\ co'[c].pc = "withdrawing"
             /\ co'[c].assumed = co[c].assumed
             /\ co'[c].passes = co[c].passes
             /\ KeepsSelf(c) /\ KeepsPlan(c) /\ KeepsStop(c)
             /\ \A d \in Coordinators : d # c => co'[d] = co[d]
  <2> DEFINE r == [co[c] EXCEPT !.pc = "withdrawing", !.first = f]
  <2>1. co' = [co EXCEPT ![c] = r]
    BY <1>3 DEF CoOK
  <2>2. co'[c] = r /\ \A d \in Coordinators : d # c => co'[d] = co[d]
    BY <2>1, CoSet
  <2>3. QED
    BY <1>1, <2>2 DEF CoState, KeepsSelf, KeepsPlan, KeepsStop
<1>4. QED
  BY <1>2, <1>3 DEF BeginWithdraw

LEMMA WithdrawNextFields ==
    ASSUME CoOK, NEW c \in Coordinators, co' = [co EXCEPT ![c].passes = Tail(@)]
    PROVE  /\ co'[c].passes = Tail(co[c].passes)
           /\ co'[c].pc = co[c].pc
           /\ co'[c].assumed = co[c].assumed
           /\ co'[c].first = co[c].first
           /\ KeepsSelf(c) /\ KeepsPlan(c) /\ KeepsStop(c)
           /\ \A d \in Coordinators : d # c => co'[d] = co[d]
<1> DEFINE q == Tail(co[c].passes)
<1> DEFINE r == [co[c] EXCEPT !.passes = q]
<1>1. co[c] \in CoState
  BY DEF CoOK
<1>2. co' = [co EXCEPT ![c] = r]
  OBVIOUS
<1>3. co'[c] = r /\ \A d \in Coordinators : d # c => co'[d] = co[d]
  BY <1>2, CoSet
<1> HIDE DEF q
<1>4. /\ r.passes = q
      /\ r.pc = co[c].pc /\ r.assumed = co[c].assumed /\ r.first = co[c].first
      /\ r.generation = co[c].generation /\ r.fenced = co[c].fenced
      /\ r.decided = co[c].decided /\ r.level = co[c].level /\ r.pos = co[c].pos
      /\ r.stop = co[c].stop /\ r.began = co[c].began
  BY <1>1 DEF CoState
<1> HIDE DEF r
<1>5. QED
  BY <1>3, <1>4 DEF KeepsSelf, KeepsPlan, KeepsStop, q

LEMMA WithdrawEffect ==
    ASSUME RunInv, NEW c \in Coordinators,
           WaitOutWindow(c) \/ BeginWithdraw(c) \/ WithdrawNext(c)
    PROVE  Walks(c) \/ Leaves(c)
<1>1. CoOK /\ JournalTypeOK /\ JournalInv
  BY TypeParts DEF RunInv, JournalInv
<1>2. CASE WaitOutWindow(c)
  <2>1. Losing(c)
    BY <1>1, <1>2, QuietRunFact DEF WaitOutWindow
  <2>2. PICK pc \in {"withdraw", "conclude"} : Moved(c, pc)
    BY <1>2 DEF WaitOutWindow
  <2>3. QED
    BY <1>1, <1>2, <2>1, <2>2, MovedFields
       DEF WaitOutWindow, Walks, OthersStand, Off, Owns, At, KeepsSelf
<1>3. CASE BeginWithdraw(c)
  <2>1. Losing(c) /\ UNCHANGED <<lease, thread, world>> /\ At(c, "withdraw")
    BY <1>1, <1>3, QuietRunFact DEF BeginWithdraw
  <2>2. QED
    BY <1>1, <1>3, <2>1, BeginWithdrawFields
       DEF Walks, OthersStand, Off, Owns, At, KeepsSelf
<1>4. CASE WithdrawNext(c)
  <2> DEFINE p == Head(co[c].passes)
  <2>1. p.task \in Tasks
    <3>1. co[c].passes \in Seq(Pass) /\ co[c].passes # << >>
      BY <1>1, <1>4 DEF CoOK, CoState, WithdrawNext
    <3>2. p \in Pass
      BY <3>1
    <3>3. QED
      BY <3>2 DEF Pass
  <2>2. Losing(c)
    BY <1>1, <1>4, <2>1, WithdrawnFact, QuietRunFact
       DEF WithdrawNext, Recorded, NotRecorded
  <2>3. CASE Gone(c)
    BY <1>4, <2>2, <2>3 DEF Leaves, WithdrawNext
  <2>4. CASE co' = [co EXCEPT ![c].passes = Tail(@)] /\ UNCHANGED <<lease, thread>>
    BY <1>1, <1>4, <2>2, <2>4, WithdrawNextFields
       DEF WithdrawNext, Walks, OthersStand, Off, Owns, At, KeepsSelf
  <2>5. QED
    BY <1>4, <2>3, <2>4 DEF WithdrawNext
<1>5. QED
  BY <1>2, <1>3, <1>4

LEMMA EndEffect ==
    ASSUME RunInv, NEW c \in Coordinators,
           RecordStop(c) \/ RecordConclusion(c) \/ Decline(c) \/ Crash(c)
    PROVE  Leaves(c)
<1>1. JournalTypeOK
  BY DEF RunInv, JournalInv
<1>2. Losing(c)
  BY <1>1, QuietRunFact
     DEF RecordStop, RecordConclusion, Decline, Crash, Recorded, NotRecorded
<1>3. QED
  BY <1>2 DEF RecordStop, RecordConclusion, Decline, Crash, Leaves

\* A signal touches how far the stop got, and nothing else.
LEMMA SignalFields ==
    ASSUME CoOK, NEW c \in Coordinators, StopBegins(c) \/ HandlerRuns(c)
    PROVE  /\ co'[c].pc = co[c].pc
           /\ co'[c].assumed = co[c].assumed
           /\ KeepsSelf(c) /\ KeepsPlan(c) /\ KeepsPasses(c)
           /\ Flagged(c) => Flagged(c)'
           /\ \A d \in Coordinators : d # c => co'[d] = co[d]
<1>1. co[c] \in CoState
  BY DEF CoOK
<1>2. CASE StopBegins(c)
  <2> DEFINE r == [co[c] EXCEPT !.stop = "begun", !.began = now]
  <2>1. co' = [co EXCEPT ![c] = r]
    BY <1>2 DEF StopBegins, CoOK
  <2>2. co'[c] = r /\ \A d \in Coordinators : d # c => co'[d] = co[d]
    BY <2>1, CoSet
  <2>3. /\ r.pc = co[c].pc /\ r.assumed = co[c].assumed
        /\ r.generation = co[c].generation /\ r.fenced = co[c].fenced
        /\ r.decided = co[c].decided /\ r.level = co[c].level /\ r.pos = co[c].pos
        /\ r.passes = co[c].passes /\ r.first = co[c].first
    BY <1>1 DEF CoState
  <2>4. ~Flagged(c)
    BY <1>2 DEF StopBegins, Flagged
  <2> HIDE DEF r
  <2>5. QED
    BY <2>2, <2>3, <2>4 DEF KeepsSelf, KeepsPlan, KeepsPasses
<1>3. CASE HandlerRuns(c)
  <2>1. PICK st \in {"flagged", "stamped"} : co' = [co EXCEPT ![c].stop = st]
    BY <1>3 DEF HandlerRuns
  <2> DEFINE r == [co[c] EXCEPT !.stop = st]
  <2>2. co' = [co EXCEPT ![c] = r]
    BY <2>1
  <2>3. co'[c] = r /\ \A d \in Coordinators : d # c => co'[d] = co[d]
    BY <2>2, CoSet
  <2>4. /\ r.stop = st
        /\ r.pc = co[c].pc /\ r.assumed = co[c].assumed
        /\ r.generation = co[c].generation /\ r.fenced = co[c].fenced
        /\ r.decided = co[c].decided /\ r.level = co[c].level /\ r.pos = co[c].pos
        /\ r.passes = co[c].passes /\ r.first = co[c].first
    BY <1>1 DEF CoState
  <2> HIDE DEF r
  <2>5. QED
    BY <2>3, <2>4 DEF KeepsSelf, KeepsPlan, KeepsPasses, Flagged
<1>4. QED
  BY <1>2, <1>3

LEMMA SignalEffect ==
    ASSUME RunInv, NEW c \in Coordinators, StopBegins(c) \/ HandlerRuns(c)
    PROVE  Walks(c)
<1>1. CoOK /\ JournalTypeOK
  BY TypeParts DEF RunInv, JournalInv
<1>2. /\ Losing(c)
      /\ UNCHANGED <<lease, thread, world>>
      /\ ~Off(c)
  BY <1>1, QuietRunFact DEF StopBegins, HandlerRuns, Off, Executing
<1>3. QED
  BY <1>1, <1>2, SignalFields DEF Walks, OthersStand, Off, Owns, At, KeepsSelf

\* What a coordinator's main thread, its death, and a signal can do.
LEMMA MainEffect ==
    ASSUME RunInv, NEW c \in Coordinators,
           MainStep(c) \/ Decline(c) \/ Crash(c) \/ StopBegins(c) \/ HandlerRuns(c)
    PROVE  Walks(c) \/ Leaves(c)
  BY DetachEffect, TakeOverEffect, RecordLostEffect, TakenOverEffect, StartLevelEffect,
     ConsiderEffect, JoinEffect, WithdrawEffect, EndEffect, SignalEffect DEF MainStep

\* The fields of the record a process begins with.
LEMMA BornFields ==
    ASSUME CoOK, NEW c \in Coordinators, NEW pc, NEW g, NEW s,
           co' = [co EXCEPT ![c] = [Unborn EXCEPT !.pc = pc, !.generation = g, !.assumed = s]]
    PROVE  /\ co'[c].pc = pc
           /\ co'[c].generation = g
           /\ co'[c].assumed = s
           /\ ~co'[c].fenced
           /\ co'[c].decided = [t \in Tasks |-> "none"]
           /\ co'[c].level = 0
           /\ co'[c].passes = << >>
           /\ co'[c].stop = "none"
           /\ \A d \in Coordinators : d # c => co'[d] = co[d]
<1> DEFINE r == [Unborn EXCEPT !.pc = pc, !.generation = g, !.assumed = s]
<1>1. co'[c] = r /\ \A d \in Coordinators : d # c => co'[d] = co[d]
  BY CoSet
<1>2. /\ r.pc = pc /\ r.generation = g /\ r.assumed = s
      /\ r.fenced = FALSE /\ r.decided = [t \in Tasks |-> "none"] /\ r.level = 0
      /\ r.passes = << >> /\ r.stop = "none"
  BY DEF Unborn
<1> HIDE DEF r
<1>3. QED
  BY <1>1, <1>2

LEMMA BegunFields ==
    ASSUME CoOK, NEW c \in Coordinators, NEW pc, NEW g, Begin(c, g, pc)
    PROVE  /\ co'[c].pc = pc
           /\ co'[c].generation = g
           /\ ~co'[c].fenced
           /\ co'[c].decided = [t \in Tasks |-> "none"]
           /\ co'[c].level = 0
           /\ co'[c].passes = << >>
           /\ co'[c].stop = "none"
           /\ \A d \in Coordinators : d # c => co'[d] = co[d]
<1> DEFINE r == [Unborn EXCEPT !.pc = pc, !.generation = g]
<1>1. co'[c] = r /\ \A d \in Coordinators : d # c => co'[d] = co[d]
  BY CoSet DEF Begin
<1>2. QED
  BY <1>1 DEF Unborn

-----------------------------------------------------------------------------
(***************************************************************************)
(* Owners.  A generation is opened by one coordinator, which stays its     *)
(* only owner: a `resumed` record always names the next one.  That holds   *)
(* even when leases are lost and several believe they hold the run.        *)
(***************************************************************************)
Places ==
    /\ \A c \in Coordinators :
        /\ Off(c) => co[c].generation = 0
        /\ ~Off(c) => co[c].generation \in 1 .. generation
    /\ \A c, d \in Coordinators :
        Owns(c) /\ Owns(d) /\ co[c].generation = co[d].generation => c = d

\* A thread works only while its level is run, on an attempt of its own task
\* and its own coordinator's generation.
HeldOwn(c, t) ==
    thread[c][t].st \in Holding =>
        LET a == thread[c][t].attempt
        IN  /\ Known(a)
            /\ attempts[a].task = t
            /\ attempts[a].generation = co[c].generation

ThreadsRun ==
    \A c \in Coordinators, t \in Tasks :
        /\ thread[c][t].st # "none" => co[c].pc \in {"consider", "threads"}
        /\ thread[c][t].st \notin {"none", "ready"} => co[c].pc = "threads"
        /\ HeldOwn(c, t)

OwnerInv == Places /\ ThreadsRun

\* A fact opens a generation after the last, and leaves every attempt's task
\* and generation as they are.
LEMMA JournalGrows ==
    ASSUME JournalInv, JournalStep
    PROVE  /\ generation' \in Nat /\ generation <= generation'
           /\ \A a \in DOMAIN attempts :
                /\ a \in DOMAIN attempts'
                /\ attempts'[a].task = attempts[a].task
                /\ attempts'[a].generation = attempts[a].generation
                /\ attempts[a].started => attempts'[a].started
<1>1. JournalTypeOK /\ generation \in Nat
  BY DEF JournalInv, JournalTypeOK
<1>2. CASE UNCHANGED attempts /\ (UNCHANGED generation \/ Requested \/ \E g : Resumed(g))
  BY <1>1, <1>2 DEF Requested, AcceptsRequested, Resumed, AcceptsResumed
<1>3. ASSUME NEW a \in DOMAIN attempts, KeptAttempts(a), UNCHANGED generation,
             attempts[a].started => attempts'[a].started
      PROVE  /\ generation' \in Nat /\ generation <= generation'
             /\ \A b \in DOMAIN attempts :
                  /\ b \in DOMAIN attempts'
                  /\ attempts'[b].task = attempts[b].task
                  /\ attempts'[b].generation = attempts[b].generation
                  /\ attempts[b].started => attempts'[b].started
  BY <1>1, <1>3 DEF KeptAttempts
<1>4. ASSUME NEW t \in Tasks, NEW g, NEW s, Dispatched(t, g, s)
      PROVE  /\ generation' \in Nat /\ generation <= generation'
             /\ \A b \in DOMAIN attempts :
                  /\ b \in DOMAIN attempts'
                  /\ attempts'[b].task = attempts[b].task
                  /\ attempts'[b].generation = attempts[b].generation
                  /\ attempts[b].started => attempts'[b].started
  <2> DEFINE r == [task |-> t, generation |-> g, supersedes |-> s,
                   started |-> FALSE, end |-> "none", withdrawn |-> FALSE]
  <2>1. r \in Attempt
    <3>1. g \in Nat
      BY <1>1, <1>4 DEF Dispatched, AcceptsDispatched, Current
    <3>2. s \in Nat
      BY <1>1, <1>4, AttemptFields DEF Dispatched, AcceptsDispatched, JournalTypeOK
    <3>3. QED
      BY <3>1, <3>2 DEF Attempt, Ends
  <2>2. attempts' = Append(attempts, r) /\ UNCHANGED generation
    BY <1>4 DEF Dispatched
  <2> HIDE DEF r
  <2>3. QED
    BY <1>1, <2>1, <2>2, AppendedAttempt
<1>5. ASSUME NEW g, NEW a, Started(a, g) PROVE a \in DOMAIN attempts /\ KeptAttempts(a)
             /\ (attempts[a].started => attempts'[a].started) /\ UNCHANGED generation
  BY <1>1, <1>5, SetStarted DEF Started, AcceptsStarted, Known
<1>6. ASSUME NEW a, NEW e \in Ends, a \in DOMAIN attempts, UNCHANGED generation,
             attempts' = [attempts EXCEPT ![a].end = e]
      PROVE  KeptAttempts(a) /\ (attempts[a].started => attempts'[a].started)
  BY <1>1, <1>6, SetEnd
<1>7. ASSUME NEW t \in Tasks, NEW a, NEW g, Withdrawn(t, a, g), a # 0
      PROVE  /\ a \in DOMAIN attempts /\ KeptAttempts(a)
             /\ (attempts[a].started => attempts'[a].started) /\ UNCHANGED generation
  <2>1. a = lineage[t] /\ lineage[t] \in 0 .. Len(attempts)
    BY <1>1, <1>7 DEF Withdrawn, AcceptsWithdrawn, JournalInv, DecisionHasEvidence,
       JournalTypeOK
  <2>2. a \in DOMAIN attempts
    BY <1>1, <1>7, <2>1, AttemptFields
  <2>3. attempts' = [attempts EXCEPT ![a].withdrawn = TRUE] /\ UNCHANGED generation
    BY <1>7 DEF Withdrawn
  <2>4. QED
    BY <1>1, <2>2, <2>3, SetWithdrawn
<1>8. ASSUME NEW g, NEW t \in Tasks, NEW a \in 0 .. MaxAttempts, Withdrawn(t, a, g)
      PROVE  /\ generation' \in Nat /\ generation <= generation'
             /\ \A b \in DOMAIN attempts :
                  /\ b \in DOMAIN attempts'
                  /\ attempts'[b].task = attempts[b].task
                  /\ attempts'[b].generation = attempts[b].generation
                  /\ attempts[b].started => attempts'[b].started
  <2>1. CASE a = 0
    BY <1>1, <1>8, <2>1 DEF Withdrawn
  <2>2. CASE a # 0
    BY <1>3, <1>7, <1>8, <2>2
  <2>3. QED
    BY <2>1, <2>2
<1>9. ASSUME NEW g, NEW a,
             \/ Started(a, g)
             \/ \E x \in BOOLEAN, o \in Outcomes : Finished(a, g, x, o)
             \/ Interrupted(a, g)
             \/ \E r \in LostEnds : Lost(a, g, r)
      PROVE  /\ generation' \in Nat /\ generation <= generation'
             /\ \A b \in DOMAIN attempts :
                  /\ b \in DOMAIN attempts'
                  /\ attempts'[b].task = attempts[b].task
                  /\ attempts'[b].generation = attempts[b].generation
                  /\ attempts[b].started => attempts'[b].started
  <2>1. CASE Started(a, g)
    BY <1>3, <1>5, <2>1
  <2>2. CASE ~Started(a, g)
    <3>1. PICK e \in Ends : attempts' = [attempts EXCEPT ![a].end = e]
      BY <1>9, <2>2 DEF Finished, AcceptsFinished, Interrupted, Lost, Ends, FinishedEnds, LostEnds
    <3>2. a \in DOMAIN attempts /\ UNCHANGED generation
      BY <1>9, <2>2 DEF Finished, AcceptsFinished, Interrupted, AcceptsInterrupted, Lost,
         AcceptsLost, Known
    <3>3. QED
      BY <1>3, <1>6, <3>1, <3>2
  <2>3. QED
    BY <2>1, <2>2
<1>10. CASE UNCHANGED journal
  BY <1>1, <1>10 DEF journal
<1>11. ASSUME NEW g, NEW t \in Tasks,
              \/ Stopped(g) \/ Reused(t, g)
              \/ \E o : Settled(t, g, o) \/ Concluded(g, o)
       PROVE  UNCHANGED <<attempts, generation>>
  BY <1>11 DEF Stopped, Reused, Settled, Concluded
<1>12. ASSUME NEW g, Stopped(g) \/ \E o : Concluded(g, o)
       PROVE  UNCHANGED <<attempts, generation>>
  BY <1>12 DEF Stopped, Concluded
<1>13. CASE JournalNext
  <2>1. CASE Requested
    BY <1>2, <2>1 DEF Requested
  <2>2. ASSUME NEW g, Resumed(g)
        PROVE  UNCHANGED attempts
    BY <2>2 DEF Resumed
  <2>3. QED
    BY <1>2, <1>4, <1>8, <1>9, <1>11, <1>12, <1>13, <2>1, <2>2 DEF JournalNext
<1>14. QED
  BY <1>10, <1>13 DEF JournalStep

\* Every coordinator stays where it is, or leaves: what it owns is as before.
PlaceStays(d) ==
    \/ co'[d].generation = co[d].generation /\ (Off(d)' <=> Off(d)) /\ (Owns(d)' <=> Owns(d))
    \/ co'[d].pc = "gone" /\ co'[d].generation = 0

LEMMA PlacesStay ==
    ASSUME Places, CoOK, generation \in Nat, generation' \in Nat, generation <= generation',
           \A d \in Coordinators : PlaceStays(d)
    PROVE  Places'
<1>1. \A d \in Coordinators : co[d].generation \in Nat
  BY DEF CoOK, CoState
<1>2. ASSUME NEW d \in Coordinators
      PROVE  /\ Off(d)' => co'[d].generation = 0
             /\ ~Off(d)' => co'[d].generation \in 1 .. generation'
  BY <1>1, <1>2 DEF Places, PlaceStays, Off
<1>3. ASSUME NEW c \in Coordinators, NEW d \in Coordinators, Owns(c)', Owns(d)',
             co'[c].generation = co'[d].generation
      PROVE  c = d
  BY <1>3 DEF Places, PlaceStays, Owns
<1>4. QED
  BY <1>2, <1>3 DEF Places

\* The journal goes on: what a thread holds is still its own.
LEMMA HeldStays ==
    ASSUME JournalInv, JournalStep, NEW c \in Coordinators, NEW t \in Tasks, ThreadsRun,
           thread'[c][t].st \in Holding => /\ thread[c][t].st \in Holding
                                           /\ thread'[c][t].attempt = thread[c][t].attempt
                                           /\ co'[c].generation = co[c].generation
    PROVE  HeldOwn(c, t)'
<1> SUFFICES ASSUME thread'[c][t].st \in Holding
             PROVE  LET a == thread[c][t].attempt
                    IN  /\ a \in DOMAIN attempts'
                        /\ attempts'[a].task = t
                        /\ attempts'[a].generation = co'[c].generation
  BY DEF HeldOwn, Known
<1>1. HeldOwn(c, t)
  BY DEF ThreadsRun
<1>2. QED
  BY <1>1, JournalGrows DEF HeldOwn, Known

LEMMA MainKeepsOwner ==
    ASSUME RunInv, OwnerInv, JournalStep, NEW c \in Coordinators, Walks(c) \/ Leaves(c),
           \/ Leaves(c)
           \/ co'[c].generation = co[c].generation /\ (Owns(c)' <=> Owns(c))
    PROVE  OwnerInv'
<1>1. CoOK /\ JournalInv /\ generation \in Nat
  BY TypeParts DEF RunInv, JournalInv, JournalTypeOK
<1>2. OthersStand(c)
  BY <1>1, GoneFields DEF Walks, Leaves
<1>3. PlaceStays(c)
  BY <1>1, GoneFields DEF Walks, Leaves, PlaceStays, At
<1>4. \A d \in Coordinators : PlaceStays(d)
  BY <1>2, <1>3 DEF OthersStand, PlaceStays, Off, Owns
<1>5. Places'
  BY <1>1, <1>4, PlacesStay, JournalGrows DEF OwnerInv
<1>6. ASSUME NEW t \in Tasks
      PROVE  /\ thread'[c][t].st # "none" => co'[c].pc \in {"consider", "threads"}
             /\ thread'[c][t].st \notin {"none", "ready"} => co'[c].pc = "threads"
             /\ thread'[c][t].st \in Holding => /\ thread'[c][t] = thread[c][t]
                                                /\ co'[c].generation = co[c].generation
  <2>1. CASE Walks(c)
    BY <2>1 DEF Walks, OwnerInv, ThreadsRun, At, Holding
  <2>2. CASE Leaves(c)
    BY <1>1, <2>2, GoneFields DEF Leaves, Holding
  <2>3. QED
    BY <2>1, <2>2
<1>7. \A d \in Coordinators, t \in Tasks : HeldOwn(d, t)'
  BY <1>1, <1>2, <1>6, HeldStays DEF OwnerInv, OthersStand
<1>8. ThreadsRun'
  BY <1>2, <1>6, <1>7 DEF OwnerInv, OthersStand, ThreadsRun
<1>9. QED
  BY <1>5, <1>8 DEF OwnerInv

\* Only a takeover moves a coordinator to another generation: the one its
\* record opens, which no coordinator has had.
LEMMA MainOwner ==
    ASSUME RunInv, OwnerInv, JournalStep, NEW c \in Coordinators,
           \/ MainStep(c) /\ ~TakeOver(c)
           \/ Decline(c) \/ Crash(c) \/ StopBegins(c) \/ HandlerRuns(c)
    PROVE  OwnerInv'
<1>1. CoOK
  BY TypeParts DEF RunInv
<1>2. Walks(c) \/ Leaves(c)
  BY MainEffect
<1>3. CASE StopBegins(c) \/ HandlerRuns(c)
  <2>1. co'[c].generation = co[c].generation /\ (Owns(c)' <=> Owns(c))
    BY <1>1, <1>3, SignalFields DEF KeepsSelf, Owns
  <2>2. QED
    BY <1>2, <2>1, MainKeepsOwner
<1>4. CASE Decline(c) \/ Crash(c)
  BY <1>4, EndEffect, MainKeepsOwner
<1>5. CASE MainStep(c) /\ ~TakeOver(c)
  <2>1. ~At(c, "reopened")
    BY <1>5 DEF MainStep, At, Detach, Received, RecordLost, TakenOver, StartLevel, Consider,
       StartThreads, Join, WaitOutWindow, BeginWithdraw, WithdrawNext, RecordStop,
       RecordConclusion
  <2>2. QED
    BY <1>2, <2>1, MainKeepsOwner DEF Walks
<1>6. QED
  BY <1>3, <1>4, <1>5

LEMMA TakeOverOwner ==
    ASSUME RunInv, OwnerInv, JournalStep, NEW c \in Coordinators, TakeOver(c)
    PROVE  OwnerInv'
<1> DEFINE g == co[c].generation + 1
<1>1. CoOK /\ JournalInv /\ generation \in Nat
  BY TypeParts DEF RunInv, JournalInv, JournalTypeOK
<1>2. CASE Leaves(c)
  BY <1>2, MainKeepsOwner
<1>3. CASE Resumed(g) /\ co' = [co EXCEPT ![c].generation = g, ![c].pc = "losing"]
           /\ UNCHANGED <<lease, thread>>
  <2> DEFINE r == [co[c] EXCEPT !.generation = g, !.pc = "losing"]
  <2>1. co[c] \in CoState
    BY <1>1 DEF CoOK
  <2>2. co' = [co EXCEPT ![c] = r]
    BY <1>1, <1>3 DEF CoOK, CoState
  <2>3. r.pc = "losing" /\ r.generation = g
    BY <2>1 DEF CoState
  <2> HIDE DEF r
  <2>4. co'[c] = r /\ \A d \in Coordinators : d # c => co'[d] = co[d]
    BY <1>1, <2>2, CoSet
  <2>5. generation' = generation + 1 /\ g = generation'
    BY <1>3 DEF Resumed, AcceptsResumed
  <2> HIDE DEF g
  <2>6. \A d \in Coordinators : co[d].generation \in 0 .. generation
    BY <1>1 DEF OwnerInv, Places
  <2>7. ASSUME NEW d \in Coordinators
        PROVE  /\ Off(d)' => co'[d].generation = 0
               /\ ~Off(d)' => co'[d].generation \in 1 .. generation'
    BY <1>1, <2>3, <2>4, <2>5, <2>7 DEF OwnerInv, Places, Off
  <2>8. ASSUME NEW d \in Coordinators, NEW e \in Coordinators, Owns(d)', Owns(e)',
               co'[d].generation = co'[e].generation
        PROVE  d = e
    BY <1>1, <2>3, <2>4, <2>5, <2>6, <2>8 DEF OwnerInv, Places, Owns
  <2>9. \A d \in Coordinators, t \in Tasks :
            thread[d][t].st \in Holding => co'[d].generation = co[d].generation
    BY <2>4 DEF OwnerInv, ThreadsRun, TakeOver, At, Holding
  <2>10. \A d \in Coordinators, t \in Tasks : HeldOwn(d, t)'
    BY <1>1, <1>3, <2>9, HeldStays DEF OwnerInv
  <2>11. ThreadsRun'
    BY <1>3, <2>4, <2>10 DEF OwnerInv, ThreadsRun, TakeOver, At
  <2>12. QED
    BY <2>7, <2>8, <2>11 DEF OwnerInv, Places
<1>4. QED
  BY <1>2, <1>3, QuietRunFact DEF RunInv, JournalInv, TakeOver, Recorded, NotRecorded, Leaves

\* A run is created once, before anybody owns any of it.
LEMMA CreateOwner ==
    ASSUME RunInv, OwnerInv, JournalStep, NEW c \in Coordinators, Create(c)
    PROVE  OwnerInv'
<1>1. CoOK /\ JournalInv /\ generation = 0
  BY TypeParts DEF RunInv, Create, AcceptsRequested
<1>2. CASE Gone(c)
  <2>1. Losing(c)
    BY <1>1, QuietRunFact DEF JournalInv, Create
  <2>2. QED
    BY <1>2, <2>1, MainKeepsOwner DEF Leaves, Create
<1>3. ASSUME NEW pc \in {"level", "detach"}, Begin(c, 1, pc), Requested, UNCHANGED thread
      PROVE  OwnerInv'
  <2>1. /\ co'[c].pc = pc
        /\ co'[c].generation = 1
        /\ \A d \in Coordinators : d # c => co'[d] = co[d]
    BY <1>1, <1>3, BegunFields
  <2>2. \A d \in Coordinators : Off(d) /\ co[d].generation = 0
    BY <1>1 DEF OwnerInv, Places
  <2>3. generation' = 1
    BY <1>3 DEF Requested
  <2>4. Places'
    BY <2>1, <2>2, <2>3 DEF Places, Off, Owns
  <2>5. \A d \in Coordinators, t \in Tasks : thread[d][t].st = "none"
    BY <2>2 DEF OwnerInv, ThreadsRun, Off
  <2>6. ThreadsRun'
    BY <1>3, <2>5 DEF ThreadsRun, HeldOwn, Holding
  <2>7. QED
    BY <2>4, <2>6 DEF OwnerInv
<1>4. QED
  BY <1>2, <1>3 DEF Create

LEMMA ReopenFields ==
    ASSUME CoOK, NEW c \in Coordinators, NEW assume, Reopen(c, assume)
    PROVE  /\ co'[c].pc = "reopened"
           /\ co'[c].generation = generation
           /\ co'[c].assumed = {a \in OpenAttempts : GroupExists(a)}
           /\ OthersStand(c)
<1> DEFINE s == {a \in OpenAttempts : GroupExists(a)}
<1>1. co' = [co EXCEPT ![c] = [Unborn EXCEPT !.pc = "reopened", !.generation = generation,
                                !.assumed = s]]
      /\ UNCHANGED thread
  BY DEF Reopen
<1> HIDE DEF s
<1> DEFINE r == [Unborn EXCEPT !.pc = "reopened", !.generation = generation, !.assumed = s]
<1>2. co'[c] = r /\ \A d \in Coordinators : d # c => co'[d] = co[d]
  BY <1>1, CoSet
<1>3. r.pc = "reopened" /\ r.generation = generation /\ r.assumed = s
  BY DEF Unborn
<1> HIDE DEF r
<1>4. QED
  BY <1>1, <1>2, <1>3 DEF OthersStand, s

LEMMA ReopenOwner ==
    ASSUME RunInv, OwnerInv, JournalStep, NEW c \in Coordinators, NEW assume, Reopen(c, assume)
    PROVE  OwnerInv'
<1>1. CoOK /\ JournalInv /\ generation \in Nat /\ generation >= 1
  BY TypeParts DEF RunInv, JournalInv, JournalTypeOK, Reopen
<1>2. /\ co'[c].pc = "reopened"
      /\ co'[c].generation = generation
      /\ OthersStand(c)
  BY <1>1, ReopenFields
<1>3. UNCHANGED <<generation, attempts, thread>> /\ Off(c)
  BY DEF Reopen, journal, IsNext, Off
<1>4. Places'
  BY <1>1, <1>2, <1>3 DEF OwnerInv, Places, Off, Owns, OthersStand
<1>5. \A t \in Tasks : thread[c][t].st = "none"
  BY <1>3 DEF OwnerInv, ThreadsRun, Off
<1>6. ThreadsRun'
  BY <1>2, <1>3, <1>5 DEF OwnerInv, ThreadsRun, HeldOwn, Holding, Known, OthersStand
<1>7. QED
  BY <1>4, <1>6 DEF OwnerInv

-----------------------------------------------------------------------------
\* A thread of a level does one step: it goes on with its attempt, opens one,
\* or is done with it.
GoesOn(c, t) ==
    /\ thread[c][t].st \in Holding
    /\ thread'[c][t].st \in Holding
    /\ thread'[c][t].attempt = thread[c][t].attempt

Opens(c, t) ==
    /\ Dispatched(t, co[c].generation, lineage[t])
    /\ thread'[c][t].st = "dispatched"
    /\ thread'[c][t].attempt = Len(attempts) + 1

LetsGo(c, t) == thread'[c][t].st \in {"done", "interrupted", "failed"}

WorksOn(c, t) ==
    /\ At(c, "threads") /\ At(c, "threads")'
    /\ co'[c].generation = co[c].generation
    /\ \A u \in Tasks : u # t => thread'[c][u] = thread[c][u]
    /\ OthersStand(c)
    /\ UNCHANGED <<lease, closed, trapped>>
    /\ thread[c][t].st \in Holding \cup {"ready"}
    /\ GoesOn(c, t) \/ Opens(c, t) \/ LetsGo(c, t)

\* A thread's step leaves what it does not name.
LEMMA SteppedWorks ==
    ASSUME CoOK, NEW c \in Coordinators, NEW t \in Tasks, NEW st, Stepped(c, t, st),
           At(c, "threads"), thread[c][t].st \in Holding,
           \/ UNCHANGED co
           \/ /\ co'[c].pc = co[c].pc
              /\ co'[c].generation = co[c].generation
              /\ \A d \in Coordinators : d # c => co'[d] = co[d],
           st \in Holding \cup {"done", "interrupted", "failed"},
           UNCHANGED <<lease, closed, trapped>>
    PROVE  WorksOn(c, t)
  BY SteppedFields DEF WorksOn, OthersStand, GoesOn, LetsGo, At

LEMMA FailsWorks ==
    ASSUME CoOK, NEW c \in Coordinators, NEW t \in Tasks, NEW accepts, NEW fact,
           ThreadFails(c, t, accepts, fact), At(c, "threads"),
           thread[c][t].st \in Holding \cup {"ready"}, UNCHANGED <<lease, closed, trapped>>
    PROVE  WorksOn(c, t)
  BY FailsFields DEF WorksOn, LetsGo, At

\* A task's command that is over: the outcome is written beside the state.
LEMMA JudgedFields ==
    ASSUME CoOK, NEW c \in Coordinators, NEW t \in Tasks, NEW o
    PROVE  thread' = [thread EXCEPT ![c][t].st = "judged", ![c][t].outcome = o] =>
             /\ thread'[c][t].st = "judged"
             /\ thread'[c][t].outcome = o
             /\ thread'[c][t].attempt = thread[c][t].attempt
             /\ thread'[c][t].at = thread[c][t].at
             /\ \A u \in Tasks : u # t => thread'[c][u] = thread[c][u]
             /\ \A d \in Coordinators : d # c => thread'[d] = thread[d]
<1> DEFINE r == [thread[c][t] EXCEPT !.st = "judged", !.outcome = o]
<1>1. thread[c][t] \in ThreadState
  BY DEF CoOK
<1>2. thread' = [thread EXCEPT ![c][t].st = "judged", ![c][t].outcome = o]
        => thread' = [thread EXCEPT ![c][t] = r]
  BY DEF CoOK
<1>3. /\ r.st = "judged" /\ r.outcome = o
      /\ r.attempt = thread[c][t].attempt /\ r.at = thread[c][t].at
  BY <1>1 DEF ThreadState
<1> HIDE DEF r
<1> SUFFICES ASSUME thread' = [thread EXCEPT ![c][t] = r]
             PROVE  /\ thread'[c][t].st = "judged"
                    /\ thread'[c][t].outcome = o
                    /\ thread'[c][t].attempt = thread[c][t].attempt
                    /\ thread'[c][t].at = thread[c][t].at
                    /\ \A u \in Tasks : u # t => thread'[c][u] = thread[c][u]
                    /\ \A d \in Coordinators : d # c => thread'[d] = thread[d]
  BY <1>2
<1>4. /\ thread'[c][t] = r
      /\ \A u \in Tasks : u # t => thread'[c][u] = thread[c][u]
      /\ \A d \in Coordinators : d # c => thread'[d] = thread[d]
  BY ThreadSet
<1>5. QED
  BY <1>3, <1>4

LEMMA DispatchedFields ==
    ASSUME CoOK, NEW c \in Coordinators, NEW t \in Tasks, NEW n
    PROVE  thread' = [thread EXCEPT ![c][t].st = "dispatched", ![c][t].attempt = n] =>
             /\ thread'[c][t].st = "dispatched"
             /\ thread'[c][t].attempt = n
             /\ \A u \in Tasks : u # t => thread'[c][u] = thread[c][u]
             /\ \A d \in Coordinators : d # c => thread'[d] = thread[d]
<1> DEFINE r == [thread[c][t] EXCEPT !.st = "dispatched", !.attempt = n]
<1>1. thread[c][t] \in ThreadState
  BY DEF CoOK
<1>2. thread' = [thread EXCEPT ![c][t].st = "dispatched", ![c][t].attempt = n]
        => thread' = [thread EXCEPT ![c][t] = r]
  BY DEF CoOK
<1>3. r.st = "dispatched" /\ r.attempt = n
  BY <1>1 DEF ThreadState
<1> HIDE DEF r
<1> SUFFICES ASSUME thread' = [thread EXCEPT ![c][t] = r]
             PROVE  /\ thread'[c][t].st = "dispatched"
                    /\ thread'[c][t].attempt = n
                    /\ \A u \in Tasks : u # t => thread'[c][u] = thread[c][u]
                    /\ \A d \in Coordinators : d # c => thread'[d] = thread[d]
  BY <1>2
<1>4. /\ thread'[c][t] = r
      /\ \A u \in Tasks : u # t => thread'[c][u] = thread[c][u]
      /\ \A d \in Coordinators : d # c => thread'[d] = thread[d]
  BY ThreadSet
<1>5. QED
  BY <1>3, <1>4

LEMMA ObservedFields ==
    ASSUME CoOK, NEW c \in Coordinators, NEW t \in Tasks, NEW n
    PROVE  thread' = [thread EXCEPT ![c][t].st = "exited", ![c][t].at = n] =>
             /\ thread'[c][t].st = "exited"
             /\ thread'[c][t].attempt = thread[c][t].attempt
             /\ thread'[c][t].outcome = thread[c][t].outcome
             /\ \A u \in Tasks : u # t => thread'[c][u] = thread[c][u]
             /\ \A d \in Coordinators : d # c => thread'[d] = thread[d]
<1> DEFINE r == [thread[c][t] EXCEPT !.st = "exited", !.at = n]
<1>1. thread[c][t] \in ThreadState
  BY DEF CoOK
<1>2. thread' = [thread EXCEPT ![c][t].st = "exited", ![c][t].at = n]
        => thread' = [thread EXCEPT ![c][t] = r]
  BY DEF CoOK
<1>3. r.st = "exited" /\ r.attempt = thread[c][t].attempt /\ r.outcome = thread[c][t].outcome
  BY <1>1 DEF ThreadState
<1> HIDE DEF r
<1> SUFFICES ASSUME thread' = [thread EXCEPT ![c][t] = r]
             PROVE  /\ thread'[c][t].st = "exited"
                    /\ thread'[c][t].attempt = thread[c][t].attempt
                    /\ thread'[c][t].outcome = thread[c][t].outcome
                    /\ \A u \in Tasks : u # t => thread'[c][u] = thread[c][u]
                    /\ \A d \in Coordinators : d # c => thread'[d] = thread[d]
  BY <1>2
<1>4. /\ thread'[c][t] = r
      /\ \A u \in Tasks : u # t => thread'[c][u] = thread[c][u]
      /\ \A d \in Coordinators : d # c => thread'[d] = thread[d]
  BY ThreadSet
<1>5. QED
  BY <1>3, <1>4

\* Recording an attempt's pass adds it to the passes.
LEMMA PassedFields ==
    ASSUME CoOK, NEW c \in Coordinators, NEW p,
           co' = [co EXCEPT ![c].passes = Append(@, p)]
    PROVE  /\ co'[c].passes = Append(co[c].passes, p)
           /\ co'[c].pc = co[c].pc
           /\ co'[c].assumed = co[c].assumed
           /\ KeepsSelf(c) /\ KeepsPlan(c) /\ KeepsStop(c)
           /\ \A d \in Coordinators : d # c => co'[d] = co[d]
<1> DEFINE q == Append(co[c].passes, p)
<1> DEFINE r == [co[c] EXCEPT !.passes = q]
<1>1. co[c] \in CoState
  BY DEF CoOK
<1>2. co' = [co EXCEPT ![c] = r]
  OBVIOUS
<1>3. co'[c] = r /\ \A d \in Coordinators : d # c => co'[d] = co[d]
  BY <1>2, CoSet
<1> HIDE DEF q
<1>4. /\ r.passes = q
      /\ r.pc = co[c].pc /\ r.assumed = co[c].assumed
      /\ r.generation = co[c].generation /\ r.fenced = co[c].fenced
      /\ r.decided = co[c].decided /\ r.level = co[c].level /\ r.pos = co[c].pos
      /\ r.stop = co[c].stop /\ r.began = co[c].began
  BY <1>1 DEF CoState
<1> HIDE DEF r
<1>5. QED
  BY <1>3, <1>4 DEF KeepsSelf, KeepsPlan, KeepsStop, q

LEMMA ThreadEffect ==
    ASSUME RunInv, NEW c \in Coordinators, NEW t \in Tasks, ThreadStep(c, t)
    PROVE  WorksOn(c, t)
<1>1. CoOK
  BY TypeParts DEF RunInv
<1>2. CASE Dispatch(c, t)
  <2>1. CASE /\ Dispatched(t, co[c].generation, lineage[t])
             /\ thread' = [thread EXCEPT ![c][t].st = "dispatched",
                                         ![c][t].attempt = Len(attempts) + 1]
             /\ UNCHANGED co
    <3>1. /\ thread'[c][t].st = "dispatched"
          /\ thread'[c][t].attempt = Len(attempts) + 1
          /\ \A u \in Tasks : u # t => thread'[c][u] = thread[c][u]
          /\ \A d \in Coordinators : d # c => thread'[d] = thread[d]
      BY <1>1, <2>1, DispatchedFields
    <3>2. /\ At(c, "threads") /\ thread[c][t].st = "ready"
          /\ UNCHANGED <<co, lease, closed, trapped>>
      BY <1>2, <2>1 DEF Dispatch, Running, world
    <3>3. QED
      BY <2>1, <3>1, <3>2 DEF WorksOn, Opens, OthersStand, At
  <2>2. CASE ThreadFails(c, t, AcceptsDispatched(t, co[c].generation, lineage[t]),
                         Dispatched(t, co[c].generation, lineage[t]))
    BY <1>1, <1>2, <2>2, FailsWorks DEF Dispatch, Running, world
  <2>3. QED
    BY <1>2, <2>1, <2>2 DEF Dispatch, Recorded
<1>3. CASE Launch(c, t)
  <2>1. At(c, "threads") /\ thread[c][t].st = "dispatched"
        /\ UNCHANGED <<co, lease, closed, trapped>>
    BY <1>3 DEF Launch, Running
  <2>2. CASE \E st \in {"failed", "spawned"} : Stepped(c, t, st)
    BY <1>1, <2>1, <2>2, SteppedWorks DEF Holding
  <2>3. CASE thread' = [thread EXCEPT ![c][t].st = "judged", ![c][t].outcome = "errored"]
    <3>1. /\ thread'[c][t].st = "judged"
          /\ thread'[c][t].outcome = "errored"
          /\ thread'[c][t].attempt = thread[c][t].attempt
          /\ thread'[c][t].at = thread[c][t].at
          /\ \A u \in Tasks : u # t => thread'[c][u] = thread[c][u]
          /\ \A d \in Coordinators : d # c => thread'[d] = thread[d]
      BY <1>1, <2>3, JudgedFields
    <3>2. GoesOn(c, t)
      BY <2>1, <3>1 DEF GoesOn, Holding
    <3>3. QED
      BY <2>1, <3>1, <3>2 DEF WorksOn, OthersStand, At, Holding
  <2>4. QED
    BY <1>3, <2>2, <2>3 DEF Launch
<1>4. CASE RecordStart(c, t)
  <2>1. At(c, "threads") /\ thread[c][t].st = "spawned"
        /\ UNCHANGED <<lease, closed, trapped>>
    BY <1>4 DEF RecordStart, Running
  <2>2. CASE Stepped(c, t, "running") /\ UNCHANGED co
    BY <1>1, <2>1, <2>2, SteppedWorks DEF Holding
  <2>3. CASE ThreadFails(c, t, AcceptsStarted(thread[c][t].attempt, co[c].generation),
                         Started(thread[c][t].attempt, co[c].generation))
    BY <1>1, <2>1, <2>3, FailsWorks DEF Holding
  <2>4. QED
    BY <1>4, <2>2, <2>3 DEF RecordStart
<1>5. CASE Observe(c, t)
  <2>1. At(c, "threads") /\ thread[c][t].st = "running"
        /\ UNCHANGED <<co, lease, closed, trapped>>
    BY <1>5 DEF Observe, Running
  <2>2. thread' = [thread EXCEPT ![c][t].st = "exited", ![c][t].at = now']
    BY <1>5 DEF Observe
  <2>3. /\ thread'[c][t].st = "exited"
        /\ thread'[c][t].attempt = thread[c][t].attempt
        /\ \A u \in Tasks : u # t => thread'[c][u] = thread[c][u]
        /\ \A d \in Coordinators : d # c => thread'[d] = thread[d]
    BY <1>1, <2>2, ObservedFields
  <2>4. GoesOn(c, t)
    BY <2>1, <2>3 DEF GoesOn, Holding
  <2>5. QED
    BY <2>1, <2>3, <2>4 DEF WorksOn, OthersStand, At, Holding
<1>6. CASE Judge(c, t)
  <2>1. At(c, "threads") /\ thread[c][t].st = "exited"
        /\ UNCHANGED <<co, lease, closed, trapped>>
    BY <1>6 DEF Judge, Running, world
  <2>2. CASE Stepped(c, t, "stopping")
    BY <1>1, <2>1, <2>2, SteppedWorks DEF Holding
  <2>3. ASSUME NEW o, thread' = [thread EXCEPT ![c][t].st = "judged", ![c][t].outcome = o]
        PROVE  WorksOn(c, t)
    <3>1. /\ thread'[c][t].st = "judged"
          /\ thread'[c][t].attempt = thread[c][t].attempt
          /\ \A u \in Tasks : u # t => thread'[c][u] = thread[c][u]
          /\ \A d \in Coordinators : d # c => thread'[d] = thread[d]
      BY <1>1, <2>3, JudgedFields
    <3>2. QED
      BY <2>1, <3>1 DEF WorksOn, GoesOn, OthersStand, At, Holding
  <2>4. QED
    BY <1>6, <2>2, <2>3 DEF Judge
<1>7. CASE RecordFinish(c, t)
  <2> DEFINE a == thread[c][t].attempt
  <2> DEFINE o == thread[c][t].outcome
  <2> DEFINE x == proc[a] = "exit0"
  <2> DEFINE p == [task |-> t, attempt |-> a, at |-> thread[c][t].at]
  <2>1. At(c, "threads") /\ thread[c][t].st = "judged"
        /\ UNCHANGED <<lease, closed, trapped>>
    BY <1>7 DEF RecordFinish, Running, world
  <2>2. CASE Stepped(c, t, "done")
             /\ (UNCHANGED co \/ co' = [co EXCEPT ![c].passes = Append(@, p)])
    BY <1>1, <2>1, <2>2, SteppedWorks, PassedFields DEF Holding, KeepsSelf
  <2>3. CASE ThreadFails(c, t, AcceptsFinished(a, co[c].generation, x, o),
                         Finished(a, co[c].generation, x, o))
    BY <1>1, <2>1, <2>3, FailsWorks DEF Holding
  <2>4. QED
    BY <1>7, <2>2, <2>3 DEF RecordFinish
<1>8. CASE RecordInterrupt(c, t)
  <2>1. At(c, "threads") /\ thread[c][t].st = "stopping"
        /\ UNCHANGED <<lease, closed, trapped>>
    BY <1>8 DEF RecordInterrupt, Running, world
  <2>2. CASE Stepped(c, t, "interrupted") /\ UNCHANGED co
    BY <1>1, <2>1, <2>2, SteppedWorks DEF Holding
  <2>3. CASE ThreadFails(c, t, AcceptsInterrupted(thread[c][t].attempt, co[c].generation),
                         Interrupted(thread[c][t].attempt, co[c].generation))
    BY <1>1, <2>1, <2>3, FailsWorks DEF Holding
  <2>4. QED
    BY <1>8, <2>2, <2>3 DEF RecordInterrupt
<1>9. QED
  BY <1>2, <1>3, <1>4, <1>5, <1>6, <1>7, <1>8 DEF ThreadStep

\* The attempt a dispatch opens is a new one.
LEMMA OpenedAttempt ==
    ASSUME JournalTypeOK, NEW t \in Tasks, NEW g, NEW s, Dispatched(t, g, s)
    PROVE  LET n == Len(attempts) + 1
           IN  /\ n \in AttemptIds /\ n \notin DOMAIN attempts
               /\ DOMAIN attempts' = DOMAIN attempts \cup {n}
               /\ \A b \in DOMAIN attempts : attempts'[b] = attempts[b]
               /\ attempts'[n].task = t
               /\ attempts'[n].generation = g
               /\ attempts'[n].end = "none"
               /\ ~attempts'[n].started
<1> DEFINE r == [task |-> t, generation |-> g, supersedes |-> s,
                 started |-> FALSE, end |-> "none", withdrawn |-> FALSE]
<1> DEFINE n == Len(attempts) + 1
<1>1. DOMAIN attempts = 1 .. Len(attempts) /\ Len(attempts) \in Nat
  BY AttemptFields
<1>2. r \in Attempt
  <2>1. g \in Nat
    BY DEF Dispatched, AcceptsDispatched, Current, JournalTypeOK
  <2>2. s \in Nat
    BY <1>1 DEF Dispatched, AcceptsDispatched, JournalTypeOK
  <2>3. QED
    BY <2>1, <2>2 DEF Attempt, Ends
<1>3. attempts' = Append(attempts, r)
  BY DEF Dispatched
<1>4. /\ r.task = t /\ r.generation = g /\ r.end = "none" /\ ~r.started
  OBVIOUS
<1>5. n \in AttemptIds /\ n \notin DOMAIN attempts
  BY <1>1, BoundsAssumption DEF Dispatched, AcceptsDispatched, JournalTypeOK, AttemptIds
<1> HIDE DEF r
<1>6. QED
  BY <1>2, <1>3, <1>4, <1>5, AppendedAttempt

LEMMA ThreadOwner ==
    ASSUME RunInv, OwnerInv, JournalStep, NEW c \in Coordinators, NEW t \in Tasks,
           WorksOn(c, t)
    PROVE  OwnerInv'
<1>1. CoOK /\ JournalInv /\ JournalTypeOK /\ generation \in Nat
  BY TypeParts DEF RunInv, JournalInv, JournalTypeOK
<1>2. \A d \in Coordinators : PlaceStays(d)
  BY DEF WorksOn, OthersStand, PlaceStays, Off, Owns, At
<1>3. Places'
  BY <1>1, <1>2, PlacesStay, JournalGrows DEF OwnerInv
<1>4. HeldOwn(c, t)'
  <2>1. CASE GoesOn(c, t)
    BY <1>1, <2>1, HeldStays DEF GoesOn, OwnerInv, WorksOn
  <2>2. CASE Opens(c, t)
    <3> DEFINE n == Len(attempts) + 1
    <3>1. /\ n \in DOMAIN attempts'
          /\ attempts'[n].task = t
          /\ attempts'[n].generation = co[c].generation
      BY <1>1, <2>2, OpenedAttempt DEF Opens
    <3> HIDE DEF n
    <3>2. thread'[c][t].attempt = n /\ co'[c].generation = co[c].generation
      BY <2>2 DEF Opens, WorksOn, n
    <3>3. QED
      BY <3>1, <3>2 DEF HeldOwn, Known
  <2>3. CASE LetsGo(c, t)
    BY <2>3 DEF LetsGo, HeldOwn, Holding
  <2>4. QED
    BY <2>1, <2>2, <2>3 DEF WorksOn
<1>5. ASSUME NEW d \in Coordinators, NEW u \in Tasks, d # c \/ u # t PROVE HeldOwn(d, u)'
  <2>1. thread'[d][u] = thread[d][u] /\ co'[d].generation = co[d].generation
    BY <1>5 DEF WorksOn, OthersStand
  <2>2. QED
    BY <1>1, <2>1, HeldStays DEF OwnerInv
<1>6. ThreadsRun'
  BY <1>4, <1>5 DEF OwnerInv, ThreadsRun, WorksOn, OthersStand, At
<1>7. QED
  BY <1>3, <1>6 DEF OwnerInv

LEMMA OwnerInit == Init => OwnerInv
<1> SUFFICES ASSUME Init PROVE OwnerInv
  OBVIOUS
<1>1. \A c \in Coordinators : co[c].pc = "unborn" /\ co[c].generation = 0
  BY DEF Init, Unborn
<1>2. \A c \in Coordinators, t \in Tasks : thread[c][t].st = "none"
  BY DEF Init, NoThreads, NoThread
<1>3. QED
  BY <1>1, <1>2 DEF OwnerInv, Places, ThreadsRun, Off, Owns, HeldOwn, Holding

LEMMA OwnerNext == RunInv /\ OwnerInv /\ [Next]_vars => OwnerInv'
<1> SUFFICES ASSUME RunInv, OwnerInv, [Next]_vars PROVE OwnerInv'
  OBVIOUS
<1>1. CASE Next
  <2>1. JournalStep
    BY <1>1, RunStep
  <2>2. ASSUME NEW c \in Coordinators, MainStep(c) PROVE OwnerInv'
    BY <2>1, <2>2, MainOwner, TakeOverOwner
  <2>3. ASSUME NEW c \in Coordinators, NEW t \in Tasks, ThreadStep(c, t) PROVE OwnerInv'
    BY <2>1, <2>3, ThreadEffect, ThreadOwner
  <2>4. ASSUME NEW c \in Coordinators,
               \/ Create(c) \/ (\E assume \in BOOLEAN : Reopen(c, assume)) \/ Decline(c)
               \/ Crash(c) \/ StopBegins(c) \/ HandlerRuns(c)
        PROVE  OwnerInv'
    BY <2>1, <2>4, CreateOwner, ReopenOwner, MainOwner
  <2>5. ASSUME NEW c \in Coordinators, LoseLease(c) PROVE OwnerInv'
    BY <2>5 DEF LoseLease, journal, OwnerInv, Places, ThreadsRun, Off, Owns, HeldOwn, Known
  <2>6. ASSUME NEW a \in AttemptIds, ProcExit(a) \/ CloseLease(a) PROVE OwnerInv'
    BY <2>6 DEF ProcExit, CloseLease, journal, OwnerInv, Places, ThreadsRun, Off, Owns,
       HeldOwn, Known
  <2>7. QED
    BY <1>1, <2>2, <2>3, <2>4, <2>5, <2>6 DEF Next, Environment
<1>2. CASE UNCHANGED vars
  BY <1>2 DEF vars, journal, OwnerInv, Places, ThreadsRun, Off, Owns, HeldOwn, Known
<1>3. QED
  BY <1>1, <1>2

\* Whatever befalls a run's leases, the generation in force belongs to one
\* coordinator at most.
THEOREM GenerationHasOneOwner == Spec => []OneOwner
<1>1. RunInv /\ OwnerInv => OneOwner
  BY DEF RunInv, OwnerInv, Places, OneOwner, Off, Owns, At
<1>2. QED
  BY <1>1, RunInit, RunNext, OwnerInit, OwnerNext, PTL DEF Spec

-----------------------------------------------------------------------------
(***************************************************************************)
(* Processes.  While leases hold, one coordinator at most is there, and it *)
(* holds the run's.  An attempt a thread still holds is open, one nobody   *)
(* dispatched has no process, and one that ended has none left, unless it  *)
(* was taken as ended on the caller's word or could not be seen.  Between  *)
(* reopening a run and the last record of what was lost, every process an  *)
(* earlier coordinator left is hidden, or assumed to have ended.           *)
(***************************************************************************)
Leased == \A c \in Coordinators : ~Off(c) => lease = c

HeldOpen(c, t) ==
    thread[c][t].st \in Holding =>
        LET a == thread[c][t].attempt
        IN  /\ ~Ended(a)
            /\ thread[c][t].st \notin {"spawned", "running"} => proc[a] # "alive"

ProcKnown == \A a \in AttemptIds : proc[a] # "none" => Known(a)

EndedOver(a) ==
    Ended(a) /\ proc[a] = "alive" =>
        attempts[a].end = "assumed" \/ (attempts[a].end = "lost" /\ Hidden(a))

TakenSeen(c) ==
    co[c].pc \in {"reopened", "losing"} =>
        \A a \in OpenAttempts : proc[a] = "alive" => Hidden(a) \/ a \in co[c].assumed

ProcessInv ==
    /\ Leased
    /\ \A c \in Coordinators, t \in Tasks : HeldOpen(c, t)
    /\ ProcKnown
    /\ \A a \in DOMAIN attempts : EndedOver(a)
    /\ \A c \in Coordinators : TakenSeen(c)

\* Where one coordinator is there, no other is, and no other has a thread.
LEMMA OthersAreOff ==
    ASSUME OwnerInv, Leased, NEW c \in Coordinators, ~Off(c)
    PROVE  \A d \in Coordinators : d # c => Off(d) /\ \A t \in Tasks : thread[d][t].st = "none"
<1>1. ASSUME NEW d \in Coordinators, d # c PROVE Off(d)
  BY <1>1 DEF Leased
<1>2. QED
  BY <1>1 DEF OwnerInv, ThreadsRun, Off

\* What is found lost was seen to be over, or could not be seen.
LEMMA LosingKeeps ==
    ASSUME ProcessInv, NEW c \in Coordinators, Losing(c), UNCHANGED world
    PROVE  /\ ProcKnown'
           /\ \A a \in DOMAIN attempts' : EndedOver(a)'
           /\ \A d \in Coordinators : co'[d] = co[d] => TakenSeen(d)'
           /\ OpenAttempts' \subseteq OpenAttempts
           /\ \A a \in DOMAIN attempts : Hidden(a)' <=> Hidden(a)
<1>1. UNCHANGED <<proc, closed>>
  BY DEF world
<1>2. ProcKnown'
  BY <1>1 DEF ProcessInv, ProcKnown, Losing, Known
<1>3. \A a \in DOMAIN attempts : Hidden(a)' <=> Hidden(a)
  BY <1>1 DEF Losing, Hidden
<1>4. OpenAttempts' \subseteq OpenAttempts
  BY DEF Losing, OpenAttempts, Ended, LostBy
<1>5. \A d \in Coordinators : co'[d] = co[d] => TakenSeen(d)'
  <2>1. ASSUME NEW d \in Coordinators, co'[d] = co[d], co[d].pc \in {"reopened", "losing"},
               NEW a \in OpenAttempts', proc'[a] = "alive"
        PROVE  Hidden(a)' \/ a \in co'[d].assumed
    <3>1. a \in OpenAttempts /\ a \in DOMAIN attempts
      BY <1>4, <2>1 DEF OpenAttempts
    <3>2. TakenSeen(d)
      BY DEF ProcessInv
    <3>3. QED
      BY <1>1, <1>3, <2>1, <3>1, <3>2 DEF TakenSeen
  <2>2. QED
    BY <2>1 DEF TakenSeen
<1>6. ASSUME NEW a \in DOMAIN attempts' PROVE EndedOver(a)'
  <2>1. a \in DOMAIN attempts /\ EndedOver(a) /\ TakenSeen(c)
    BY <1>6 DEF Losing, ProcessInv
  <2>2. CASE attempts'[a].end = attempts[a].end
    BY <1>1, <1>3, <2>1, <2>2 DEF EndedOver, Ended
  <2>3. CASE LostBy(c, a)
    BY <1>1, <1>3, <2>1, <2>3 DEF LostBy, EndedOver, TakenSeen, OpenAttempts, At
  <2>4. QED
    BY <2>1, <2>2, <2>3 DEF Losing
<1>7. QED
  BY <1>2, <1>3, <1>4, <1>5, <1>6

LEMMA WalksProcess ==
    ASSUME RunInv, OwnerInv, ProcessInv, NEW c \in Coordinators, Walks(c)
    PROVE  ProcessInv'
<1>1. Losing(c) /\ UNCHANGED world /\ ~Off(c) /\ OthersStand(c) /\ UNCHANGED lease
  BY DEF Walks
<1>2. \A d \in Coordinators : d # c => Off(d) /\ \A t \in Tasks : thread[d][t].st = "none"
  BY <1>1, OthersAreOff DEF ProcessInv
<1>3. /\ ProcKnown'
      /\ \A a \in DOMAIN attempts' : EndedOver(a)'
      /\ \A d \in Coordinators : co'[d] = co[d] => TakenSeen(d)'
      /\ OpenAttempts' \subseteq OpenAttempts
      /\ \A a \in DOMAIN attempts : Hidden(a)' <=> Hidden(a)
  BY <1>1, LosingKeeps
<1>4. Leased'
  BY <1>1 DEF Leased, ProcessInv, OthersStand, Off
<1>5. TakenSeen(c)'
  <2>1. ASSUME co'[c].pc \in {"reopened", "losing"}, NEW a \in OpenAttempts',
               proc'[a] = "alive"
        PROVE  Hidden(a)' \/ a \in co'[c].assumed
    <3>1. a \in OpenAttempts /\ a \in DOMAIN attempts
      BY <1>3, <2>1 DEF OpenAttempts
    <3>2. TakenSeen(c) /\ co[c].pc \in {"reopened", "losing"}
          /\ co'[c].assumed = co[c].assumed /\ UNCHANGED proc
      BY <1>1, <2>1 DEF ProcessInv, Walks, world
    <3>3. QED
      BY <1>3, <2>1, <3>1, <3>2 DEF TakenSeen
  <2>2. QED
    BY <2>1 DEF TakenSeen
<1>6. ASSUME NEW t \in Tasks PROVE HeldOpen(c, t)'
  <2>1. CASE thread'[c][t] = thread[c][t] /\ thread[c][t].st \in Holding
    <3> DEFINE a == thread[c][t].attempt
    <3>1. At(c, "threads") /\ a \in DOMAIN attempts
      BY <2>1 DEF OwnerInv, ThreadsRun, HeldOwn, Known, Holding, At
    <3>2. attempts'[a].end = attempts[a].end
      BY <1>1, <3>1 DEF Losing, LostBy, At
    <3>3. UNCHANGED proc /\ HeldOpen(c, t)
      BY <1>1 DEF world, ProcessInv
    <3>4. QED
      BY <2>1, <3>2, <3>3 DEF HeldOpen, Ended
  <2>2. CASE thread'[c][t].st \notin Holding
    BY <2>2 DEF HeldOpen
  <2>3. QED
    BY <2>1, <2>2 DEF Walks, Holding
<1>7. \A d \in Coordinators, t \in Tasks : HeldOpen(d, t)'
  BY <1>1, <1>2, <1>6 DEF OthersStand, HeldOpen, Holding
<1>8. \A d \in Coordinators : TakenSeen(d)'
  BY <1>1, <1>3, <1>5 DEF OthersStand
<1>9. QED
  BY <1>3, <1>4, <1>7, <1>8 DEF ProcessInv

LEMMA LeavesProcess ==
    ASSUME RunInv, OwnerInv, ProcessInv, NEW c \in Coordinators, Leaves(c)
    PROVE  ProcessInv'
<1>1. Losing(c) /\ UNCHANGED world /\ CoOK
  BY TypeParts DEF Leaves, RunInv
<1>2. /\ co'[c].pc = "gone"
      /\ \A t \in Tasks : thread'[c][t].st = "none"
      /\ lease' = IF lease = c THEN NoOne ELSE lease
      /\ OthersStand(c)
  BY <1>1, GoneFields DEF Leaves
<1>3. /\ ProcKnown'
      /\ \A a \in DOMAIN attempts' : EndedOver(a)'
      /\ \A d \in Coordinators : co'[d] = co[d] => TakenSeen(d)'
  BY <1>1, LosingKeeps
<1>4. Leased'
  BY <1>2 DEF Leased, ProcessInv, OthersStand, Off
<1>5. \A d \in Coordinators : TakenSeen(d)'
  BY <1>2, <1>3 DEF OthersStand, TakenSeen
<1>6. ASSUME NEW d \in Coordinators, NEW t \in Tasks PROVE HeldOpen(d, t)'
  <2>1. CASE d # c /\ thread[d][t].st \in Holding
    <3> DEFINE a == thread[d][t].attempt
    <3>1. ~Off(d) /\ a \in DOMAIN attempts
      BY <2>1 DEF OwnerInv, ThreadsRun, HeldOwn, Known, Holding, Off
    <3>2. ~At(c, "losing")
      BY <2>1, <3>1, OthersAreOff DEF ProcessInv, Off, At
    <3>3. attempts'[a].end = attempts[a].end
      BY <1>1, <3>1, <3>2 DEF Losing, LostBy
    <3>4. UNCHANGED proc /\ HeldOpen(d, t) /\ thread'[d] = thread[d]
      BY <1>1, <1>2, <2>1 DEF world, ProcessInv, OthersStand
    <3>5. QED
      BY <2>1, <3>3, <3>4 DEF HeldOpen, Ended
  <2>2. CASE d = c \/ thread[d][t].st \notin Holding
    BY <1>2, <2>2 DEF OthersStand, HeldOpen, Holding
  <2>3. QED
    BY <2>1, <2>2
<1>7. QED
  BY <1>3, <1>4, <1>5, <1>6 DEF ProcessInv

\* A thread's step touches its own attempt, if it holds one, and no other.
TouchesOwn(c, t) ==
    /\ \A b \in DOMAIN attempts :
        /\ b \in DOMAIN attempts'
        /\ thread[c][t].st \notin Holding \/ b # thread[c][t].attempt =>
             /\ attempts'[b].end = attempts[b].end
             /\ attempts'[b].started = attempts[b].started
    /\ \A b \in DOMAIN attempts' : b \notin DOMAIN attempts => attempts'[b].end = "none"
    /\ \A b \in AttemptIds :
        thread[c][t].st \notin Holding \/ b # thread[c][t].attempt => proc'[b] = proc[b]

\* The attempt it holds does not run on once it has ended.
OwnIsOver(c, t) ==
    thread[c][t].st \in Holding =>
        ~(attempts'[thread[c][t].attempt].end # "none" /\ proc'[thread[c][t].attempt] = "alive")

LEMMA WorksProcess ==
    ASSUME RunInv, OwnerInv, ProcessInv, NEW c \in Coordinators, NEW t \in Tasks,
           WorksOn(c, t), TouchesOwn(c, t), OwnIsOver(c, t), HeldOpen(c, t)'
    PROVE  ProcessInv'
<1>1. At(c, "threads") /\ ~Off(c) /\ OthersStand(c) /\ UNCHANGED <<lease, closed>>
  BY DEF WorksOn, At, Off
<1>2. \A d \in Coordinators : d # c => Off(d) /\ \A u \in Tasks : thread[d][u].st = "none"
  BY <1>1, OthersAreOff DEF ProcessInv
<1>3. Leased'
  BY <1>1 DEF Leased, ProcessInv, OthersStand, Off
<1>4. \A d \in Coordinators : TakenSeen(d)'
  <2>1. \A d \in Coordinators : co'[d].pc \notin {"reopened", "losing"}
    BY <1>1, <1>2 DEF WorksOn, OthersStand, Off, At
  <2>2. QED
    BY <2>1 DEF TakenSeen
<1>5. thread[c][t].st \in Holding => Known(thread[c][t].attempt)
  BY DEF OwnerInv, ThreadsRun, HeldOwn
<1>6. ProcKnown'
  BY <1>5 DEF ProcKnown, ProcessInv, TouchesOwn, Known
<1>7. ASSUME NEW b \in DOMAIN attempts' PROVE EndedOver(b)'
  <2>1. CASE b \notin DOMAIN attempts
    BY <2>1 DEF TouchesOwn, EndedOver, Ended
  <2>2. CASE thread[c][t].st \in Holding /\ b = thread[c][t].attempt
    BY <2>2 DEF OwnIsOver, EndedOver, Ended
  <2>3. CASE b \in DOMAIN attempts /\ ~(thread[c][t].st \in Holding /\ b = thread[c][t].attempt)
    <3>1. b \in AttemptIds
      BY <2>3, KnownIsAttempt DEF RunInv, JournalInv, Known
    <3>2. /\ attempts'[b].end = attempts[b].end
          /\ attempts'[b].started = attempts[b].started
          /\ proc'[b] = proc[b]
      BY <2>3, <3>1 DEF TouchesOwn
    <3>3. EndedOver(b)
      BY <2>3 DEF ProcessInv
    <3>4. QED
      BY <1>1, <3>2, <3>3 DEF EndedOver, Ended, Hidden
  <2>4. QED
    BY <2>1, <2>2, <2>3
<1>8. ASSUME NEW u \in Tasks, u # t PROVE HeldOpen(c, u)'
  <2>1. CASE thread[c][u].st \in Holding
    <3> DEFINE b == thread[c][u].attempt
    <3>1. b \in DOMAIN attempts /\ attempts[b].task = u
      BY <2>1 DEF OwnerInv, ThreadsRun, HeldOwn, Known
    <3>2. thread[c][t].st \in Holding => attempts[thread[c][t].attempt].task = t
      BY DEF OwnerInv, ThreadsRun, HeldOwn
    <3>3. thread[c][t].st \notin Holding \/ b # thread[c][t].attempt
      BY <1>8, <3>1, <3>2
    <3>4. b \in AttemptIds
      BY <3>1, KnownIsAttempt DEF RunInv, JournalInv, Known
    <3>5. attempts'[b].end = attempts[b].end /\ proc'[b] = proc[b]
      BY <3>1, <3>3, <3>4 DEF TouchesOwn
    <3>6. HeldOpen(c, u) /\ thread'[c][u] = thread[c][u]
      BY <1>8 DEF ProcessInv, WorksOn
    <3>7. QED
      BY <2>1, <3>5, <3>6 DEF HeldOpen, Ended
  <2>2. CASE thread[c][u].st \notin Holding
    BY <1>8, <2>2 DEF WorksOn, HeldOpen
  <2>3. QED
    BY <2>1, <2>2
<1>9. \A d \in Coordinators, u \in Tasks : HeldOpen(d, u)'
  BY <1>1, <1>2, <1>8 DEF OthersStand, HeldOpen, Holding
<1>10. QED
  BY <1>3, <1>4, <1>6, <1>7, <1>9 DEF ProcessInv

\* What a thread's own fact does to the attempts.
LEMMA NothingTouched ==
    ASSUME NEW c \in Coordinators, NEW t \in Tasks, UNCHANGED <<attempts, proc>>
    PROVE  TouchesOwn(c, t)
  BY DEF TouchesOwn

LEMMA EndTouched ==
    ASSUME JournalTypeOK, NEW c \in Coordinators, NEW t \in Tasks,
           thread[c][t].st \in Holding, NEW e \in Ends,
           thread[c][t].attempt \in DOMAIN attempts,
           attempts' = [attempts EXCEPT ![thread[c][t].attempt].end = e],
           UNCHANGED proc
    PROVE  TouchesOwn(c, t)
<1> DEFINE a == thread[c][t].attempt
<1>1. KeptAttempts(a)
  BY SetEnd
<1>2. QED
  BY <1>1 DEF KeptAttempts, TouchesOwn

LEMMA StartTouched ==
    ASSUME JournalTypeOK, NEW c \in Coordinators, NEW t \in Tasks,
           thread[c][t].st \in Holding, NEW g, Started(thread[c][t].attempt, g)
    PROVE  /\ \A b \in DOMAIN attempts :
                /\ b \in DOMAIN attempts'
                /\ attempts'[b].end = attempts[b].end
                /\ b # thread[c][t].attempt => attempts'[b].started = attempts[b].started
           /\ DOMAIN attempts' = DOMAIN attempts
<1> DEFINE a == thread[c][t].attempt
<1>1. a \in DOMAIN attempts /\ attempts' = [attempts EXCEPT ![a].started = TRUE]
  BY DEF Started, AcceptsStarted, Known
<1> HIDE DEF a
<1>2. KeptAttempts(a) /\ attempts'[a].end = attempts[a].end
  BY <1>1, SetStarted
<1>3. QED
  BY <1>2 DEF KeptAttempts, a

LEMMA DispatchProcess ==
    ASSUME RunInv, OwnerInv, ProcessInv, NEW c \in Coordinators, NEW t \in Tasks,
           Dispatch(c, t)
    PROVE  ProcessInv'
<1>1. CoOK /\ JournalTypeOK /\ WorksOn(c, t)
  BY TypeParts, ThreadEffect DEF RunInv, JournalInv, ThreadStep
<1>2. thread[c][t].st = "ready" /\ UNCHANGED proc
  BY DEF Dispatch, Running, world
<1>3. OwnIsOver(c, t)
  BY <1>2 DEF OwnIsOver, Holding
<1>4. CASE Dispatched(t, co[c].generation, lineage[t])
  <2> DEFINE n == Len(attempts) + 1
  <2>1. /\ n \in AttemptIds /\ n \notin DOMAIN attempts
        /\ DOMAIN attempts' = DOMAIN attempts \cup {n}
        /\ \A b \in DOMAIN attempts : attempts'[b] = attempts[b]
        /\ attempts'[n].end = "none"
    BY <1>1, <1>4, OpenedAttempt
  <2>2. proc[n] = "none"
    BY <2>1 DEF ProcessInv, ProcKnown, Known
  <2>3. TouchesOwn(c, t)
    BY <1>2, <2>1 DEF TouchesOwn
  <2>4. thread'[c][t].st \in Holding => thread'[c][t].attempt = n
    BY <1>1, <1>2 DEF WorksOn, GoesOn, Opens, LetsGo, Holding
  <2> HIDE DEF n
  <2>5. HeldOpen(c, t)'
    BY <1>2, <2>1, <2>2, <2>4 DEF HeldOpen, Ended
  <2>6. QED
    BY <1>1, <1>3, <2>3, <2>5, WorksProcess
<1>5. CASE UNCHANGED journal
  <2>1. TouchesOwn(c, t)
    BY <1>2, <1>5, NothingTouched DEF journal
  <2>2. ~Opens(c, t) /\ ~GoesOn(c, t)
    <3>1. ~Dispatched(t, co[c].generation, lineage[t])
      <4>1. ASSUME Dispatched(t, co[c].generation, lineage[t]) PROVE FALSE
        BY <1>1, <1>5, <4>1, OpenedAttempt DEF journal
      <4>2. QED
        BY <4>1
    <3>2. QED
      BY <1>2, <3>1 DEF Opens, GoesOn, Holding
  <2>3. HeldOpen(c, t)'
    BY <1>1, <2>2 DEF WorksOn, LetsGo, HeldOpen, Holding
  <2>4. QED
    BY <1>1, <1>3, <2>1, <2>3, WorksProcess
<1>6. QED
  BY <1>4, <1>5 DEF Dispatch, ThreadFails, Recorded, NotRecorded

LEMMA LaunchProcess ==
    ASSUME RunInv, OwnerInv, ProcessInv, NEW c \in Coordinators, NEW t \in Tasks,
           Launch(c, t)
    PROVE  ProcessInv'
<1> DEFINE a == thread[c][t].attempt
<1>1. CoOK /\ JournalTypeOK /\ WorksOn(c, t)
  BY TypeParts, ThreadEffect DEF RunInv, JournalInv, ThreadStep
<1>2. thread[c][t].st = "dispatched" /\ UNCHANGED attempts
  BY DEF Launch, Running, journal
<1>3. ~Ended(a) /\ proc[a] # "alive" /\ a \in AttemptIds
  BY <1>1, <1>2, KnownIsAttempt DEF ProcessInv, HeldOpen, OwnerInv, ThreadsRun, HeldOwn, Holding
<1>4. \/ proc' = [proc EXCEPT ![a] = "alive"] /\ Stepped(c, t, "spawned")
      \/ UNCHANGED proc
  BY DEF Launch
<1>5. \A b \in AttemptIds : b # a => proc'[b] = proc[b]
  BY <1>4, TypeParts DEF RunInv
<1>6. TouchesOwn(c, t)
  BY <1>2, <1>5 DEF TouchesOwn, Holding
<1>7. OwnIsOver(c, t)
  BY <1>2, <1>3 DEF OwnIsOver, Ended
<1>8. HeldOpen(c, t)'
  <2>1. thread'[c][t].st \in Holding => thread'[c][t].attempt = a
    BY <1>1, <1>2 DEF WorksOn, GoesOn, Opens, Dispatched, LetsGo, Holding, Launch, Stepped
  <2>2. CASE Stepped(c, t, "spawned")
    <3>1. thread'[c][t].st = "spawned"
      BY <1>1, <2>2, SteppedFields
    <3>2. QED
      BY <1>2, <1>3, <2>1, <3>1 DEF HeldOpen, Ended
  <2>3. CASE UNCHANGED proc
    BY <1>2, <1>3, <2>1, <2>3 DEF HeldOpen, Ended
  <2>4. QED
    BY <1>4, <2>2, <2>3
<1>9. QED
  BY <1>1, <1>6, <1>7, <1>8, WorksProcess

LEMMA RecordStartProcess ==
    ASSUME RunInv, OwnerInv, ProcessInv, NEW c \in Coordinators, NEW t \in Tasks,
           RecordStart(c, t)
    PROVE  ProcessInv'
<1> DEFINE a == thread[c][t].attempt
<1>1. CoOK /\ JournalTypeOK /\ WorksOn(c, t)
  BY TypeParts, ThreadEffect DEF RunInv, JournalInv, ThreadStep
<1>2. thread[c][t].st = "spawned" /\ ~Ended(a) /\ a \in AttemptIds /\ a \in DOMAIN attempts
  BY <1>1, KnownIsAttempt DEF RecordStart, Running, ProcessInv, HeldOpen, OwnerInv, ThreadsRun,
     HeldOwn, Holding
<1>3. \/ UNCHANGED proc /\ Stepped(c, t, "running")
      \/ proc' = Killed(a) /\ Stepped(c, t, "failed")
  BY DEF RecordStart, ThreadFails
<1>4. \A b \in AttemptIds : b # a => proc'[b] = proc[b]
  BY <1>3, TypeParts DEF RunInv, Killed
<1>5. UNCHANGED attempts \/ Started(a, co[c].generation)
  BY DEF RecordStart, ThreadFails, Recorded, NotRecorded, journal
<1>6. /\ \A b \in DOMAIN attempts :
            /\ b \in DOMAIN attempts'
            /\ attempts'[b].end = attempts[b].end
            /\ b # a => attempts'[b].started = attempts[b].started
      /\ DOMAIN attempts' = DOMAIN attempts
  BY <1>1, <1>2, <1>5, StartTouched DEF Holding
<1>7. TouchesOwn(c, t)
  BY <1>2, <1>4, <1>6 DEF TouchesOwn, Holding
<1>8. attempts'[a].end = "none"
  BY <1>2, <1>6 DEF Ended
<1>9. OwnIsOver(c, t)
  BY <1>8 DEF OwnIsOver
<1>10. HeldOpen(c, t)'
  <2>1. thread'[c][t].attempt = a /\ thread'[c][t].st \in {"running", "failed"}
    BY <1>1, <1>3, SteppedFields
  <2>2. QED
    BY <1>8, <2>1 DEF HeldOpen, Holding, Ended
<1>11. QED
  BY <1>1, <1>7, <1>9, <1>10, WorksProcess

LEMMA JudgeProcess ==
    ASSUME RunInv, OwnerInv, ProcessInv, NEW c \in Coordinators, NEW t \in Tasks,
           Observe(c, t) \/ Judge(c, t)
    PROVE  ProcessInv'
<1> DEFINE a == thread[c][t].attempt
<1>1. CoOK /\ JournalTypeOK /\ WorksOn(c, t)
  BY TypeParts, ThreadEffect DEF RunInv, JournalInv, ThreadStep
<1>2. thread[c][t].st \in {"running", "exited"} /\ UNCHANGED <<attempts, proc>>
  BY DEF Observe, Judge, Running, journal, world
<1>3. ~Ended(a) /\ proc[a] # "alive"
  BY <1>1, <1>2 DEF Observe, Judge, Running, ProcessInv, HeldOpen, Holding
<1>4. TouchesOwn(c, t)
  BY <1>2, NothingTouched
<1>5. OwnIsOver(c, t)
  BY <1>2, <1>3 DEF OwnIsOver, Ended
<1>6. ~Opens(c, t)
  <2>1. ASSUME Dispatched(t, co[c].generation, lineage[t]) PROVE FALSE
    BY <1>1, <1>2, <2>1, OpenedAttempt
  <2>2. QED
    BY <2>1 DEF Opens
<1>7. HeldOpen(c, t)'
  BY <1>1, <1>2, <1>3, <1>6 DEF WorksOn, GoesOn, LetsGo, HeldOpen, Holding, Ended
<1>8. QED
  BY <1>1, <1>4, <1>5, <1>7, WorksProcess

LEMMA RecordEndProcess ==
    ASSUME RunInv, OwnerInv, ProcessInv, NEW c \in Coordinators, NEW t \in Tasks,
           RecordFinish(c, t) \/ RecordInterrupt(c, t)
    PROVE  ProcessInv'
<1> DEFINE a == thread[c][t].attempt
<1>1. CoOK /\ JournalTypeOK /\ WorksOn(c, t)
  BY TypeParts, ThreadEffect DEF RunInv, JournalInv, ThreadStep
<1>2. thread[c][t].st \in {"judged", "stopping"} /\ UNCHANGED proc
  BY DEF RecordFinish, RecordInterrupt, Running, world
<1>3. proc[a] # "alive" /\ a \in DOMAIN attempts
  BY <1>2 DEF ProcessInv, HeldOpen, OwnerInv, ThreadsRun, HeldOwn, Holding, Known
<1>4. \/ UNCHANGED attempts
      \/ \E e \in Ends : attempts' = [attempts EXCEPT ![a].end = e]
  BY DEF RecordFinish, RecordInterrupt, ThreadFails, Recorded, NotRecorded, journal,
     Finished, AcceptsFinished, FinishedEnds, Interrupted, Ends
<1>5. TouchesOwn(c, t)
  BY <1>1, <1>2, <1>3, <1>4, NothingTouched, EndTouched DEF Holding
<1>6. OwnIsOver(c, t)
  BY <1>2, <1>3 DEF OwnIsOver
<1>7. thread'[c][t].st \in {"done", "interrupted", "failed"}
  <2>1. \E st \in {"done", "interrupted", "failed"} : Stepped(c, t, st)
    BY DEF RecordFinish, RecordInterrupt, ThreadFails
  <2>2. QED
    BY <1>1, <2>1, SteppedFields
<1>8. HeldOpen(c, t)'
  BY <1>7 DEF HeldOpen, Holding
<1>9. QED
  BY <1>1, <1>5, <1>6, <1>8, WorksProcess

\* A run is created when nobody is there, and reopened when its lease is free
\* and no attempt of it is seen to run.
LEMMA CreateProcess ==
    ASSUME RunInv, OwnerInv, ProcessInv, NEW c \in Coordinators, Create(c)
    PROVE  ProcessInv'
<1>1. CoOK /\ JournalTypeOK /\ UNCHANGED world
  BY TypeParts DEF RunInv, JournalInv, Create
<1>2. Losing(c)
  BY <1>1, QuietRunFact DEF Create
<1>3. CASE Gone(c)
  BY <1>1, <1>2, <1>3, LeavesProcess DEF Leaves
<1>4. ASSUME NEW pc \in {"level", "detach"}, Begin(c, 1, pc), lease' = c, UNCHANGED thread
      PROVE  ProcessInv'
  <2>1. co'[c].pc = pc /\ \A d \in Coordinators : d # c => co'[d] = co[d]
    BY <1>1, <1>4, BegunFields
  <2>2. \A d \in Coordinators : Off(d)
    BY DEF Create, AcceptsRequested, OwnerInv, Places
  <2>3. \A d \in Coordinators, t \in Tasks : thread'[d][t].st = "none"
    BY <1>4, <2>2 DEF OwnerInv, ThreadsRun, Off
  <2>4. Leased'
    BY <1>4, <2>1, <2>2 DEF Leased, Off
  <2>5. \A d \in Coordinators : TakenSeen(d)'
    BY <2>1, <2>2 DEF TakenSeen, Off
  <2>6. QED
    BY <1>1, <1>2, <2>3, <2>4, <2>5, LosingKeeps DEF ProcessInv, HeldOpen, Holding
<1>5. QED
  BY <1>3, <1>4 DEF Create

LEMMA ReopenProcess ==
    ASSUME RunInv, OwnerInv, ProcessInv, NEW c \in Coordinators, NEW assume,
           Reopen(c, assume)
    PROVE  ProcessInv'
<1>1. CoOK /\ UNCHANGED <<attempts, thread, proc, closed>> /\ lease = NoOne /\ lease' = c
  BY TypeParts DEF RunInv, Reopen, journal, world
<1>2. /\ co'[c].pc = "reopened"
      /\ co'[c].assumed = {a \in OpenAttempts : GroupExists(a)}
      /\ OthersStand(c)
  BY <1>1, ReopenFields
<1>3. \A d \in Coordinators : Off(d)
  BY <1>1 DEF ProcessInv, Leased, NoOne, Coordinators
<1>4. \A d \in Coordinators, t \in Tasks : thread'[d][t].st = "none"
  BY <1>1, <1>3 DEF OwnerInv, ThreadsRun, Off
<1>5. Leased'
  BY <1>1, <1>2, <1>3 DEF Leased, OthersStand, Off
<1>6. ASSUME NEW a \in OpenAttempts, proc[a] = "alive"
      PROVE  Hidden(a) \/ a \in co'[c].assumed
  BY <1>2, <1>6 DEF Reopen, AttemptHeld, GroupExists, Hidden
<1>7. \A d \in Coordinators : TakenSeen(d)'
  BY <1>1, <1>2, <1>3, <1>6 DEF OthersStand, TakenSeen, Off, OpenAttempts, Ended, Hidden
<1>8. ProcKnown' /\ \A a \in DOMAIN attempts' : EndedOver(a)'
  BY <1>1 DEF ProcessInv, ProcKnown, Known, EndedOver, Ended, Hidden
<1>9. QED
  BY <1>4, <1>5, <1>7, <1>8 DEF ProcessInv, HeldOpen, Holding

LEMMA WorldProcess ==
    ASSUME RunInv, OwnerInv, ProcessInv, NEW a \in AttemptIds, ProcExit(a) \/ CloseLease(a)
    PROVE  ProcessInv'
<1>1. UNCHANGED <<attempts, lease, co, thread>> /\ closed \subseteq closed'
  BY DEF ProcExit, CloseLease, journal
<1>2. \A b \in AttemptIds :
        /\ proc'[b] = "alive" => proc[b] = "alive"
        /\ proc'[b] # "none" => proc[b] # "none"
  BY TypeParts DEF RunInv, ProcExit, CloseLease
<1>3. \A b \in DOMAIN attempts : b \in AttemptIds
  BY KnownIsAttempt DEF RunInv, JournalInv, Known
<1>4. Leased' /\ ProcKnown'
  BY <1>1, <1>2 DEF ProcessInv, Leased, Off, ProcKnown, Known
<1>5. \A b \in DOMAIN attempts' : EndedOver(b)'
  BY <1>1, <1>2, <1>3 DEF ProcessInv, EndedOver, Ended, Hidden
<1>6. \A c \in Coordinators : TakenSeen(c)'
  BY <1>1, <1>2, <1>3 DEF ProcessInv, TakenSeen, OpenAttempts, Ended, Hidden
<1>7. ASSUME NEW c \in Coordinators, NEW t \in Tasks PROVE HeldOpen(c, t)'
  <2>1. thread[c][t].st \in Holding => thread[c][t].attempt \in DOMAIN attempts
    BY DEF OwnerInv, ThreadsRun, HeldOwn, Known
  <2>2. QED
    BY <1>1, <1>2, <1>3, <2>1 DEF ProcessInv, HeldOpen, Ended
<1>8. QED
  BY <1>4, <1>5, <1>6, <1>7 DEF ProcessInv

LEMMA ProcessInit == Init => ProcessInv
<1> SUFFICES ASSUME Init PROVE ProcessInv
  OBVIOUS
<1>1. \A c \in Coordinators : co[c].pc = "unborn"
  BY DEF Init, Unborn
<1>2. \A c \in Coordinators, t \in Tasks : thread[c][t].st = "none"
  BY DEF Init, NoThreads, NoThread
<1>3. DOMAIN attempts = {} /\ \A a \in AttemptIds : proc[a] = "none"
  BY DEF Init, JournalInit
<1>4. QED
  BY <1>1, <1>2, <1>3 DEF ProcessInv, Leased, HeldOpen, ProcKnown, TakenSeen, Off, Holding

LEMMA ProcessNext ==
    RunInv /\ OwnerInv /\ ProcessInv /\ "lease" \notin Events /\ [Next]_vars => ProcessInv'
<1> SUFFICES ASSUME RunInv, OwnerInv, ProcessInv, "lease" \notin Events, [Next]_vars
             PROVE  ProcessInv'
  OBVIOUS
<1>1. CASE Next
  <2>1. ASSUME NEW c \in Coordinators,
               \/ MainStep(c) \/ Decline(c) \/ Crash(c) \/ StopBegins(c) \/ HandlerRuns(c)
        PROVE  ProcessInv'
    BY <2>1, MainEffect, WalksProcess, LeavesProcess
  <2>2. ASSUME NEW c \in Coordinators, NEW t \in Tasks, ThreadStep(c, t) PROVE ProcessInv'
    BY <2>2, DispatchProcess, LaunchProcess, RecordStartProcess, JudgeProcess,
       RecordEndProcess DEF ThreadStep
  <2>3. ASSUME NEW c \in Coordinators, Create(c) \/ \E assume \in BOOLEAN : Reopen(c, assume)
        PROVE  ProcessInv'
    BY <2>3, CreateProcess, ReopenProcess
  <2>4. ASSUME NEW a \in AttemptIds, ProcExit(a) \/ CloseLease(a) PROVE ProcessInv'
    BY <2>4, WorldProcess
  <2>5. ASSUME NEW c \in Coordinators PROVE ~LoseLease(c)
    BY DEF LoseLease
  <2>6. QED
    BY <1>1, <2>1, <2>2, <2>3, <2>4, <2>5 DEF Next, Environment
<1>2. CASE UNCHANGED vars
  BY <1>2 DEF vars, journal, ProcessInv, Leased, Off, HeldOpen, ProcKnown, Known, EndedOver,
     TakenSeen, OpenAttempts, Ended, Hidden
<1>3. QED
  BY <1>1, <1>2

\* While leases hold, an attempt recorded as lost does not run, now or later,
\* unless nobody could have seen it.
THEOREM LostRunIsOver ==
    ASSUME "lease" \notin Events
    PROVE  Spec => []LostIsOver
<1>1. RunInv /\ ProcessInv => LostIsOver
  BY DEF ProcessInv, EndedOver, LostIsOver, Ended
<1>2. RunInv /\ OwnerInv /\ ProcessInv /\ [Next]_vars => ProcessInv'
  BY ProcessNext
<1>3. QED
  BY <1>1, <1>2, RunInit, RunNext, OwnerInit, OwnerNext, ProcessInit, PTL DEF Spec

\* While leases hold, no task ever has two processes that anybody could have
\* seen, across every crash, resume and failed write: a process that runs is
\* an open attempt's, and only the last attempt of a lineage is open.
THEOREM TaskHasOneProcess ==
    ASSUME "lease" \notin Events
    PROVE  Spec => []OneProcessPerTask
<1>1. RunInv /\ ProcessInv => OneProcessPerTask
  <2> SUFFICES ASSUME RunInv, ProcessInv,
                      NEW a \in DOMAIN attempts, NEW b \in DOMAIN attempts,
                      proc[a] = "alive", proc[b] = "alive",
                      attempts[a].task = attempts[b].task,
                      attempts[a].end # "assumed", attempts[b].end # "assumed",
                      ~Hidden(a), ~Hidden(b)
               PROVE  a = b
    BY DEF OneProcessPerTask
  <2>1. ~Ended(a) /\ ~Ended(b)
    BY DEF ProcessInv, EndedOver
  <2>2. lineage[attempts[a].task] = a /\ lineage[attempts[b].task] = b
    BY <2>1 DEF RunInv, JournalInv, RetryAfterEnd
  <2>3. QED
    BY <2>2
<1>2. RunInv /\ OwnerInv /\ ProcessInv /\ [Next]_vars => ProcessInv'
  BY ProcessNext
<1>3. QED
  BY <1>1, <1>2, RunInit, RunNext, OwnerInit, OwnerNext, ProcessInit, PTL DEF Spec

-----------------------------------------------------------------------------
(***************************************************************************)
(* The plan: `execute` goes through the levels in order, and comes to the  *)
(* next one only when every task before it was decided, or a stop came.    *)
(* This concerns a coordinator alone, taken over or not.                   *)
(***************************************************************************)
LevelsUpTo(n) == UNION {LevelTasks(l) : l \in 1 .. n}

\* Decided already, or on a thread of this level.
Settling(c, t) == DecidedHere(c, t) \/ thread[c][t].st # "none"

Progress(c) ==
    /\ co[c].pc \in {"detach", "received", "reopened", "losing"} => co[c].level = 0
    /\ At(c, "level") /\ ~Flagged(c) => \A t \in LevelsUpTo(co[c].level) : DecidedHere(c, t)
    /\ co[c].pc \in {"consider", "threads"} =>
         \A t \in LevelsUpTo(co[c].level - 1) : DecidedHere(c, t)
    /\ At(c, "consider") =>
         \A i \in DOMAIN Levels[co[c].level] :
            i < co[c].pos => Settling(c, Levels[co[c].level][i])
    /\ At(c, "threads") =>
         /\ co[c].level \in DOMAIN Levels
         /\ \A t \in LevelTasks(co[c].level) : Settling(c, t)
    /\ co[c].pc \in {"window", "conclude"} => \A t \in Tasks : DecidedHere(c, t)

\* A thread is for a task that is not decided; it is interrupted by a stop
\* only, and what it is done with has an outcome.
ThreadPlan(c, t) ==
    /\ thread[c][t].st \in Holding \cup {"ready", "interrupted"} => ~DecidedHere(c, t)
    /\ thread[c][t].st \in {"stopping", "interrupted"} => Flagged(c)
    /\ thread[c][t].st \in {"judged", "done"} => thread[c][t].outcome # "none"
    /\ At(c, "consider") /\ thread[c][t].st # "none" =>
         \E i \in DOMAIN Levels[co[c].level] :
            i < co[c].pos /\ Levels[co[c].level][i] = t

PlanOf(c) == Progress(c) /\ \A t \in Tasks : ThreadPlan(c, t)

PlanInv == \A c \in Coordinators : PlanOf(c)

\* The plan of a coordinator that is left alone stands.
LEMMA PlanStands ==
    ASSUME NEW c \in Coordinators, PlanOf(c), co'[c] = co[c], thread'[c] = thread[c]
    PROVE  PlanOf(c)'
<1>1. Progress(c)'
  BY DEF PlanOf, Progress, Settling, DecidedHere, At, Flagged
<1>2. \A t \in Tasks : ThreadPlan(c, t)'
  BY DEF PlanOf, ThreadPlan, DecidedHere, At, Flagged
<1>3. QED
  BY <1>1, <1>2 DEF PlanOf

\* Without threads the plan is where the levels are.
LEMMA PlanIdle ==
    ASSUME NEW c \in Coordinators, Progress(c)', \A t \in Tasks : thread'[c][t].st = "none"
    PROVE  PlanOf(c)'
  BY DEF PlanOf, ThreadPlan, Holding

LEMMA IdleThreads ==
    ASSUME OwnerInv, NEW c \in Coordinators, co[c].pc \notin {"consider", "threads"}
    PROVE  \A t \in Tasks : thread[c][t].st = "none"
  BY DEF OwnerInv, ThreadsRun

LEMMA NoLevels == LevelsUpTo(0) = {}
  BY DEF LevelsUpTo

LEMMA NextLevel ==
    ASSUME NEW n \in Nat
    PROVE  LevelsUpTo(n + 1) = LevelsUpTo(n) \cup LevelTasks(n + 1)
<1>1. 1 .. n + 1 = (1 .. n) \cup {n + 1}
  OBVIOUS
<1> DEFINE m == n + 1
<1>2. 1 .. m = (1 .. n) \cup {m}
  BY <1>1
<1> HIDE DEF m
<1>3. LevelsUpTo(m) = LevelsUpTo(n) \cup LevelTasks(m)
  BY <1>2 DEF LevelsUpTo
<1>4. QED
  BY <1>3 DEF m

\* A coordinator that left has no plan.
LEMMA GonePlan ==
    ASSUME CoOK, NEW c \in Coordinators, Gone(c)
    PROVE  PlanOf(c)'
<1>1. co'[c].pc = "gone" /\ \A t \in Tasks : thread'[c][t].st = "none"
  BY GoneFields
<1>2. Progress(c)'
  BY <1>1 DEF Progress, At
<1>3. QED
  BY <1>1, <1>2, PlanIdle

\* The steps before the levels.
LEMMA OpeningPlan ==
    ASSUME RunInv, OwnerInv, NEW c \in Coordinators, PlanOf(c),
           \/ Detach(c) \/ Received(c) \/ TakeOver(c) \/ TakenOver(c)
           \/ \E a \in AttemptIds : RecordLost(c, a)
    PROVE  PlanOf(c)'
<1>1. CoOK
  BY TypeParts DEF RunInv
<1>2. CASE Gone(c)
  BY <1>1, <1>2, GonePlan
<1>3. CASE ~Gone(c)
  <2>1. co[c].pc \in {"detach", "received", "reopened", "losing"}
    BY DEF Detach, Received, TakeOver, TakenOver, RecordLost, At
  <2>2. co[c].level = 0 /\ \A t \in Tasks : thread[c][t].st = "none"
    BY <2>1, IdleThreads DEF PlanOf, Progress
  <2>3. UNCHANGED thread
    BY <1>3 DEF Detach, Received, NotStarted, TakeOver, TakenOver, RecordLost
  <2>4. co'[c].pc \in {"received", "level", "losing"} /\ co'[c].level = 0
    <3>1. CASE Detach(c) \/ Received(c)
      <4>1. PICK pc \in {"received", "level"} : Moved(c, pc)
        BY <1>3, <3>1 DEF Detach, Received, NotStarted
      <4>2. QED
        BY <1>1, <2>2, <4>1, MovedFields DEF KeepsPlan
    <3>2. CASE TakeOver(c)
      <4> DEFINE g == co[c].generation + 1
      <4> DEFINE r == [co[c] EXCEPT !.generation = g, !.pc = "losing"]
      <4>1. co[c] \in CoState
        BY <1>1 DEF CoOK
      <4>2. co' = [co EXCEPT ![c] = r]
        BY <1>1, <1>3, <3>2 DEF TakeOver, CoOK, CoState
      <4>3. r.pc = "losing" /\ r.level = co[c].level
        BY <4>1 DEF CoState
      <4> HIDE DEF r
      <4>4. QED
        BY <1>1, <2>2, <4>2, <4>3, CoSet
    <3>3. CASE TakenOver(c)
      <4> DEFINE d == [t \in Tasks |-> decided[t].outcome]
      <4> DEFINE r == [co[c] EXCEPT !.pc = "level", !.assumed = {}, !.decided = d]
      <4>1. co[c] \in CoState
        BY <1>1 DEF CoOK
      <4>2. co' = [co EXCEPT ![c] = r]
        BY <1>1, <3>3 DEF TakenOver, CoOK, CoState
      <4>3. r.pc = "level" /\ r.level = co[c].level
        BY <4>1 DEF CoState
      <4> HIDE DEF r
      <4>4. QED
        BY <1>1, <2>2, <4>2, <4>3, CoSet
    <3>4. CASE \E a \in AttemptIds : RecordLost(c, a)
      BY <1>3, <2>2, <3>4 DEF RecordLost, At
    <3>5. QED
      BY <3>1, <3>2, <3>3, <3>4
  <2>5. Progress(c)'
    BY <2>4, NoLevels DEF Progress, At
  <2>6. QED
    BY <2>2, <2>3, <2>5, PlanIdle
<1>4. QED
  BY <1>2, <1>3

LEMMA StartLevelPlan ==
    ASSUME RunInv, OwnerInv, NEW c \in Coordinators, PlanOf(c), StartLevel(c)
    PROVE  PlanOf(c)'
<1>1. CoOK /\ co[c] \in CoState /\ UNCHANGED thread /\ At(c, "level")
  BY TypeParts DEF RunInv, CoOK, StartLevel
<1>2. \A t \in Tasks : thread[c][t].st = "none"
  BY <1>1, IdleThreads DEF At
<1>3. CASE co[c].level < Len(Levels) /\ ~Flagged(c)
  <2> DEFINE n == co[c].level + 1
  <2> DEFINE r == [co[c] EXCEPT !.level = n, !.pos = 1, !.pc = "consider"]
  <2>1. co' = [co EXCEPT ![c] = r]
    <3>1. co' = [co EXCEPT ![c].level = n, ![c].pos = 1, ![c].pc = "consider"]
      BY <1>3 DEF StartLevel
    <3>2. QED
      BY <1>1, <3>1 DEF CoOK
  <2>2. n \in Nat /\ n - 1 = co[c].level
    BY <1>1 DEF CoState
  <2> HIDE DEF n
  <2>3. r.pc = "consider" /\ r.level = n /\ r.pos = 1 /\ r.decided = co[c].decided
    BY <1>1 DEF CoState
  <2> HIDE DEF r
  <2>4. co'[c] = r
    BY <1>1, <2>1, CoSet
  <2>5. \A t \in LevelsUpTo(n - 1) : DecidedHere(c, t)
    BY <1>1, <1>3, <2>2 DEF PlanOf, Progress
  <2>6. \A i \in DOMAIN Levels[n] : ~(i < 1)
    <3>1. n \in DOMAIN Levels
      BY <1>1, <1>3, GraphAssumption DEF CoState, n
    <3>2. Levels[n] \in Seq(Tasks)
      BY <3>1, GraphAssumption
    <3>3. QED
      BY <3>2
  <2>7. Progress(c)'
    BY <2>3, <2>4, <2>5, <2>6 DEF Progress, DecidedHere, At
  <2>8. QED
    BY <1>1, <1>2, <2>7, PlanIdle
<1>4. CASE ~(co[c].level < Len(Levels) /\ ~Flagged(c))
  <2>1. CASE ~Flagged(c) /\ \A t \in Tasks : DecidedHere(c, t)
    <3>1. Moved(c, "window")
      BY <1>4, <2>1 DEF StartLevel
    <3>2. Progress(c)'
      BY <1>1, <2>1, <3>1, MovedFields DEF Progress, At, KeepsPlan, DecidedHere
    <3>3. QED
      BY <1>1, <1>2, <3>2, PlanIdle
  <2>2. CASE ~(~Flagged(c) /\ \A t \in Tasks : DecidedHere(c, t))
    <3>1. Moved(c, "withdraw")
      BY <1>4, <2>2 DEF StartLevel
    <3>2. Progress(c)'
      BY <1>1, <3>1, MovedFields DEF Progress, At
    <3>3. QED
      BY <1>1, <1>2, <3>2, PlanIdle
  <2>3. QED
    BY <2>1, <2>2
<1>5. QED
  BY <1>3, <1>4

\* The task come to is one of this level that no thread has.
LEMMA ConsideredIsFree ==
    ASSUME CoOK, NEW c \in Coordinators, PlanOf(c), At(c, "consider"),
           co[c].pos <= Len(Levels[co[c].level])
    PROVE  thread[c][Considered(c)].st = "none"
<1>1. /\ co[c].level \in DOMAIN Levels /\ co[c].pos \in DOMAIN Levels[co[c].level]
      /\ Considered(c) \in Tasks
  BY ConsideredIsTask
<1>2. co[c].pos \in Nat
  BY DEF CoOK, CoState
<1>3. ASSUME thread[c][Considered(c)].st # "none" PROVE FALSE
  <2>1. PICK i \in DOMAIN Levels[co[c].level] :
            i < co[c].pos /\ Levels[co[c].level][i] = Considered(c)
    BY <1>1, <1>3 DEF PlanOf, ThreadPlan
  <2>2. i = co[c].pos
    BY <1>1, <2>1, OnceInLevel DEF Considered
  <2>3. QED
    BY <1>2, <2>1, <2>2
<1>4. QED
  BY <1>3

LEMMA ConsiderPlan ==
    ASSUME RunInv, OwnerInv, NEW c \in Coordinators, PlanOf(c), Consider(c)
    PROVE  PlanOf(c)'
<1> DEFINE t == Considered(c)
<1> DEFINE n == co[c].level
<1> DEFINE k == co[c].pos
<1>1. CoOK /\ At(c, "consider") /\ k <= Len(Levels[n])
  BY TypeParts DEF RunInv, Consider
<1>2. n \in DOMAIN Levels /\ k \in DOMAIN Levels[n] /\ t \in Tasks /\ Levels[n][k] = t
  BY <1>1, ConsideredIsTask DEF Considered
<1>3. thread[c][t].st = "none" /\ k \in Nat
  BY <1>1, ConsideredIsFree DEF CoOK, CoState
<1>4. \A u \in Tasks : thread[c][u].st \in {"none", "ready"}
  BY <1>1 DEF OwnerInv, ThreadsRun, At
<1>5. /\ \A u \in LevelsUpTo(n - 1) : DecidedHere(c, u)
      /\ \A i \in DOMAIN Levels[n] : i < k => Settling(c, Levels[n][i])
      /\ \A u \in Tasks : thread[c][u].st # "none" =>
           ~DecidedHere(c, u) /\ \E i \in DOMAIN Levels[n] : i < k /\ Levels[n][i] = u
  <2>1. Progress(c) /\ \A u \in Tasks : ThreadPlan(c, u)
    BY DEF PlanOf
  <2>2. /\ \A u \in LevelsUpTo(n - 1) : DecidedHere(c, u)
        /\ \A i \in DOMAIN Levels[n] : i < k => Settling(c, Levels[n][i])
    BY <1>1, <2>1 DEF Progress, At
  <2>3. ASSUME NEW u \in Tasks, thread[c][u].st # "none"
        PROVE  ~DecidedHere(c, u) /\ \E i \in DOMAIN Levels[n] : i < k /\ Levels[n][i] = u
    BY <1>1, <1>4, <2>1, <2>3 DEF ThreadPlan
  <2>4. QED
    BY <2>2, <2>3
<1>6. \A i \in DOMAIN Levels[n] : Levels[n][i] \in Tasks /\ i \in Nat
  <2>1. Levels[n] \in Seq(Tasks)
    BY <1>2, GraphAssumption
  <2>2. QED
    BY <2>1
\* The step settles t, one way or another, and passes on.
<1> DEFINE Settles == /\ co'[c].pc = "consider" /\ co'[c].level = n /\ co'[c].pos = k + 1
                      /\ \A u \in Tasks : u # t => /\ co'[c].decided[u] = co[c].decided[u]
                                                   /\ thread'[c][u] = thread[c][u]
                      /\ \/ co'[c].decided[t] # "none" /\ thread'[c][t].st = "none"
                         \/ /\ ~DecidedHere(c, t)
                            /\ co'[c].decided[t] = co[c].decided[t]
                            /\ thread'[c][t].st = "ready"
<1>7. ASSUME Settles PROVE PlanOf(c)'
  <2>1. \A u \in LevelsUpTo(n - 1) : u \in Tasks => co'[c].decided[u] # "none"
    BY <1>5, <1>7 DEF DecidedHere
  <2>2. LevelsUpTo(n - 1) \subseteq Tasks
    BY <1>2, GraphAssumption DEF LevelsUpTo
  <2>3. ASSUME NEW i \in DOMAIN Levels[n], i < k + 1
        PROVE  Settling(c, Levels[n][i])'
    <3>1. CASE i < k
      <4>1. PICK u \in Tasks : u = Levels[n][i]
        BY <1>6
      <4>2. DecidedHere(c, u) \/ thread[c][u].st # "none"
        BY <1>5, <3>1, <4>1 DEF Settling
      <4>3. CASE u # t
        BY <1>7, <4>1, <4>2, <4>3 DEF Settling, DecidedHere
      <4>4. CASE u = t
        BY <1>7, <4>1, <4>4 DEF Settling, DecidedHere
      <4>5. QED
        BY <4>3, <4>4
    <3>2. CASE i = k
      BY <1>2, <1>7, <3>2 DEF Settling, DecidedHere
    <3>3. QED
      BY <1>3, <1>6, <2>3, <3>1, <3>2
  <2>4. Progress(c)'
    BY <1>7, <2>1, <2>2, <2>3 DEF Progress, At, DecidedHere
  <2>5. ASSUME NEW u \in Tasks PROVE ThreadPlan(c, u)'
    <3>1. thread'[c][u].st \in {"none", "ready"}
      BY <1>4, <1>7
    <3>2. thread'[c][u].st = "ready" => co'[c].decided[u] = "none"
      BY <1>5, <1>7 DEF DecidedHere
    <3>3. thread'[c][u].st = "ready" =>
            \E i \in DOMAIN Levels[n] : i < k + 1 /\ Levels[n][i] = u
      <4>1. CASE u = t
        BY <1>2, <1>3, <4>1
      <4>2. CASE u # t
        <5> SUFFICES ASSUME thread'[c][u].st = "ready"
                     PROVE  \E i \in DOMAIN Levels[n] : i < k + 1 /\ Levels[n][i] = u
          OBVIOUS
        <5>1. PICK i \in DOMAIN Levels[n] : i < k /\ Levels[n][i] = u
          BY <1>5, <1>7, <4>2
        <5>2. QED
          BY <1>3, <1>6, <5>1
      <4>3. QED
        BY <4>1, <4>2
    <3>4. QED
      BY <1>7, <3>1, <3>2, <3>3 DEF ThreadPlan, DecidedHere, Holding
  <2>6. QED
    BY <2>4, <2>5 DEF PlanOf
<1>8. CASE Gone(c)
  BY <1>1, <1>8, GonePlan
<1>9. ASSUME NEW o \in Outcomes, Decides(c, t, o), UNCHANGED thread PROVE Settles
  <2>1. o # "none"
    BY DEF Outcomes
  <2>2. co[c].decided \in [Tasks -> Outcomes \cup {"none"}]
    BY <1>1 DEF CoOK, CoState
  <2> HIDE DEF t
  <2>3. /\ co'[c].decided = [co[c].decided EXCEPT ![t] = o]
        /\ co'[c].pos = k + 1 /\ co'[c].pc = co[c].pc /\ co'[c].level = n
    BY <1>1, <1>2, <1>9, DecidesFields
  <2>4. /\ co'[c].decided[t] = o
        /\ \A u \in Tasks : u # t => co'[c].decided[u] = co[c].decided[u]
    BY <1>2, <2>2, <2>3
  <2>5. QED
    BY <1>1, <1>3, <1>9, <2>1, <2>3, <2>4 DEF At
<1>10. ASSUME Reuse(c, t), ~Gone(c) PROVE Settles
  <2>1. UNCHANGED thread
    BY <1>10 DEF Reuse
  <2>2. co[c].decided \in [Tasks -> Outcomes \cup {"none"}]
    BY <1>1 DEF CoOK, CoState
  <2> HIDE DEF t
  <2>3. /\ co'[c].decided = [co[c].decided EXCEPT ![t] = "cached"]
        /\ co'[c].pos = k + 1 /\ co'[c].pc = co[c].pc /\ co'[c].level = n
    <3>1. co' = [co EXCEPT ![c].decided[t] = "cached", ![c].pos = @ + 1,
                           ![c].passes = Append(@, [task |-> t, attempt |-> 0, at |-> now])]
      BY <1>10 DEF Reuse
    <3>2. QED
      BY <1>1, <1>2, <3>1, ReuseFields
  <2>4. /\ co'[c].decided[t] = "cached"
        /\ \A u \in Tasks : u # t => co'[c].decided[u] = co[c].decided[u]
    BY <1>2, <2>2, <2>3
  <2>5. QED
    BY <1>1, <1>3, <2>1, <2>3, <2>4 DEF At
<1>11. ASSUME co' = [co EXCEPT ![c].pos = @ + 1], UNCHANGED thread, DecidedHere(c, t)
       PROVE  Settles
  BY <1>1, <1>3, <1>11, PassesOverFields DEF At, DecidedHere
<1>12. ASSUME co' = [co EXCEPT ![c].pos = @ + 1], ~DecidedHere(c, t),
              thread' = [thread EXCEPT ![c][t].st = "ready"]
       PROVE  Settles
  BY <1>1, <1>2, <1>12, PassesOverFields, ReadyFields DEF At
<1>13. ASSUME NEW o \in {"blocked", "errored"}, SettleAs(c, t, o), ~Gone(c) PROVE Settles
  BY <1>9, <1>13 DEF SettleAs, Outcomes
<1> HIDE DEF Settles
<1>14. QED
  BY <1>7, <1>8, <1>10, <1>11, <1>12, <1>13 DEF Consider, Considered

LEMMA StartThreadsPlan ==
    ASSUME RunInv, OwnerInv, NEW c \in Coordinators, PlanOf(c), StartThreads(c)
    PROVE  PlanOf(c)'
<1> DEFINE n == co[c].level
<1>1. CoOK /\ At(c, "consider") /\ UNCHANGED thread /\ Moved(c, "threads")
  BY TypeParts DEF RunInv, StartThreads
<1>2. /\ co'[c].pc = "threads" /\ co'[c].level = n /\ co'[c].decided = co[c].decided
      /\ co'[c].stop = co[c].stop
  BY <1>1, MovedFields DEF KeepsPlan, KeepsStop
<1>3. Progress(c) /\ \A t \in Tasks : ThreadPlan(c, t)
  BY DEF PlanOf
<1>4. n \in DOMAIN Levels
  BY <1>1, GraphAssumption DEF CoOK, CoState
<1>5. \A t \in LevelsUpTo(n - 1) : DecidedHere(c, t)
  BY <1>1, <1>3 DEF Progress, At
<1>6. ASSUME NEW t \in LevelTasks(n) PROVE Settling(c, t)
  <2>1. PICK i \in DOMAIN Levels[n] : Levels[n][i] = t
    BY DEF LevelTasks
  <2>2. Levels[n] \in Seq(Tasks) /\ co[c].pos \in Nat /\ co[c].pos > Len(Levels[n])
    BY <1>1, <1>4, GraphAssumption DEF StartThreads, CoOK, CoState
  <2>3. i < co[c].pos
    BY <2>2
  <2>4. QED
    BY <1>1, <1>3, <2>1, <2>3 DEF Progress
<1>7. Progress(c)'
  BY <1>1, <1>2, <1>4, <1>5, <1>6 DEF Progress, At, DecidedHere, Settling
<1>8. ASSUME NEW t \in Tasks PROVE ThreadPlan(c, t)'
  BY <1>1, <1>2, <1>3 DEF ThreadPlan, At, DecidedHere, Flagged
<1>9. QED
  BY <1>7, <1>8 DEF PlanOf

LEMMA JoinPlan ==
    ASSUME RunInv, OwnerInv, NEW c \in Coordinators, PlanOf(c), Join(c)
    PROVE  PlanOf(c)'
<1> DEFINE n == co[c].level
<1>1. CoOK /\ At(c, "threads") /\ \A t \in Tasks : thread[c][t].st \in Returned
  BY TypeParts DEF RunInv, Join
<1>2. CASE Gone(c)
  BY <1>1, <1>2, GonePlan
<1>3. CASE ~Gone(c)
  <2>1. /\ co'[c].pc = "level" /\ co'[c].level = n /\ co'[c].stop = co[c].stop
        /\ \A t \in Tasks : thread'[c][t].st = "none" /\ thread[c][t].st # "failed"
    BY <1>1, <1>3, JoinedFields DEF KeepsStop
  <2>2. \A t \in Tasks : co'[c].decided[t] = IF thread[c][t].st = "done"
                                             THEN thread[c][t].outcome
                                             ELSE co[c].decided[t]
    BY <1>1, <1>3, JoinedFields
  <2>3. Progress(c) /\ \A t \in Tasks : ThreadPlan(c, t)
    BY DEF PlanOf
  <2>4. \A t \in Tasks : DecidedHere(c, t) => co'[c].decided[t] # "none"
    BY <2>2, <2>3 DEF DecidedHere, ThreadPlan
  <2>5. ASSUME NEW t \in Tasks, Settling(c, t), ~Flagged(c)
        PROVE  co'[c].decided[t] # "none"
    BY <1>1, <2>1, <2>2, <2>3, <2>4, <2>5 DEF Settling, ThreadPlan, Returned
  <2>6. n \in DOMAIN Levels /\ n \in Nat /\ n - 1 \in Nat /\ n = (n - 1) + 1
    BY <1>1, <2>3, GraphAssumption DEF Progress
  <2>7. LevelsUpTo(n) = LevelsUpTo(n - 1) \cup LevelTasks(n)
    BY <2>6, NextLevel
  <2>8. LevelsUpTo(n) \subseteq Tasks
    BY <2>6, GraphAssumption DEF LevelsUpTo
  <2>9. ASSUME NEW t \in LevelsUpTo(n), ~Flagged(c) PROVE co'[c].decided[t] # "none"
    <3>1. CASE t \in LevelsUpTo(n - 1)
      BY <1>1, <2>3, <2>4, <2>8, <3>1 DEF Progress, At
    <3>2. CASE t \in LevelTasks(n)
      BY <1>1, <2>3, <2>5, <2>8, <2>9, <3>2 DEF Progress
    <3>3. QED
      BY <2>7, <3>1, <3>2
  <2>10. Progress(c)'
    BY <2>1, <2>9 DEF Progress, At, Flagged, DecidedHere
  <2>11. QED
    BY <2>1, <2>10, PlanIdle
<1>4. QED
  BY <1>2, <1>3

\* The end of a run, and what may come at any time.
LEMMA EndingPlan ==
    ASSUME RunInv, OwnerInv, NEW c \in Coordinators, PlanOf(c),
           \/ WaitOutWindow(c) \/ BeginWithdraw(c) \/ WithdrawNext(c)
           \/ RecordStop(c) \/ RecordConclusion(c) \/ Decline(c) \/ Crash(c)
    PROVE  PlanOf(c)'
<1>1. CoOK
  BY TypeParts DEF RunInv
<1>2. CASE Gone(c)
  BY <1>1, <1>2, GonePlan
<1>3. CASE ~Gone(c) /\ WaitOutWindow(c)
  <2>1. At(c, "window") /\ UNCHANGED thread
    BY <1>3 DEF WaitOutWindow
  <2>2. \A t \in Tasks : thread[c][t].st = "none" /\ DecidedHere(c, t)
    BY <2>1, IdleThreads DEF At, PlanOf, Progress
  <2>3. PICK pc \in {"withdraw", "conclude"} : Moved(c, pc)
    BY <1>3 DEF WaitOutWindow
  <2>4. Progress(c)'
    BY <1>1, <2>2, <2>3, MovedFields DEF Progress, At, KeepsPlan, DecidedHere
  <2>5. QED
    BY <2>1, <2>2, <2>4, PlanIdle
<1>4. CASE ~Gone(c) /\ (BeginWithdraw(c) \/ WithdrawNext(c))
  <2>1. co[c].pc \in {"withdraw", "withdrawing"} /\ UNCHANGED thread
    BY <1>4 DEF BeginWithdraw, WithdrawNext, At
  <2>2. co'[c].pc = "withdrawing"
    BY <1>1, <1>4, BeginWithdrawFields, WithdrawNextFields DEF WithdrawNext, At
  <2>3. Progress(c)'
    BY <2>2 DEF Progress, At
  <2>4. QED
    BY <2>1, <2>3, IdleThreads, PlanIdle
<1>5. QED
  BY <1>2, <1>3, <1>4 DEF RecordStop, RecordConclusion, Decline, Crash

LEMMA SignalPlan ==
    ASSUME RunInv, NEW c \in Coordinators, PlanOf(c), StopBegins(c) \/ HandlerRuns(c)
    PROVE  PlanOf(c)'
<1>1. CoOK /\ UNCHANGED thread
  BY TypeParts DEF RunInv, StopBegins, HandlerRuns
<1>2. /\ co'[c].pc = co[c].pc /\ co'[c].decided = co[c].decided
      /\ co'[c].level = co[c].level /\ co'[c].pos = co[c].pos
      /\ Flagged(c) => Flagged(c)'
  BY <1>1, SignalFields DEF KeepsPlan
<1>3. Progress(c) /\ \A t \in Tasks : ThreadPlan(c, t)
  BY DEF PlanOf
<1>4. Progress(c)'
  BY <1>1, <1>2, <1>3 DEF Progress, At, DecidedHere, Settling
<1>5. ASSUME NEW t \in Tasks PROVE ThreadPlan(c, t)'
  BY <1>1, <1>2, <1>3 DEF ThreadPlan, At, DecidedHere
<1>6. QED
  BY <1>4, <1>5 DEF PlanOf

-----------------------------------------------------------------------------
\* What a thread's step does to its own state; of its coordinator's record it
\* changes neither the plan nor the stop.
Turn(c, t, from, to) == thread[c][t].st = from /\ thread'[c][t].st = to

ThreadTurns(c, t) ==
    \/ LetsGo(c, t) /\ thread'[c][t].st = "failed"
    \/ Turn(c, t, "ready", "dispatched")
    \/ Turn(c, t, "dispatched", "spawned")
    \/ Turn(c, t, "dispatched", "judged") /\ thread'[c][t].outcome = "errored"
    \/ Turn(c, t, "spawned", "running")
    \/ Turn(c, t, "running", "exited")
    \/ Turn(c, t, "exited", "stopping") /\ Flagged(c)
    \/ Turn(c, t, "exited", "judged") /\ thread'[c][t].outcome \in FinishedEnds
    \/ Turn(c, t, "judged", "done") /\ thread'[c][t].outcome = thread[c][t].outcome
    \/ Turn(c, t, "stopping", "interrupted")

LEMMA FailsTurns ==
    ASSUME CoOK, NEW c \in Coordinators, NEW t \in Tasks, NEW accepts, NEW fact,
           ThreadFails(c, t, accepts, fact)
    PROVE  ThreadTurns(c, t) /\ KeepsPlan(c) /\ KeepsStop(c)
  BY FailsFields DEF ThreadTurns, LetsGo

LEMMA SteppedTurns ==
    ASSUME CoOK, NEW c \in Coordinators, NEW t \in Tasks, NEW st, Stepped(c, t, st), UNCHANGED co
    PROVE  /\ thread'[c][t].st = st /\ thread'[c][t].outcome = thread[c][t].outcome
           /\ KeepsPlan(c) /\ KeepsStop(c)
  BY SteppedFields DEF KeepsPlan, KeepsStop

DispatchesAs(c, t, n) ==
    thread' = [thread EXCEPT ![c][t].st = "dispatched", ![c][t].attempt = n]

LEMMA DispatchesFields ==
    ASSUME CoOK, NEW c \in Coordinators, NEW t \in Tasks, NEW n, DispatchesAs(c, t, n)
    PROVE  thread'[c][t].st = "dispatched"
<1> DEFINE r == [thread[c][t] EXCEPT !.st = "dispatched", !.attempt = n]
<1>1. thread[c][t] \in ThreadState
  BY DEF CoOK
<1>2. thread' = [thread EXCEPT ![c][t] = r]
  BY DEF CoOK, DispatchesAs
<1>3. r.st = "dispatched"
  BY <1>1 DEF ThreadState
<1> HIDE DEF r
<1>4. thread'[c][t] = r
  BY <1>2 DEF CoOK
<1>5. QED
  BY <1>3, <1>4

LEMMA ThreadTurn ==
    ASSUME RunInv, NEW c \in Coordinators, NEW t \in Tasks, ThreadStep(c, t)
    PROVE  ThreadTurns(c, t) /\ KeepsPlan(c) /\ KeepsStop(c)
<1>1. CoOK
  BY TypeParts DEF RunInv
<1>2. CASE Dispatch(c, t)
  <2>1. CASE ThreadFails(c, t, AcceptsDispatched(t, co[c].generation, lineage[t]),
                         Dispatched(t, co[c].generation, lineage[t]))
    BY <1>1, <2>1, FailsTurns
  <2>2. CASE /\ thread' = [thread EXCEPT ![c][t].st = "dispatched",
                                         ![c][t].attempt = Len(attempts) + 1]
             /\ UNCHANGED co
    <3>1. thread'[c][t].st = "dispatched"
      <4>1. DispatchesAs(c, t, Len(attempts) + 1)
        BY <2>2 DEF DispatchesAs
      <4>2. PICK n : n = Len(attempts) + 1
        OBVIOUS
      <4>3. DispatchesAs(c, t, n)
        BY <4>1, <4>2
      <4>4. QED
        BY <1>1, <4>3, DispatchesFields
    <3>2. thread[c][t].st = "ready"
      BY <1>2 DEF Dispatch, Running
    <3>3. ThreadTurns(c, t)
      BY <3>1, <3>2 DEF ThreadTurns, Turn
    <3>4. KeepsPlan(c) /\ KeepsStop(c)
      BY <2>2 DEF KeepsPlan, KeepsStop
    <3>5. QED
      BY <3>3, <3>4
  <2>3. QED
    BY <1>2, <2>1, <2>2 DEF Dispatch
<1>3. CASE Launch(c, t)
  <2>1. thread[c][t].st = "dispatched" /\ UNCHANGED co
    BY <1>3 DEF Launch, Running
  <2>2. CASE \E st \in {"failed", "spawned"} : Stepped(c, t, st)
    BY <1>1, <2>1, <2>2, SteppedTurns DEF ThreadTurns, Turn, LetsGo
  <2>3. CASE thread' = [thread EXCEPT ![c][t].st = "judged", ![c][t].outcome = "errored"]
    <3>1. /\ thread'[c][t].st = "judged"
          /\ thread'[c][t].outcome = "errored"
          /\ thread'[c][t].attempt = thread[c][t].attempt
          /\ thread'[c][t].at = thread[c][t].at
          /\ \A u \in Tasks : u # t => thread'[c][u] = thread[c][u]
          /\ \A d \in Coordinators : d # c => thread'[d] = thread[d]
      BY <1>1, <2>3, JudgedFields
    <3>2. QED
      BY <2>1, <3>1 DEF ThreadTurns, Turn, KeepsPlan, KeepsStop
  <2>4. QED
    BY <1>3, <2>2, <2>3 DEF Launch
<1>4. CASE RecordStart(c, t)
  <2>1. CASE Stepped(c, t, "running") /\ UNCHANGED co
    BY <1>1, <1>4, <2>1, SteppedTurns DEF ThreadTurns, Turn, RecordStart, Running
  <2>2. CASE ThreadFails(c, t, AcceptsStarted(thread[c][t].attempt, co[c].generation),
                         Started(thread[c][t].attempt, co[c].generation))
    BY <1>1, <2>2, FailsTurns
  <2>3. QED
    BY <1>4, <2>1, <2>2 DEF RecordStart
<1>5. CASE Observe(c, t)
  <2>1. thread'[c][t].st = "exited"
    BY <1>1, <1>5, ObservedFields DEF Observe
  <2>2. QED
    BY <1>5, <2>1 DEF Observe, Running, ThreadTurns, Turn, KeepsPlan, KeepsStop
<1>6. CASE Judge(c, t)
  <2>1. thread[c][t].st = "exited" /\ UNCHANGED co
    BY <1>6 DEF Judge, Running
  <2>2. CASE Flagged(c)
    BY <1>1, <1>6, <2>1, <2>2, SteppedTurns DEF Judge, ThreadTurns, Turn
  <2>3. CASE ~Flagged(c)
    <3>1. PICK o \in FinishedEnds :
              thread' = [thread EXCEPT ![c][t].st = "judged", ![c][t].outcome = o]
      BY <1>6, <2>3 DEF Judge, FinishedEnds
    <3>2. /\ thread'[c][t].st = "judged"
          /\ thread'[c][t].outcome = o
          /\ thread'[c][t].attempt = thread[c][t].attempt
          /\ thread'[c][t].at = thread[c][t].at
          /\ \A u \in Tasks : u # t => thread'[c][u] = thread[c][u]
          /\ \A d \in Coordinators : d # c => thread'[d] = thread[d]
      BY <1>1, <3>1, JudgedFields
    <3>3. QED
      BY <2>1, <3>2 DEF ThreadTurns, Turn, KeepsPlan, KeepsStop
  <2>4. QED
    BY <2>2, <2>3
<1>7. CASE RecordFinish(c, t)
  <2> DEFINE a == thread[c][t].attempt
  <2> DEFINE o == thread[c][t].outcome
  <2> DEFINE x == proc[a] = "exit0"
  <2> DEFINE p == [task |-> t, attempt |-> a, at |-> thread[c][t].at]
  <2>1. CASE ThreadFails(c, t, AcceptsFinished(a, co[c].generation, x, o),
                         Finished(a, co[c].generation, x, o))
    BY <1>1, <2>1, FailsTurns
  <2>2. CASE /\ Stepped(c, t, "done")
             /\ UNCHANGED co \/ co' = [co EXCEPT ![c].passes = Append(@, p)]
    <3>1. thread'[c][t].st = "done" /\ thread'[c][t].outcome = o /\ thread[c][t].st = "judged"
      BY <1>1, <1>7, <2>2, SteppedFields DEF RecordFinish, Running
    <3>2. KeepsPlan(c) /\ KeepsStop(c)
      BY <1>1, <2>2, PassedFields DEF KeepsPlan, KeepsStop
    <3>3. QED
      BY <3>1, <3>2 DEF ThreadTurns, Turn
  <2>3. QED
    BY <1>7, <2>1, <2>2 DEF RecordFinish
<1>8. CASE RecordInterrupt(c, t)
  <2>1. CASE Stepped(c, t, "interrupted") /\ UNCHANGED co
    BY <1>1, <1>8, <2>1, SteppedTurns DEF ThreadTurns, Turn, RecordInterrupt, Running
  <2>2. CASE ThreadFails(c, t, AcceptsInterrupted(thread[c][t].attempt, co[c].generation),
                         Interrupted(thread[c][t].attempt, co[c].generation))
    BY <1>1, <2>2, FailsTurns
  <2>3. QED
    BY <1>8, <2>1, <2>2 DEF RecordInterrupt
<1>9. QED
  BY <1>2, <1>3, <1>4, <1>5, <1>6, <1>7, <1>8 DEF ThreadStep

LEMMA ThreadPlans ==
    ASSUME RunInv, NEW c \in Coordinators, PlanOf(c), NEW t \in Tasks, ThreadStep(c, t)
    PROVE  PlanOf(c)'
<1>1. WorksOn(c, t) /\ ThreadTurns(c, t) /\ KeepsPlan(c) /\ KeepsStop(c)
  BY ThreadEffect, ThreadTurn
<1>2. /\ At(c, "threads") /\ At(c, "threads")'
      /\ \A u \in Tasks : u # t => thread'[c][u] = thread[c][u]
      /\ co'[c].decided = co[c].decided /\ co'[c].level = co[c].level
      /\ Flagged(c)' <=> Flagged(c)
  BY <1>1 DEF WorksOn, KeepsPlan, KeepsStop, Flagged
<1>3. Progress(c) /\ \A u \in Tasks : ThreadPlan(c, u)
  BY DEF PlanOf
<1>4. thread'[c][t].st # "none"
  BY <1>1 DEF ThreadTurns, Turn
<1>5. Progress(c)'
  <2>1. \A u \in Tasks : Settling(c, u) => Settling(c, u)'
    BY <1>2, <1>4 DEF Settling, DecidedHere
  <2>2. co[c].level \in DOMAIN Levels /\ LevelTasks(co[c].level) \subseteq Tasks
    BY <1>2, <1>3, GraphAssumption DEF Progress
  <2>3. \A u \in LevelTasks(co[c].level) : Settling(c, u)'
    BY <1>2, <1>3, <2>1, <2>2 DEF Progress
  <2>4. \A u \in LevelsUpTo(co[c].level - 1) : DecidedHere(c, u)
    BY <1>2, <1>3 DEF Progress, At
  <2>5. QED
    BY <1>2, <2>2, <2>3, <2>4 DEF Progress, At, DecidedHere
<1>6. ThreadPlan(c, t)'
  <2>1. ThreadPlan(c, t)
    BY <1>3
  <2>2. QED
    BY <1>1, <1>2, <2>1 DEF ThreadPlan, ThreadTurns, Turn, Holding, DecidedHere, At, FinishedEnds
<1>7. ASSUME NEW u \in Tasks, u # t PROVE ThreadPlan(c, u)'
  BY <1>2, <1>3, <1>7 DEF ThreadPlan, At, DecidedHere
<1>8. QED
  BY <1>5, <1>6, <1>7 DEF PlanOf

LEMMA BeginningPlan ==
    ASSUME RunInv, OwnerInv, NEW c \in Coordinators, Create(c) \/ \E assume \in BOOLEAN : Reopen(c, assume)
    PROVE  PlanOf(c)'
<1>1. CoOK /\ \A t \in Tasks : thread[c][t].st = "none"
  BY TypeParts, IdleThreads DEF RunInv, Create, Reopen, IsNext
<1>2. CASE Gone(c)
  BY <1>1, <1>2, GonePlan
<1>3. CASE Create(c) /\ ~Gone(c)
  <2>1. UNCHANGED thread /\ \E pc \in {"level", "detach"} : Begin(c, 1, pc)
    BY <1>3 DEF Create
  <2>2. co'[c].pc \in {"level", "detach"} /\ co'[c].level = 0
    BY <1>1, <2>1, BegunFields
  <2>3. Progress(c)'
    BY <2>2, NoLevels DEF Progress, At
  <2>4. QED
    BY <1>1, <2>1, <2>3, PlanIdle
<1>4. ASSUME NEW assume, Reopen(c, assume) PROVE PlanOf(c)'
  <2> DEFINE s == {a \in OpenAttempts : GroupExists(a)}
  <2>1. /\ co' = [co EXCEPT ![c] = [Unborn EXCEPT !.pc = "reopened", !.generation = generation,
                                    !.assumed = s]]
        /\ UNCHANGED thread
    BY <1>4 DEF Reopen
  <2> HIDE DEF s
  <2>2. co'[c].pc = "reopened" /\ co'[c].level = 0
    BY <1>1, <2>1, BornFields
  <2>3. Progress(c)'
    BY <2>2 DEF Progress, At
  <2>4. QED
    BY <1>1, <2>1, <2>3, PlanIdle
<1>5. QED
  BY <1>2, <1>3, <1>4

LEMMA PlanInit == Init => PlanInv
<1> SUFFICES ASSUME Init, NEW c \in Coordinators PROVE PlanOf(c)
  BY DEF PlanInv
<1>1. co[c].pc = "unborn" /\ \A t \in Tasks : thread[c][t].st = "none"
  BY DEF Init, Unborn, NoThreads, NoThread
<1>2. QED
  BY <1>1 DEF PlanOf, Progress, ThreadPlan, At, Holding

\* A step of one coordinator, its threads included, leaves the others' records
\* alone.
LEMMA OthersLeft ==
    ASSUME RunInv, NEW c \in Coordinators,
           \/ MainStep(c) \/ (\E t \in Tasks : ThreadStep(c, t))
           \/ Create(c) \/ (\E assume \in BOOLEAN : Reopen(c, assume)) \/ Decline(c)
           \/ Crash(c) \/ StopBegins(c) \/ HandlerRuns(c)
    PROVE  OthersStand(c)
<1>1. CoOK
  BY TypeParts DEF RunInv
<1>2. CASE MainStep(c) \/ Decline(c) \/ Crash(c) \/ StopBegins(c) \/ HandlerRuns(c)
  BY <1>1, <1>2, MainEffect, GoneFields DEF Walks, Leaves
<1>3. ASSUME NEW t \in Tasks, ThreadStep(c, t) PROVE OthersStand(c)
  BY <1>3, ThreadEffect DEF WorksOn
<1>4. CASE Create(c)
  BY <1>1, <1>4, GoneFields, BegunFields DEF Create, OthersStand
<1>5. ASSUME NEW assume, Reopen(c, assume) PROVE OthersStand(c)
  BY <1>1, <1>5, ReopenFields
<1>6. QED
  BY <1>2, <1>3, <1>4, <1>5

LEMMA PlanNext == RunInv /\ OwnerInv /\ PlanInv /\ [Next]_vars => PlanInv'
<1> SUFFICES ASSUME RunInv, OwnerInv, PlanInv, [Next]_vars PROVE PlanInv'
  OBVIOUS
<1>1. ASSUME NEW c \in Coordinators, OthersStand(c), PlanOf(c)' PROVE PlanInv'
  BY <1>1, PlanStands DEF PlanInv, OthersStand
<1>2. CASE UNCHANGED <<co, thread>>
  BY <1>2, PlanStands DEF PlanInv
<1>3. ASSUME NEW c \in Coordinators, MainStep(c) PROVE PlanInv'
  BY <1>1, <1>3, OthersLeft, OpeningPlan, StartLevelPlan, ConsiderPlan, StartThreadsPlan, JoinPlan,
     EndingPlan DEF MainStep, PlanInv
<1>4. ASSUME NEW c \in Coordinators, NEW t \in Tasks, ThreadStep(c, t) PROVE PlanInv'
  BY <1>1, <1>4, OthersLeft, ThreadPlans DEF PlanInv
<1>5. ASSUME NEW c \in Coordinators,
             \/ Create(c) \/ (\E assume \in BOOLEAN : Reopen(c, assume)) \/ Decline(c)
             \/ Crash(c) \/ StopBegins(c) \/ HandlerRuns(c)
      PROVE  PlanInv'
  BY <1>1, <1>5, OthersLeft, BeginningPlan, EndingPlan, SignalPlan DEF PlanInv
<1>6. QED
  BY <1>2, <1>3, <1>4, <1>5 DEF Next, Environment, LoseLease, ProcExit, CloseLease, vars

-----------------------------------------------------------------------------
(***************************************************************************)
(* The work: what the owner of the generation in force believes is what    *)
(* the journal has.  Nobody else records anything, so an attempt is open   *)
(* only while one of its threads has it (or failed with it), what it took  *)
(* as decided is decided, and its passes stand.                            *)
(***************************************************************************)
InForce(c) == Owns(c) /\ co[c].generation = generation

HeldBy(c, a) ==
    LET th == thread[c][attempts[a].task]
    IN  th.st = "failed" \/ (th.st \in Holding /\ th.attempt = a)

Attempted(c) ==
    IF At(c, "losing") THEN \A a \in DOMAIN attempts : attempts[a].generation < generation
                       ELSE \A a \in OpenAttempts : HeldBy(c, a)

Held(c, t) ==
    LET a == thread[c][t].attempt
        st == thread[c][t].st
    IN  /\ st \in Holding => ~Ended(a)
        /\ st \in {"dispatched", "spawned"} => ~attempts[a].started
        /\ st \in {"running", "exited"} => attempts[a].started
        /\ st = "judged" /\ ~attempts[a].started => thread[c][t].outcome = "errored"

Agrees(c, t) ==
    /\ thread[c][t].st \notin {"done", "failed"} => decided[t].outcome = co[c].decided[t]
    /\ thread[c][t].st = "done" => decided[t].outcome = thread[c][t].outcome

PassStands(c, i) ==
    LET p == co[c].passes[i]
    IN  /\ decided[p.task].attempt = p.attempt
        /\ decided[p.task].generation = generation
        /\ decided[p.task].outcome = IF p.attempt = 0 THEN "cached" ELSE "passed"

PassesStand(c) ==
    /\ \A i \in DOMAIN co[c].passes : PassStands(c, i)
    /\ \A i, j \in DOMAIN co[c].passes :
         co[c].passes[i].task = co[c].passes[j].task => i = j

Work(c) ==
    /\ Open
    /\ Attempted(c)
    /\ \A t \in Tasks : Held(c, t)
    /\ co[c].pc \notin {"losing", "withdrawing"} => \A t \in Tasks : Agrees(c, t)
    /\ PassesStand(c)

\* Before it is requested a run is empty.
Unrequested == generation = 0 => ~stopped /\ \A t \in Tasks : ~IsDecided(t)

WorkInv ==
    /\ \A c \in Coordinators : InForce(c) => Work(c)
    /\ \A c \in Coordinators : At(c, "reopened") => co[c].passes = << >>
    /\ Unrequested

\* What coordinator c's own work rests on.
WorkStands(c) ==
    /\ UNCHANGED journal
    /\ co'[c] = co[c]
    /\ thread'[c] = thread[c]

LEMMA WorkLeft ==
    ASSUME NEW c \in Coordinators, WorkStands(c), InForce(c) => Work(c)
    PROVE  (InForce(c) => Work(c))'
<1> SUFFICES ASSUME InForce(c)' PROVE Work(c)'
  OBVIOUS
<1>1. UNCHANGED <<generation, attempts, decided, stopped, concluded>>
      /\ co'[c] = co[c] /\ thread'[c] = thread[c]
  BY DEF WorkStands, journal
<1>2. InForce(c)
  BY <1>1 DEF InForce, Owns
<1>3. Work(c)
  BY <1>2
<1>4. Open' /\ Attempted(c)'
  BY <1>1, <1>3 DEF Work, Open, Attempted, OpenAttempts, HeldBy, Ended, At
<1>5. \A t \in Tasks : Held(c, t)'
  BY <1>1, <1>3 DEF Work, Held, Ended
<1>6. co'[c].pc \notin {"losing", "withdrawing"} => \A t \in Tasks : Agrees(c, t)'
  BY <1>1, <1>3 DEF Work, Agrees
<1>7. PassesStand(c)'
  BY <1>1, <1>3 DEF Work, PassesStand, PassStands
<1>8. QED
  BY <1>4, <1>5, <1>6, <1>7 DEF Work

LEMMA PassesKept ==
    ASSUME NEW c \in Coordinators, PassesStand(c), co'[c].passes = co[c].passes,
           UNCHANGED <<generation, decided>>
    PROVE  PassesStand(c)'
  BY DEF PassesStand, PassStands

\* The main thread moves on without recording anything.
LEMMA QuietWork ==
    ASSUME NEW c \in Coordinators, Work(c), UNCHANGED journal, thread'[c] = thread[c],
           co'[c].decided = co[c].decided,
           co'[c].passes \in {co[c].passes, << >>},
           \/ co'[c].pc = co[c].pc
           \/ /\ co[c].pc # "losing" /\ co'[c].pc # "losing"
              /\ co[c].pc # "withdrawing" \/ co'[c].pc = "withdrawing"
    PROVE  Work(c)'
<1>1. UNCHANGED <<generation, attempts, decided, stopped, concluded>>
  BY DEF journal
<1>2. Open' /\ Attempted(c)'
  BY <1>1 DEF Work, Open, Attempted, OpenAttempts, HeldBy, Ended, At
<1>3. \A t \in Tasks : Held(c, t)'
  BY <1>1 DEF Work, Held, Ended
<1>4. co'[c].pc \notin {"losing", "withdrawing"} => \A t \in Tasks : Agrees(c, t)'
  BY <1>1 DEF Work, Agrees
<1>5. PassesStand(c)'
  <2>1. CASE co'[c].passes = co[c].passes
    BY <1>1, <2>1 DEF Work, PassesStand, PassStands
  <2>2. CASE co'[c].passes = << >>
    BY <2>2 DEF PassesStand
  <2>3. QED
    BY <2>1, <2>2
<1>6. QED
  BY <1>2, <1>3, <1>4, <1>5 DEF Work

\* Who records: the owner of the generation in force, unless it opens one.
RecordedBy(c) ==
    \/ UNCHANGED journal
    \/ InForce(c) /\ UNCHANGED generation
    \/ generation' = generation + 1

LEMMA MainRecords ==
    ASSUME RunInv, NEW c \in Coordinators,
           MainStep(c) \/ Create(c) \/ Decline(c) \/ Crash(c) \/ StopBegins(c) \/ HandlerRuns(c)
           \/ \E assume \in BOOLEAN : Reopen(c, assume)
    PROVE  RecordedBy(c)
<1>1. CASE Detach(c) \/ Received(c)
  BY <1>1 DEF Detach, Received, NotStarted, Recorded, NotRecorded, Fenced, Stopped,
     RecordedBy, InForce, Owns, At
<1>2. CASE TakeOver(c)
  BY <1>2 DEF TakeOver, Recorded, NotRecorded, Resumed, AcceptsResumed, RecordedBy
<1>3. ASSUME NEW a, RecordLost(c, a) PROVE RecordedBy(c)
  BY <1>3 DEF RecordLost, Recorded, NotRecorded, Fenced, Lost, RecordedBy, InForce, Owns, At
<1>4. CASE Consider(c)
  BY <1>4 DEF Consider, SettleAs, Reuse, Recorded, NotRecorded, Fenced, Settled, Reused,
     RecordedBy, InForce, Owns, At
<1>5. CASE WithdrawNext(c)
  BY <1>5 DEF WithdrawNext, Recorded, NotRecorded, Fenced, Withdrawn, RecordedBy, InForce, Owns, At
<1>6. CASE RecordStop(c) \/ RecordConclusion(c)
  BY <1>6 DEF RecordStop, RecordConclusion, Recorded, NotRecorded, Fenced, Stopped, Concluded,
     RecordedBy, InForce, Owns, At
<1>7. CASE Create(c)
  BY <1>7 DEF Create, Requested, AcceptsRequested, RecordedBy
<1>8. CASE TakenOver(c) \/ StartLevel(c) \/ StartThreads(c) \/ Join(c) \/ WaitOutWindow(c)
           \/ BeginWithdraw(c) \/ Decline(c) \/ Crash(c) \/ StopBegins(c) \/ HandlerRuns(c)
           \/ \E assume \in BOOLEAN : Reopen(c, assume)
  BY <1>8 DEF TakenOver, StartLevel, StartThreads, Join, WaitOutWindow, BeginWithdraw, Decline,
     Crash, StopBegins, HandlerRuns, Reopen, RecordedBy
<1>9. QED
  BY <1>1, <1>2, <1>3, <1>4, <1>5, <1>6, <1>7, <1>8 DEF MainStep

LEMMA ThreadRecords ==
    ASSUME RunInv, NEW c \in Coordinators, NEW t \in Tasks, ThreadStep(c, t)
    PROVE  RecordedBy(c) /\ UNCHANGED generation
<1>1. CASE Dispatch(c, t)
  BY <1>1 DEF Dispatch, ThreadFails, Recorded, NotRecorded, Fenced, Dispatched, Running,
     RecordedBy, InForce, Owns, At, journal
<1>2. CASE Launch(c, t) \/ Observe(c, t) \/ Judge(c, t)
  BY <1>2 DEF Launch, Observe, Judge, RecordedBy, journal
<1>3. CASE RecordStart(c, t)
  BY <1>3 DEF RecordStart, ThreadFails, Recorded, NotRecorded, Fenced, Started, Running,
     RecordedBy, InForce, Owns, At, journal
<1>4. CASE RecordFinish(c, t)
  BY <1>4 DEF RecordFinish, ThreadFails, Recorded, NotRecorded, Fenced, Finished, Running,
     RecordedBy, InForce, Owns, At, journal
<1>5. CASE RecordInterrupt(c, t)
  BY <1>5 DEF RecordInterrupt, ThreadFails, Recorded, NotRecorded, Fenced, Interrupted, Running,
     RecordedBy, InForce, Owns, At, journal
<1>6. QED
  BY <1>1, <1>2, <1>3, <1>4, <1>5 DEF ThreadStep

\* So nobody records beside the owner of the generation in force.
LEMMA OthersRecordNothing ==
    ASSUME RunInv, OwnerInv, NEW c \in Coordinators, NEW d \in Coordinators, c # d,
           OthersStand(d), RecordedBy(d), InForce(c)'
    PROVE  UNCHANGED journal
<1>1. generation \in Nat /\ co'[c] = co[c]
  BY DEF RunInv, JournalInv, JournalTypeOK, OthersStand
<1>2. Owns(c) /\ co[c].generation = generation'
  BY <1>1 DEF InForce, Owns
<1>3. co[c].generation <= generation
  BY <1>1, <1>2 DEF OwnerInv, Places, Owns, Off
<1>4. generation' # generation + 1
  BY <1>1, <1>2, <1>3
<1>5. ~(InForce(d) /\ UNCHANGED generation)
  BY <1>2 DEF OwnerInv, Places, InForce
<1>6. QED
  BY <1>4, <1>5 DEF RecordedBy

\* The owner of the generation in force stays it, but for a takeover.
LEMMA StaysInForce ==
    ASSUME RunInv, OwnerInv, NEW c \in Coordinators, RecordedBy(c), Walks(c) \/ Leaves(c),
           ~At(c, "reopened"), InForce(c)'
    PROVE  InForce(c) /\ UNCHANGED generation /\ ~Gone(c)
<1>1. CoOK /\ generation \in Nat
  BY TypeParts DEF RunInv, JournalInv, JournalTypeOK
<1>2. ~Gone(c)
  BY <1>1, GoneFields DEF InForce, Owns
<1>3. Owns(c) /\ co'[c].generation = co[c].generation /\ co[c].generation = generation'
  BY <1>2 DEF Walks, Leaves, At, InForce
<1>4. co[c].generation <= generation
  BY <1>1, <1>3 DEF OwnerInv, Places, Owns, Off
<1>5. generation' # generation + 1
  BY <1>1, <1>3, <1>4
<1>6. UNCHANGED generation
  BY <1>5 DEF RecordedBy, journal
<1>7. QED
  BY <1>2, <1>3, <1>6 DEF InForce

LEMMA MovingWork ==
    ASSUME RunInv, NEW c \in Coordinators, Work(c), ~Gone(c),
           \/ Detach(c) \/ Received(c) \/ StartLevel(c) \/ StartThreads(c) \/ WaitOutWindow(c)
           \/ BeginWithdraw(c) \/ StopBegins(c) \/ HandlerRuns(c)
    PROVE  Work(c)'
<1>1. CoOK /\ co[c] \in CoState
  BY TypeParts DEF RunInv, CoOK
<1>2. UNCHANGED <<journal, thread>>
  BY DEF Detach, Received, NotStarted, StartLevel, StartThreads, WaitOutWindow, BeginWithdraw,
     StopBegins, HandlerRuns
<1>3. ASSUME NEW pc, Moved(c, pc), pc \notin {"losing"}, co[c].pc \notin {"losing", "withdrawing"}
      PROVE  Work(c)'
  BY <1>1, <1>2, <1>3, MovedFields, QuietWork DEF KeepsPlan, KeepsPasses
<1>4. CASE Detach(c) \/ Received(c)
  <2>1. PICK pc \in {"received", "level"} : Moved(c, pc)
    BY <1>4 DEF Detach, Received, NotStarted
  <2>2. QED
    BY <1>3, <1>4, <2>1 DEF Detach, Received, At
<1>5. CASE StartLevel(c)
  <2>1. CASE co' = [co EXCEPT ![c].level = @ + 1, ![c].pos = 1, ![c].pc = "consider"]
    <3> DEFINE r == [co[c] EXCEPT !.level = @ + 1, !.pos = 1, !.pc = "consider"]
    <3>1. co' = [co EXCEPT ![c] = r]
      BY <1>1, <2>1 DEF CoOK, CoState
    <3>2. r.pc = "consider" /\ r.decided = co[c].decided /\ r.passes = co[c].passes
      BY <1>1 DEF CoState
    <3> HIDE DEF r
    <3>3. co'[c] = r
      BY <1>1, <3>1, CoSet
    <3>4. QED
      BY <1>2, <1>5, <3>2, <3>3, QuietWork DEF StartLevel, At
  <2>2. CASE \E pc \in {"window", "withdraw"} : Moved(c, pc)
    BY <1>3, <1>5, <2>2 DEF StartLevel, At
  <2>3. QED
    BY <1>5, <2>1, <2>2 DEF StartLevel
<1>6. CASE StartThreads(c)
  BY <1>3, <1>6 DEF StartThreads, At
<1>7. CASE WaitOutWindow(c)
  <2>1. PICK pc \in {"withdraw", "conclude"} : Moved(c, pc)
    BY <1>7 DEF WaitOutWindow
  <2>2. QED
    BY <1>3, <1>7, <2>1 DEF WaitOutWindow, At
<1>8. CASE BeginWithdraw(c)
  BY <1>1, <1>2, <1>8, BeginWithdrawFields, QuietWork DEF BeginWithdraw, At, KeepsPlan
<1>9. CASE StopBegins(c) \/ HandlerRuns(c)
  BY <1>1, <1>2, <1>9, SignalFields, QuietWork DEF KeepsPlan, KeepsPasses
<1>10. QED
  BY <1>4, <1>5, <1>6, <1>7, <1>8, <1>9

\* Between two levels, and while a level is gone through, no attempt is open.
LEMMA NoneOpen ==
    ASSUME RunInv, OwnerInv, NEW c \in Coordinators, Work(c), ~At(c, "losing"),
           \A t \in Tasks : thread[c][t].st \in {"none", "ready", "done", "interrupted"}
    PROVE  OpenAttempts = {}
<1> SUFFICES ASSUME NEW a \in OpenAttempts PROVE FALSE
  OBVIOUS
<1>1. attempts[a].task \in Tasks
  BY AttemptFields DEF OpenAttempts, RunInv, JournalInv
<1>2. HeldBy(c, a)
  BY DEF Work, Attempted
<1>3. QED
  BY <1>1, <1>2 DEF HeldBy, Holding

LEMMA JoinWork ==
    ASSUME RunInv, OwnerInv, NEW c \in Coordinators, Work(c), Join(c), ~Gone(c)
    PROVE  Work(c)'
<1>1. CoOK /\ UNCHANGED <<generation, attempts, decided, stopped, concluded>> /\ At(c, "threads")
  BY TypeParts DEF RunInv, Join, journal
<1>2. \A t \in Tasks : thread[c][t].st \in {"none", "done", "interrupted"}
  BY <1>1, JoinedFields DEF Join, Returned
<1>3. OpenAttempts = {}
  BY <1>1, <1>2, NoneOpen DEF At
<1>4. Open' /\ Attempted(c)'
  BY <1>1, <1>3, JoinedFields DEF Work, Open, Attempted, OpenAttempts, Ended, At
<1>5. \A t \in Tasks : Held(c, t)'
  BY <1>1, JoinedFields DEF Held, Holding
<1>6. ASSUME NEW t \in Tasks PROVE Agrees(c, t)'
  <2>1. Agrees(c, t)
    BY <1>1 DEF Work, At
  <2>2. /\ thread'[c][t].st = "none"
        /\ co'[c].decided[t] = IF thread[c][t].st = "done" THEN thread[c][t].outcome
                               ELSE co[c].decided[t]
    BY <1>1, JoinedFields
  <2>3. QED
    BY <1>1, <1>2, <2>1, <2>2 DEF Agrees
<1>7. PassesStand(c)'
  <2>1. co'[c].passes = co[c].passes
    BY <1>1, JoinedFields DEF KeepsPasses
  <2>2. QED
    BY <1>1, <2>1, PassesKept DEF Work
<1>8. QED
  BY <1>4, <1>5, <1>6, <1>7 DEF Work

\* A pass is of a task that is decided: what decides another leaves it.
LEMMA PassIsDecided ==
    ASSUME CoOK, NEW c \in Coordinators, PassesStand(c), NEW i \in DOMAIN co[c].passes
    PROVE  co[c].passes[i].task \in Tasks /\ IsDecided(co[c].passes[i].task)
<1>1. co[c].passes \in Seq(Pass)
  BY DEF CoOK, CoState
<1>2. co[c].passes[i] \in Pass
  BY <1>1
<1>3. QED
  BY <1>2 DEF Pass, PassesStand, PassStands, IsDecided

LEMMA PassesUntouched ==
    ASSUME CoOK, NEW c \in Coordinators, PassesStand(c), co'[c].passes = co[c].passes,
           UNCHANGED generation, \A u \in Tasks : IsDecided(u) => decided'[u] = decided[u]
    PROVE  PassesStand(c)'
<1>1. \A i \in DOMAIN co[c].passes : decided'[co[c].passes[i].task] = decided[co[c].passes[i].task]
  BY PassIsDecided
<1>2. QED
  BY <1>1 DEF PassesStand, PassStands

\* A task that has just been decided adds its pass.
LEMMA PassesGrown ==
    ASSUME CoOK, NEW c \in Coordinators, PassesStand(c),
           NEW t \in Tasks, ~IsDecided(t), NEW a, NEW n,
           UNCHANGED generation, \A u \in Tasks : u # t => decided'[u] = decided[u],
           decided'[t].attempt = a, decided'[t].generation = generation,
           decided'[t].outcome = IF a = 0 THEN "cached" ELSE "passed",
           co'[c].passes = Append(co[c].passes, [task |-> t, attempt |-> a, at |-> n])
    PROVE  PassesStand(c)'
<1> DEFINE q == co[c].passes
<1> DEFINE p == [task |-> t, attempt |-> a, at |-> n]
<1>1. q \in Seq(Pass)
  BY DEF CoOK, CoState
<1>2. \A i \in DOMAIN q : q[i].task \in Tasks /\ IsDecided(q[i].task) /\ PassStands(c, i)
  BY PassIsDecided DEF PassesStand
<1>3. \A i, j \in DOMAIN q : q[i].task = q[j].task => i = j
  BY DEF PassesStand
<1>4. p.task = t /\ p.attempt = a
  OBVIOUS
<1> HIDE DEF p
<1>5. co'[c].passes = Append(q, p)
  BY DEF p
<1> HIDE DEF q
<1>6. /\ DOMAIN Append(q, p) = DOMAIN q \cup {Len(q) + 1}
      /\ Len(q) + 1 \notin DOMAIN q
      /\ Append(q, p)[Len(q) + 1] = p
      /\ \A i \in DOMAIN q : Append(q, p)[i] = q[i]
  BY <1>1
<1>7. PICK k : /\ DOMAIN co'[c].passes = DOMAIN q \cup {k}
               /\ k \notin DOMAIN q
               /\ co'[c].passes[k] = p
               /\ \A i \in DOMAIN q : co'[c].passes[i] = q[i]
  BY <1>5, <1>6
<1>8. ASSUME NEW i \in DOMAIN q PROVE PassStands(c, i)' /\ q[i].task # t
  <2>1. /\ q[i].task \in Tasks /\ q[i].task # t
        /\ decided'[q[i].task] = decided[q[i].task]
    BY <1>2, <1>8
  <2>2. co'[c].passes[i] = q[i]
    BY <1>7, <1>8
  <2>3. PassStands(c, i)
    BY <1>2, <1>8
  <2>4. PassStands(c, i)'
    BY <2>1, <2>2, <2>3 DEF PassStands, q
  <2>5. QED
    BY <2>1, <2>4
<1>9. PassStands(c, k)'
  BY <1>4, <1>7 DEF PassStands
<1>10. \A i, j \in DOMAIN co'[c].passes : co'[c].passes[i].task = co'[c].passes[j].task => i = j
  BY <1>3, <1>4, <1>7, <1>8
<1>11. QED
  BY <1>7, <1>8, <1>9, <1>10 DEF PassesStand

\* A task is decided without an attempt.
LEMMA DecidingWork ==
    ASSUME RunInv, OwnerInv, NEW c \in Coordinators, Work(c),
           At(c, "consider"), At(c, "consider")', NEW t \in Tasks, ~IsDecided(t),
           NEW o \in Outcomes,
           UNCHANGED <<generation, attempts, stopped, concluded, thread>>,
           decided' = [decided EXCEPT ![t] =
                          [outcome |-> o, attempt |-> 0, generation |-> generation]],
           co'[c].decided = [co[c].decided EXCEPT ![t] = o],
           \/ co'[c].passes = co[c].passes
           \/ /\ o = "cached"
              /\ co'[c].passes = Append(co[c].passes, [task |-> t, attempt |-> 0, at |-> now])
    PROVE  Work(c)'
<1>1. CoOK /\ co[c].decided \in [Tasks -> Outcomes \cup {"none"}] /\ decided \in [Tasks -> Decision]
  BY TypeParts DEF RunInv, CoOK, CoState, JournalInv, JournalTypeOK
<1>2. /\ decided'[t] = [outcome |-> o, attempt |-> 0, generation |-> generation]
      /\ \A u \in Tasks : u # t => decided'[u] = decided[u]
      /\ co'[c].decided[t] = o
      /\ \A u \in Tasks : u # t => co'[c].decided[u] = co[c].decided[u]
  BY <1>1
<1>3. /\ decided'[t].outcome = o /\ decided'[t].attempt = 0
      /\ decided'[t].generation = generation
  BY <1>2
<1>4. \A u \in Tasks : thread[c][u].st \in {"none", "ready"}
  BY DEF OwnerInv, ThreadsRun, At
<1>5. Open' /\ Attempted(c)'
  <2>1. OpenAttempts = {}
    BY <1>4, NoneOpen DEF At
  <2>2. QED
    BY <2>1 DEF Work, Open, Attempted, OpenAttempts, Ended, At
<1>6. \A u \in Tasks : Held(c, u)'
  BY <1>4 DEF Held, Holding
<1>7. ASSUME NEW u \in Tasks PROVE Agrees(c, u)'
  <2>1. Agrees(c, u)
    BY DEF Work, At
  <2>2. CASE u = t
    BY <1>2, <1>3, <1>4, <2>2 DEF Agrees
  <2>3. CASE u # t
    BY <1>2, <1>4, <2>1, <2>3 DEF Agrees
  <2>4. QED
    BY <2>2, <2>3
<1>8. PassesStand(c) /\ \A u \in Tasks : IsDecided(u) => decided'[u] = decided[u]
  BY <1>2 DEF Work
<1>9. PassesStand(c)'
  <2>1. CASE co'[c].passes = co[c].passes
    BY <1>1, <1>8, <2>1, PassesUntouched
  <2>2. CASE /\ o = "cached"
             /\ co'[c].passes = Append(co[c].passes, [task |-> t, attempt |-> 0, at |-> now])
    <3> DEFINE a == 0
    <3>1. /\ decided'[t].attempt = a
          /\ decided'[t].outcome = IF a = 0 THEN "cached" ELSE "passed"
      BY <1>3, <2>2
    <3>2. co'[c].passes = Append(co[c].passes, [task |-> t, attempt |-> a, at |-> now])
      BY <2>2
    <3> HIDE DEF a
    <3>3. QED
      BY <1>1, <1>2, <1>3, <1>8, <3>1, <3>2, PassesGrown
  <2>3. QED
    BY <2>1, <2>2
<1>10. QED
  BY <1>5, <1>6, <1>7, <1>9 DEF Work

\* A thread is given a task, or a task that is decided is passed over.
LEMMA PassingWork ==
    ASSUME RunInv, OwnerInv, NEW c \in Coordinators, Work(c),
           At(c, "consider"), At(c, "consider")', UNCHANGED journal,
           co'[c].decided = co[c].decided, co'[c].passes = co[c].passes,
           \A u \in Tasks : thread'[c][u].st \in {"none", "ready"}
    PROVE  Work(c)'
<1>1. UNCHANGED <<generation, attempts, decided, stopped, concluded>>
  BY DEF journal
<1>2. \A u \in Tasks : thread[c][u].st \in {"none", "ready"}
  BY DEF OwnerInv, ThreadsRun, At
<1>3. Open' /\ Attempted(c)'
  <2>1. OpenAttempts = {}
    BY <1>2, NoneOpen DEF At
  <2>2. QED
    BY <1>1, <2>1 DEF Work, Open, Attempted, OpenAttempts, Ended, At
<1>4. \A u \in Tasks : Held(c, u)'
  BY DEF Held, Holding
<1>5. ASSUME NEW u \in Tasks PROVE Agrees(c, u)'
  <2>1. Agrees(c, u)
    BY DEF Work, At
  <2>2. QED
    BY <1>1, <1>2, <2>1 DEF Agrees
<1>6. PassesStand(c)'
  BY <1>1, PassesKept DEF Work
<1>7. QED
  BY <1>3, <1>4, <1>5, <1>6 DEF Work

LEMMA ConsiderWork ==
    ASSUME RunInv, OwnerInv, NEW c \in Coordinators, Work(c), InForce(c), Consider(c), ~Gone(c)
    PROVE  Work(c)'
<1> DEFINE t == Considered(c)
<1>1. CoOK /\ At(c, "consider") /\ co[c].generation = generation
  BY TypeParts DEF RunInv, Consider, InForce
<1>2. t \in Tasks
  BY <1>1, ConsideredIsTask DEF Consider
<1>3. ASSUME NEW o \in Outcomes, SettleAs(c, t, o) PROVE Work(c)'
  <2>1. Settled(t, generation, o) /\ Decides(c, t, o) /\ UNCHANGED thread
    BY <1>1, <1>3 DEF SettleAs, Recorded
  <2> HIDE DEF t
  <2>2. /\ ~IsDecided(t)
        /\ UNCHANGED <<generation, attempts, stopped, concluded>>
        /\ decided' = [decided EXCEPT ![t] =
              [outcome |-> o, attempt |-> 0, generation |-> generation]]
    BY <2>1 DEF Settled, AcceptsSettled, UndecidedTask
  <2>3. /\ co'[c].decided = [co[c].decided EXCEPT ![t] = o]
        /\ co'[c].passes = co[c].passes /\ At(c, "consider")'
    BY <1>1, <1>2, <2>1, DecidesFields DEF KeepsPasses, At
  <2>4. QED
    BY <1>1, <1>2, <2>1, <2>2, <2>3, DecidingWork
<1>4. ASSUME Reuse(c, t) PROVE Work(c)'
  <2>1. Reused(t, generation) /\ UNCHANGED thread
    BY <1>1, <1>4 DEF Reuse, Recorded
  <2>2. co' = [co EXCEPT ![c].decided[t] = "cached", ![c].pos = @ + 1,
                         ![c].passes = Append(@, [task |-> t, attempt |-> 0, at |-> now])]
    BY <1>1, <1>4 DEF Reuse
  <2> HIDE DEF t
  <2>3. /\ co'[c].decided = [co[c].decided EXCEPT ![t] = "cached"]
        /\ co'[c].passes = Append(co[c].passes, [task |-> t, attempt |-> 0, at |-> now])
        /\ At(c, "consider")'
    BY <1>1, <1>2, <2>2, ReuseFields DEF At
  <2> DEFINE o == "cached"
  <2>4. /\ ~IsDecided(t)
        /\ UNCHANGED <<generation, attempts, stopped, concluded>>
        /\ decided' = [decided EXCEPT ![t] =
              [outcome |-> o, attempt |-> 0, generation |-> generation]]
    BY <2>1 DEF Reused, AcceptsReused, UndecidedTask
  <2>5. o \in Outcomes
    BY DEF Outcomes
  <2>6. QED
    BY <1>1, <1>2, <2>1, <2>3, <2>4, <2>5, DecidingWork
<1>5. ASSUME co' = [co EXCEPT ![c].pos = @ + 1], UNCHANGED journal,
             UNCHANGED thread \/ thread' = [thread EXCEPT ![c][t].st = "ready"]
      PROVE  Work(c)'
  <2>1. \A u \in Tasks : thread[c][u].st \in {"none", "ready"}
    BY <1>1 DEF OwnerInv, ThreadsRun, At
  <2>2. \A u \in Tasks : thread'[c][u].st \in {"none", "ready"}
    BY <1>1, <1>2, <1>5, <2>1, ReadyFields
  <2>3. /\ co'[c].decided = co[c].decided /\ co'[c].passes = co[c].passes
        /\ At(c, "consider")'
    BY <1>1, <1>5, PassesOverFields DEF KeepsPasses, At
  <2>4. QED
    BY <1>1, <1>5, <2>2, <2>3, PassingWork
<1>6. QED
  BY <1>3, <1>4, <1>5 DEF Consider, Considered, Outcomes

\* An attempt is recorded as lost: it is still an earlier generation's.
LEMMA RecordLostWork ==
    ASSUME RunInv, OwnerInv, NEW c \in Coordinators, Work(c), NEW a, RecordLost(c, a), ~Gone(c)
    PROVE  Work(c)'
<1> DEFINE e == IF a \in co[c].assumed THEN "assumed" ELSE "lost"
<1>1. CoOK /\ JournalTypeOK /\ At(c, "losing") /\ UNCHANGED <<co, thread>>
      /\ Lost(a, co[c].generation, e)
  BY TypeParts DEF RunInv, JournalInv, RecordLost, Recorded
<1>2. a \in DOMAIN attempts /\ attempts' = [attempts EXCEPT ![a].end = e] /\ e \in Ends
      /\ UNCHANGED <<generation, decided, stopped, concluded>>
  BY <1>1 DEF Lost, AcceptsLost, Known, Ends, LostEnds
<1> HIDE DEF e
<1>3. KeptAttempts(a)
  BY <1>1, <1>2, SetEnd
<1>4. Open' /\ Attempted(c)'
  BY <1>1, <1>2, <1>3 DEF Work, Open, Attempted, KeptAttempts, At
<1>5. \A t \in Tasks : Held(c, t)'
  BY <1>1, IdleThreads DEF Held, Holding, At
<1>6. PassesStand(c)'
  BY <1>1, <1>2, PassesKept DEF Work
<1>7. QED
  BY <1>1, <1>4, <1>5, <1>6 DEF Work, At

\* With every attempt ended the decisions that stand are taken over.
LEMMA TakenOverWork ==
    ASSUME RunInv, OwnerInv, NEW c \in Coordinators, Work(c), TakenOver(c)
    PROVE  Work(c)'
<1> DEFINE v == [t \in Tasks |-> decided[t].outcome]
<1> DEFINE r == [co[c] EXCEPT !.pc = "level", !.assumed = {}, !.decided = v]
<1>1. CoOK /\ At(c, "losing") /\ UNCHANGED <<journal, thread>> /\ OpenAttempts = {}
  BY TypeParts DEF RunInv, TakenOver
<1>2. co[c] \in CoState
  BY <1>1 DEF CoOK
<1>3. co' = [co EXCEPT ![c] = r]
  BY <1>1 DEF TakenOver, CoOK, CoState
<1> HIDE DEF v
<1>4. r.pc = "level" /\ r.decided = v /\ r.passes = co[c].passes
  BY <1>2 DEF CoState
<1> HIDE DEF r
<1>5. co'[c].pc = "level" /\ co'[c].decided = v /\ co'[c].passes = co[c].passes
  BY <1>1, <1>3, <1>4, CoSet
<1>6. \A t \in Tasks : thread[c][t].st = "none" /\ thread'[c][t].st = "none"
  BY <1>1, IdleThreads DEF At
<1>7. UNCHANGED <<generation, attempts, decided, stopped, concluded>>
  BY <1>1 DEF journal
<1>8. Open' /\ Attempted(c)'
  BY <1>1, <1>5, <1>7 DEF Work, Open, Attempted, OpenAttempts, Ended, At
<1>9. \A t \in Tasks : Held(c, t)'
  BY <1>6 DEF Held, Holding
<1>10. \A t \in Tasks : Agrees(c, t)'
  BY <1>5, <1>6, <1>7 DEF Agrees, v
<1>11. PassesStand(c)'
  BY <1>5, <1>7, PassesKept DEF Work
<1>12. QED
  BY <1>8, <1>9, <1>10, <1>11 DEF Work

\* A generation opens: every attempt is an earlier one's.
LEMMA TakeOverWork ==
    ASSUME RunInv, OwnerInv, NEW c \in Coordinators, TakeOver(c), ~Gone(c),
           co[c].passes = << >>
    PROVE  Work(c)'
<1> DEFINE g == co[c].generation + 1
<1> DEFINE r == [co[c] EXCEPT !.generation = g, !.pc = "losing"]
<1>1. CoOK /\ JournalInv /\ At(c, "reopened") /\ UNCHANGED thread
      /\ Resumed(g) /\ co' = [co EXCEPT ![c].generation = g, ![c].pc = "losing"]
      /\ co[c].generation = generation
  BY TypeParts DEF RunInv, TakeOver, Recorded, Fenced
<1>2. co[c] \in CoState /\ generation \in Nat
  BY <1>1 DEF CoOK, JournalInv, JournalTypeOK
<1>3. co' = [co EXCEPT ![c] = r]
  BY <1>1 DEF CoOK, CoState
<1> HIDE DEF g
<1>4. r.pc = "losing" /\ r.passes = co[c].passes
  BY <1>2 DEF CoState
<1> HIDE DEF r
<1>5. co'[c].pc = "losing" /\ co'[c].passes = << >>
  BY <1>1, <1>3, <1>4, CoSet
<1>6. generation' = generation + 1 /\ stopped' = FALSE /\ concluded' = "none"
      /\ UNCHANGED attempts
  BY <1>1 DEF Resumed, AcceptsResumed, g
<1>7. \A a \in DOMAIN attempts : attempts[a].generation <= generation
                                 /\ attempts[a].generation \in Nat
  BY <1>1, <1>2 DEF JournalInv, WellLinked
<1>8. Open' /\ Attempted(c)'
  BY <1>2, <1>5, <1>6, <1>7 DEF Open, Attempted, At
<1>9. \A t \in Tasks : thread'[c][t].st = "none"
  BY <1>1, IdleThreads DEF At
<1>10. PassesStand(c)'
  BY <1>5 DEF PassesStand
<1>11. QED
  BY <1>5, <1>8, <1>9, <1>10 DEF Work, Held, Holding

\* The oldest pass is withdrawn, or stands: the later ones are of other tasks.
LEMMA WithdrawWork ==
    ASSUME RunInv, OwnerInv, NEW c \in Coordinators, Work(c), WithdrawNext(c), ~Gone(c)
    PROVE  Work(c)'
<1>1. PICK q : q = co[c].passes
  OBVIOUS
<1>2. PICK p : p = Head(q)
  OBVIOUS
<1>3. /\ CoOK /\ JournalInv /\ JournalTypeOK /\ At(c, "withdrawing") /\ q # << >>
      /\ UNCHANGED thread /\ co' = [co EXCEPT ![c].passes = Tail(@)]
      /\ UNCHANGED journal \/ Withdrawn(p.task, p.attempt, co[c].generation)
  BY <1>1, <1>2, TypeParts DEF RunInv, JournalInv, WithdrawNext, Recorded
<1>4. q \in Seq(Pass) /\ co'[c].passes = Tail(q) /\ co'[c].pc = "withdrawing"
  BY <1>1, <1>3, WithdrawNextFields DEF At, CoOK, CoState
<1>5. /\ DOMAIN Tail(q) = 1 .. Len(q) - 1 /\ Len(q) \in Nat \ {0} /\ DOMAIN q = 1 .. Len(q)
      /\ \A i \in 1 .. Len(q) - 1 : Tail(q)[i] = q[i + 1]
      /\ p = q[1]
  BY <1>2, <1>3, <1>4
<1>6. PassesStand(c) /\ p.task \in Tasks
  <2>1. PassesStand(c) /\ 1 \in DOMAIN co[c].passes
    BY <1>1, <1>5 DEF Work
  <2>2. co[c].passes[1].task \in Tasks
    BY <1>3, <2>1, PassIsDecided
  <2>3. QED
    BY <1>1, <1>5, <2>1, <2>2
<1>7. \A i \in 1 .. Len(q) - 1 : /\ i + 1 \in DOMAIN q
                                 /\ q[i + 1].task \in Tasks
                                 /\ q[i + 1].task # p.task
                                 /\ PassStands(c, i + 1)
  <2> SUFFICES ASSUME NEW i \in 1 .. Len(q) - 1
               PROVE  /\ i + 1 \in DOMAIN q
                      /\ q[i + 1].task \in Tasks
                      /\ q[i + 1].task # p.task
                      /\ PassStands(c, i + 1)
    OBVIOUS
  <2>1. i + 1 \in DOMAIN q /\ 1 \in DOMAIN q /\ i + 1 # 1
    BY <1>5
  <2>2. co[c].passes[i + 1].task \in Tasks
    BY <1>1, <1>3, <1>6, <2>1, PassIsDecided
  <2>3. QED
    BY <1>1, <1>5, <1>6, <2>1, <2>2 DEF PassesStand
<1>8. /\ UNCHANGED <<generation, stopped, concluded>>
      /\ \A u \in Tasks : u # p.task => decided'[u] = decided[u]
      /\ DOMAIN attempts' = DOMAIN attempts
      /\ \A a \in DOMAIN attempts : attempts'[a].task = attempts[a].task
                                    /\ attempts'[a].end = attempts[a].end
  <2>1. CASE UNCHANGED journal
    BY <2>1 DEF journal
  <2>2. CASE Withdrawn(p.task, p.attempt, co[c].generation)
    <3>1. Losing(c)
      BY <1>3, <1>6, <2>2, WithdrawnFact
    <3>2. \A a \in DOMAIN attempts : attempts'[a].end = attempts[a].end
      BY <1>3, <3>1 DEF Losing, LostBy, At
    <3>3. decided' = [decided EXCEPT ![p.task] = Undecided]
          /\ UNCHANGED <<generation, stopped, concluded>>
      BY <2>2 DEF Withdrawn
    <3>4. QED
      BY <1>3, <3>1, <3>2, <3>3 DEF Losing, JournalTypeOK
  <2>3. QED
    BY <1>3, <2>1, <2>2
<1>9. OpenAttempts = {}
  BY <1>3, IdleThreads, NoneOpen DEF At
<1>10. Open' /\ Attempted(c)'
  BY <1>4, <1>8, <1>9 DEF Work, Open, Attempted, OpenAttempts, Ended, At
<1>11. \A u \in Tasks : Held(c, u)'
  BY <1>3, IdleThreads DEF Held, Holding, At
<1>12. PassesStand(c)'
  <2>1. PICK s : s = co'[c].passes
    OBVIOUS
  <2>2. DOMAIN s = 1 .. Len(q) - 1 /\ \A i \in DOMAIN s : s[i] = q[i + 1]
    BY <1>4, <1>5, <2>1
  <2>3. ASSUME NEW i \in 1 .. Len(q) - 1 PROVE PassStands(c, i)'
    <3>1. decided'[q[i + 1].task] = decided[q[i + 1].task]
      BY <1>7, <1>8
    <3>2. co'[c].passes[i] = co[c].passes[i + 1]
      BY <1>1, <2>1, <2>2
    <3>3. PassStands(c, i + 1) /\ decided'[co[c].passes[i + 1].task] = decided[co[c].passes[i + 1].task]
      BY <1>1, <1>7, <3>1
    <3>4. QED
      BY <1>8, <3>2, <3>3 DEF PassStands
  <2>4. ASSUME NEW i \in 1 .. Len(q) - 1, NEW j \in 1 .. Len(q) - 1, s[i].task = s[j].task
        PROVE  i = j
    <3>1. q[i + 1].task = q[j + 1].task
      BY <2>2, <2>4
    <3>2. i + 1 = j + 1
      BY <1>1, <1>6, <1>7, <3>1 DEF PassesStand
    <3>3. QED
      BY <3>2
  <2>5. QED
    BY <2>1, <2>2, <2>3, <2>4 DEF PassesStand
<1>13. QED
  BY <1>4, <1>10, <1>11, <1>12 DEF Work

\* A run that is created has nothing yet.
LEMMA CreateWork ==
    ASSUME RunInv, OwnerInv, Unrequested, NEW c \in Coordinators, Create(c), ~Gone(c)
    PROVE  Work(c)'
<1>1. CoOK /\ JournalInv /\ Requested /\ UNCHANGED thread
      /\ \E pc \in {"level", "detach"} : Begin(c, 1, pc)
  BY TypeParts DEF RunInv, Create
<1>2. generation = 0 /\ UNCHANGED <<attempts, decided, stopped, concluded>>
  BY <1>1 DEF Requested, AcceptsRequested
<1>3. DOMAIN attempts = {} /\ concluded = "none" /\ ~stopped
  <2>1. \A a \in DOMAIN attempts : attempts[a].generation \in 1 .. 0
    BY <1>1, <1>2 DEF JournalInv, WellLinked
  <2>2. DOMAIN attempts = {}
    BY <2>1
  <2>3. concluded = "none"
    BY <1>1, <1>2 DEF JournalInv, WellLinked
  <2>4. QED
    BY <1>2, <2>2, <2>3 DEF Unrequested
<1>4. /\ co'[c].pc \in {"level", "detach"}
      /\ co'[c].decided = [t \in Tasks |-> "none"]
      /\ co'[c].passes = << >>
  BY <1>1, BegunFields
<1>5. \A t \in Tasks : thread'[c][t].st = "none"
  BY <1>1, IdleThreads DEF Create, IsNext
<1>6. Open' /\ Attempted(c)'
  <2>1. OpenAttempts' = {} /\ ~At(c, "losing")'
    BY <1>2, <1>3, <1>4 DEF OpenAttempts, At
  <2>2. QED
    BY <1>2, <1>3, <2>1 DEF Open, Attempted
<1>7. \A t \in Tasks : Held(c, t)' /\ Agrees(c, t)'
  BY <1>2, <1>4, <1>5 DEF Held, Agrees, Holding, Unrequested, IsDecided
<1>8. PassesStand(c)'
  BY <1>4 DEF PassesStand
<1>9. QED
  BY <1>6, <1>7, <1>8 DEF Work

\* Every step of a coordinator's main thread keeps its work; its last record
\* ends the process.
LEMMA MainWork ==
    ASSUME RunInv, OwnerInv, WorkInv, NEW c \in Coordinators,
           MainStep(c) \/ Decline(c) \/ Crash(c) \/ StopBegins(c) \/ HandlerRuns(c),
           InForce(c)'
    PROVE  Work(c)'
<1>1. CoOK
  BY TypeParts DEF RunInv
<1>2. ~Gone(c)
  BY <1>1, GoneFields DEF InForce, Owns
<1>3. CASE At(c, "reopened")
  <2>1. CASE StopBegins(c) \/ HandlerRuns(c)
    BY <1>1, <1>3, <2>1, SignalFields DEF InForce, Owns, At
  <2>2. CASE TakeOver(c)
    BY <1>2, <1>3, <2>2, TakeOverWork DEF WorkInv
  <2>3. QED
    BY <1>2, <1>3, <2>1, <2>2 DEF MainStep, Detach, Received, RecordLost, TakenOver, StartLevel,
       Consider, StartThreads, Join, WaitOutWindow, BeginWithdraw, WithdrawNext, RecordStop,
       RecordConclusion, Decline, Crash, At
<1>4. CASE ~At(c, "reopened")
  <2>1. InForce(c) /\ Work(c)
    BY <1>4, MainRecords, MainEffect, StaysInForce DEF WorkInv
  <2>2. QED
    BY <1>2, <1>4, <2>1, MovingWork, JoinWork, ConsiderWork, RecordLostWork, TakenOverWork,
       WithdrawWork DEF MainStep, TakeOver, RecordStop, RecordConclusion, Decline, Crash
<1>5. QED
  BY <1>3, <1>4

\* What a thread records concerns its own task: decided by it, if at all, for
\* the first time.
Elsewhere(t) ==
    /\ UNCHANGED <<generation, stopped, concluded>>
    /\ \A u \in Tasks : u # t => decided'[u] = decided[u]
    /\ IsDecided(t) => decided'[t] = decided[t]
    /\ \A a \in DOMAIN attempts :
        /\ a \in DOMAIN attempts'
        /\ attempts'[a].task = attempts[a].task
        /\ attempts[a].task # t => attempts'[a] = attempts[a]
    /\ \A a \in DOMAIN attempts' : a \notin DOMAIN attempts => attempts'[a].task = t

\* So it is enough to look at that task, its attempts and its pass.
LEMMA ThreadWork ==
    ASSUME RunInv, OwnerInv, NEW c \in Coordinators, NEW t \in Tasks, Work(c),
           WorksOn(c, t), Elsewhere(t), co'[c].decided = co[c].decided,
           Held(c, t)', Agrees(c, t)', PassesStand(c)',
           \A a \in DOMAIN attempts' : attempts'[a].task = t /\ ~Ended(a)' => HeldBy(c, a)'
    PROVE  Work(c)'
<1>1. /\ At(c, "threads") /\ At(c, "threads")'
      /\ \A u \in Tasks : u # t => thread'[c][u] = thread[c][u]
  BY DEF WorksOn
<1>2. Open'
  BY DEF Work, Open, Elsewhere
<1>3. ASSUME NEW a \in OpenAttempts' PROVE HeldBy(c, a)'
  <2>1. CASE attempts'[a].task = t
    BY <1>3, <2>1 DEF OpenAttempts
  <2>2. CASE attempts'[a].task # t
    <3>1. a \in DOMAIN attempts /\ attempts'[a] = attempts[a] /\ attempts[a].task # t
      BY <1>3, <2>2 DEF OpenAttempts, Elsewhere
    <3>2. attempts[a].task \in Tasks
      BY <3>1, AttemptFields DEF RunInv, JournalInv
    <3>3. HeldBy(c, a)
      BY <1>1, <1>3, <3>1 DEF Work, Attempted, OpenAttempts, Ended, At
    <3>4. QED
      BY <1>1, <3>1, <3>2, <3>3 DEF HeldBy
  <2>3. QED
    BY <2>1, <2>2
<1>4. Attempted(c)'
  BY <1>1, <1>3 DEF Attempted, At
<1>5. ASSUME NEW u \in Tasks PROVE Held(c, u)'
  <2>1. CASE u = t
    BY <2>1
  <2>2. CASE u # t
    <3>1. thread'[c][u] = thread[c][u] /\ Held(c, u) /\ HeldOwn(c, u)
      BY <1>1, <2>2 DEF Work, OwnerInv, ThreadsRun
    <3>2. CASE thread[c][u].st \in Holding
      <4> DEFINE a == thread[c][u].attempt
      <4>1. a \in DOMAIN attempts /\ attempts[a].task # t
        BY <2>2, <3>1, <3>2 DEF HeldOwn, Known
      <4>2. attempts'[a] = attempts[a]
        BY <4>1 DEF Elsewhere
      <4>3. QED
        BY <3>1, <4>2 DEF Held, Ended
    <3>3. CASE thread[c][u].st \notin Holding
      BY <3>1, <3>3 DEF Held, Holding
    <3>4. QED
      BY <3>2, <3>3
  <2>3. QED
    BY <2>1, <2>2
<1>6. ASSUME NEW u \in Tasks PROVE Agrees(c, u)'
  <2>1. CASE u = t
    BY <2>1
  <2>2. CASE u # t
    <3>1. thread'[c][u] = thread[c][u] /\ decided'[u] = decided[u] /\ Agrees(c, u)
      BY <1>1, <2>2 DEF Work, Elsewhere, At
    <3>2. QED
      BY <3>1 DEF Agrees
  <2>3. QED
    BY <2>1, <2>2
<1>7. QED
  BY <1>2, <1>4, <1>5, <1>6 DEF Work

\* The facts a thread records, seen from elsewhere.
LEMMA ElsewhereQuiet ==
    ASSUME NEW t \in Tasks, UNCHANGED journal
    PROVE  Elsewhere(t)
  BY DEF Elsewhere, journal

LEMMA ElsewhereOpened ==
    ASSUME JournalTypeOK, NEW t \in Tasks, NEW g, NEW s, Dispatched(t, g, s)
    PROVE  Elsewhere(t)
<1>1. UNCHANGED <<generation, decided, stopped, concluded>>
  BY DEF Dispatched
<1>2. PICK n : /\ DOMAIN attempts' = DOMAIN attempts \cup {n}
               /\ \A b \in DOMAIN attempts : attempts'[b] = attempts[b]
               /\ attempts'[n].task = t
  BY OpenedAttempt
<1>3. QED
  BY <1>1, <1>2 DEF Elsewhere

LEMMA ElsewhereSet ==
    ASSUME JournalInv, NEW t \in Tasks, NEW a \in DOMAIN attempts, attempts[a].task = t,
           KeptAttempts(a), UNCHANGED <<generation, stopped, concluded>>,
           UNCHANGED decided \/ (~Ended(a) /\ \E d : decided' = [decided EXCEPT ![t] = d])
    PROVE  Elsewhere(t)
<1>1. decided \in [Tasks -> Decision]
  BY DEF JournalInv, JournalTypeOK
<1>2. ~Ended(a) => ~IsDecided(t)
  BY DEF JournalInv, RetryAfterEnd
<1>3. /\ \A u \in Tasks : u # t => decided'[u] = decided[u]
      /\ IsDecided(t) => decided'[t] = decided[t]
  BY <1>1, <1>2
<1>4. QED
  BY <1>3 DEF Elsewhere, KeptAttempts

LEMMA DecidedStands ==
    ASSUME RunInv, NEW c \in Coordinators, NEW t \in Tasks, Work(c), Elsewhere(t),
           co'[c].passes = co[c].passes
    PROVE  PassesStand(c)'
<1>1. CoOK /\ PassesStand(c)
  BY TypeParts DEF RunInv, Work
<1>2. UNCHANGED generation /\ \A u \in Tasks : IsDecided(u) => decided'[u] = decided[u]
  BY DEF Elsewhere
<1>3. QED
  BY <1>1, <1>2, PassesUntouched

\* A thread that failed may have recorded its fact or not.
LEMMA FailedWork ==
    ASSUME RunInv, OwnerInv, NEW c \in Coordinators, NEW t \in Tasks, Work(c),
           WorksOn(c, t), Elsewhere(t), thread'[c][t].st = "failed", KeepsPlan(c), KeepsPasses(c)
    PROVE  Work(c)'
<1>1. PassesStand(c)'
  BY DecidedStands DEF KeepsPasses
<1>2. Held(c, t)' /\ Agrees(c, t)'
  BY DEF Held, Agrees, Holding
<1>3. \A a \in DOMAIN attempts' : attempts'[a].task = t => HeldBy(c, a)'
  BY DEF HeldBy
<1>4. QED
  BY <1>1, <1>2, <1>3, ThreadWork DEF KeepsPlan

\* A thread goes on with its attempt and records nothing.
LEMMA GoingWork ==
    ASSUME RunInv, OwnerInv, NEW c \in Coordinators, NEW t \in Tasks, Work(c),
           WorksOn(c, t), UNCHANGED <<journal, co>>,
           thread'[c][t].attempt = thread[c][t].attempt,
           \/ Turn(c, t, "dispatched", "spawned")
           \/ Turn(c, t, "dispatched", "judged") /\ thread'[c][t].outcome = "errored"
           \/ Turn(c, t, "running", "exited")
           \/ Turn(c, t, "exited", "stopping")
           \/ Turn(c, t, "exited", "judged")
    PROVE  Work(c)'
<1>1. UNCHANGED <<attempts, decided>>
  BY DEF journal
<1>2. Elsewhere(t) /\ PassesStand(c)'
  BY ElsewhereQuiet, DecidedStands
<1>3. thread[c][t].st \in Holding /\ thread'[c][t].st \in Holding
  BY DEF Turn, Holding
<1>4. Held(c, t)'
  <2>1. Held(c, t)
    BY DEF Work
  <2>2. QED
    BY <1>1, <1>3, <2>1 DEF Held, Turn, Ended
<1>5. Agrees(c, t)'
  <2>1. Agrees(c, t)
    BY DEF Work, WorksOn, At
  <2>2. QED
    BY <1>1, <2>1 DEF Agrees, Turn
<1>6. ASSUME NEW a \in DOMAIN attempts', attempts'[a].task = t, ~Ended(a)' PROVE HeldBy(c, a)'
  <2>1. HeldBy(c, a)
    BY <1>1, <1>6 DEF Work, Attempted, OpenAttempts, Ended, WorksOn, At
  <2>2. QED
    BY <1>1, <1>3, <1>6, <2>1 DEF HeldBy, Holding
<1>7. QED
  BY <1>2, <1>4, <1>5, <1>6, ThreadWork

LEMMA DispatchedWork ==
    ASSUME RunInv, OwnerInv, NEW c \in Coordinators, NEW t \in Tasks, Work(c),
           WorksOn(c, t), NEW g, NEW s, Dispatched(t, g, s), UNCHANGED co,
           Turn(c, t, "ready", "dispatched"), thread'[c][t].attempt = Len(attempts) + 1
    PROVE  Work(c)'
<1>1. JournalTypeOK /\ UNCHANGED decided
  BY DEF RunInv, JournalInv, Dispatched
<1>2. Elsewhere(t) /\ PassesStand(c)'
  BY <1>1, ElsewhereOpened, DecidedStands
<1>3. PICK n : /\ n = thread'[c][t].attempt
               /\ DOMAIN attempts' = DOMAIN attempts \cup {n}
               /\ \A b \in DOMAIN attempts : attempts'[b] = attempts[b]
               /\ attempts'[n].end = "none"
               /\ ~attempts'[n].started
  BY <1>1, OpenedAttempt
<1>4. Held(c, t)'
  BY <1>3 DEF Held, Turn, Ended
<1>5. Agrees(c, t)'
  <2>1. Agrees(c, t)
    BY DEF Work, WorksOn, At
  <2>2. QED
    BY <1>1, <2>1 DEF Agrees, Turn
<1>6. ASSUME NEW a \in DOMAIN attempts', attempts'[a].task = t, ~Ended(a)' PROVE HeldBy(c, a)'
  <2>1. CASE a = n
    BY <1>3, <1>6, <2>1 DEF HeldBy, Turn, Holding
  <2>2. CASE a # n
    <3>1. a \in OpenAttempts /\ attempts[a].task = t
      BY <1>3, <1>6, <2>2 DEF OpenAttempts, Ended
    <3>2. HeldBy(c, a)
      BY <3>1 DEF Work, Attempted, WorksOn, At
    <3>3. QED
      BY <3>1, <3>2 DEF HeldBy, Turn, Holding
  <2>3. QED
    BY <2>1, <2>2
<1>7. QED
  BY <1>2, <1>4, <1>5, <1>6, ThreadWork

\* A thread sets what the journal has of its own attempt.
OwnAttempt(c, t, a) ==
    /\ a = thread[c][t].attempt
    /\ a \in DOMAIN attempts
    /\ attempts[a].task = t
    /\ KeptAttempts(a)

LEMMA StartedWork ==
    ASSUME RunInv, OwnerInv, NEW c \in Coordinators, NEW t \in Tasks, Work(c),
           WorksOn(c, t), NEW a, NEW g, Started(a, g), OwnAttempt(c, t, a),
           attempts'[a].end = attempts[a].end, attempts'[a].started, UNCHANGED co,
           Turn(c, t, "spawned", "running"), thread'[c][t].attempt = a
    PROVE  Work(c)'
<1>1. JournalInv /\ UNCHANGED <<generation, decided, stopped, concluded>>
  BY DEF RunInv, Started
<1>2. Elsewhere(t) /\ PassesStand(c)'
  BY <1>1, ElsewhereSet, DecidedStands DEF OwnAttempt
<1>3. Held(c, t)'
  BY DEF Held, Turn, Ended, Started, AcceptsStarted
<1>4. Agrees(c, t)'
  <2>1. Agrees(c, t)
    BY DEF Work, WorksOn, At
  <2>2. QED
    BY <1>1, <2>1 DEF Agrees, Turn
<1>5. ASSUME NEW b \in DOMAIN attempts', attempts'[b].task = t, ~Ended(b)' PROVE HeldBy(c, b)'
  <2>1. b \in OpenAttempts /\ attempts[b].task = t
    BY <1>5 DEF OwnAttempt, KeptAttempts, OpenAttempts, Ended
  <2>2. HeldBy(c, b)
    BY <2>1 DEF Work, Attempted, WorksOn, At
  <2>3. QED
    BY <1>5, <2>1, <2>2 DEF HeldBy, Turn, Holding, OwnAttempt
<1>6. QED
  BY <1>2, <1>3, <1>4, <1>5, ThreadWork

\* The attempt of a thread ends: it was the task's only one that was open.
LEMMA EndedHeld ==
    ASSUME RunInv, OwnerInv, NEW c \in Coordinators, NEW t \in Tasks, Work(c),
           WorksOn(c, t), NEW a, OwnAttempt(c, t, a), attempts'[a].end # "none",
           thread[c][t].st # "failed",
           NEW b \in DOMAIN attempts', attempts'[b].task = t
    PROVE  Ended(b)'
<1> SUFFICES ASSUME b # a, ~Ended(b)' PROVE FALSE
  BY DEF Ended
<1>1. b \in OpenAttempts /\ attempts[b].task = t
  BY DEF OwnAttempt, KeptAttempts, OpenAttempts, Ended
<1>2. HeldBy(c, b)
  BY <1>1 DEF Work, Attempted, WorksOn, At
<1>3. QED
  BY <1>1, <1>2 DEF HeldBy, OwnAttempt

LEMMA FinishedWork ==
    ASSUME RunInv, OwnerInv, NEW c \in Coordinators, NEW t \in Tasks, Work(c),
           WorksOn(c, t), NEW a, NEW o, NEW x, NEW n,
           Finished(a, generation, x, o), OwnAttempt(c, t, a), attempts'[a].end = o,
           co'[c].decided = co[c].decided,
           Turn(c, t, "judged", "done"), thread'[c][t].outcome = o,
           co'[c].passes = IF o = "passed"
                           THEN Append(co[c].passes, [task |-> t, attempt |-> a, at |-> n])
                           ELSE co[c].passes
    PROVE  Work(c)'
<1>1. JournalInv /\ CoOK /\ UNCHANGED <<generation, stopped, concluded>> /\ o \in FinishedEnds
      /\ ~Ended(a)
  BY TypeParts DEF RunInv, Finished, AcceptsFinished
<1>2. decided' = [decided EXCEPT ![t] = [outcome |-> o, attempt |-> a, generation |-> generation]]
  BY DEF Finished, OwnAttempt
<1>3. Elsewhere(t)
  BY <1>1, <1>2, ElsewhereSet DEF OwnAttempt
<1>4. /\ decided'[t].outcome = o /\ decided'[t].attempt = a
      /\ decided'[t].generation = generation
      /\ \A u \in Tasks : u # t => decided'[u] = decided[u]
  <2>1. decided \in [Tasks -> Decision]
    BY <1>1 DEF JournalInv, JournalTypeOK
  <2>2. decided'[t] = [outcome |-> o, attempt |-> a, generation |-> generation]
    BY <1>2, <2>1
  <2>3. QED
    BY <1>3, <2>2 DEF Elsewhere
<1>5. Held(c, t)' /\ Agrees(c, t)'
  BY <1>4 DEF Held, Agrees, Turn, Holding
<1>6. \A b \in DOMAIN attempts' : attempts'[b].task = t => Ended(b)'
  <2>1. attempts'[a].end # "none"
    BY <1>1 DEF FinishedEnds
  <2>2. QED
    BY <2>1, EndedHeld DEF Turn
<1>7. PassesStand(c)'
  <2>1. CASE o # "passed"
    BY <1>3, <2>1, DecidedStands
  <2>2. CASE o = "passed"
    <3>1. ~IsDecided(t) /\ a # 0
      BY <1>1, AttemptFields DEF OwnAttempt, JournalInv, RetryAfterEnd
    <3>2. PassesStand(c)
      BY DEF Work
    <3>3. decided'[t].outcome = IF a = 0 THEN "cached" ELSE "passed"
      BY <1>4, <2>2, <3>1
    <3>4. co'[c].passes = Append(co[c].passes, [task |-> t, attempt |-> a, at |-> n])
      BY <2>2
    <3>5. QED
      BY <1>1, <1>4, <3>1, <3>2, <3>3, <3>4, PassesGrown
  <2>3. QED
    BY <2>1, <2>2
<1>8. QED
  BY <1>3, <1>5, <1>6, <1>7, ThreadWork

LEMMA InterruptedWork ==
    ASSUME RunInv, OwnerInv, NEW c \in Coordinators, NEW t \in Tasks, Work(c),
           WorksOn(c, t), NEW a, NEW g, Interrupted(a, g), OwnAttempt(c, t, a),
           attempts'[a].end = "interrupted", UNCHANGED co, Turn(c, t, "stopping", "interrupted")
    PROVE  Work(c)'
<1>1. JournalInv /\ UNCHANGED <<generation, decided, stopped, concluded>>
  BY DEF RunInv, Interrupted
<1>2. Elsewhere(t) /\ PassesStand(c)'
  BY <1>1, ElsewhereSet, DecidedStands DEF OwnAttempt
<1>3. Held(c, t)' /\ Agrees(c, t)'
  <2>1. Agrees(c, t)
    BY DEF Work, WorksOn, At
  <2>2. QED
    BY <1>1, <2>1 DEF Held, Agrees, Turn, Holding
<1>4. \A b \in DOMAIN attempts' : attempts'[b].task = t => Ended(b)'
  BY EndedHeld DEF Turn
<1>5. QED
  BY <1>2, <1>3, <1>4, ThreadWork

\* A thread in a step on its attempt: the attempt is its own, and is kept.
LEMMA StartIsOwn ==
    ASSUME RunInv, OwnerInv, NEW c \in Coordinators, NEW t \in Tasks, NEW a,
           a = thread[c][t].attempt, thread[c][t].st \in Holding, NEW g, Started(a, g)
    PROVE  /\ OwnAttempt(c, t, a) /\ Elsewhere(t)
           /\ attempts'[a].end = attempts[a].end /\ attempts'[a].started
<1>1. JournalInv /\ JournalTypeOK /\ a \in DOMAIN attempts /\ attempts[a].task = t
  BY DEF RunInv, JournalInv, OwnerInv, ThreadsRun, HeldOwn, Known
<1>2. attempts' = [attempts EXCEPT ![a].started = TRUE]
      /\ UNCHANGED <<generation, decided, stopped, concluded>>
  BY DEF Started
<1>3. KeptAttempts(a) /\ attempts'[a].end = attempts[a].end
  BY <1>1, <1>2, SetStarted
<1>4. attempts'[a].started
  <2>1. attempts \in Seq(Attempt) /\ attempts[a] \in Attempt
    BY <1>1, AttemptFields, ElementOfSeq DEF JournalTypeOK
  <2>2. QED
    BY <1>1, <1>2, <2>1, SetAttempt DEF Attempt
<1>5. QED
  BY <1>1, <1>2, <1>3, <1>4, ElsewhereSet DEF OwnAttempt

LEMMA FinishIsOwn ==
    ASSUME RunInv, OwnerInv, NEW c \in Coordinators, NEW t \in Tasks, NEW a,
           a = thread[c][t].attempt, thread[c][t].st \in Holding, NEW g, NEW x, NEW o,
           Finished(a, g, x, o)
    PROVE  OwnAttempt(c, t, a) /\ Elsewhere(t) /\ attempts'[a].end = o
<1>1. /\ attempts' = [attempts EXCEPT ![a].end = o] /\ o \in Ends
      /\ UNCHANGED <<generation, stopped, concluded>> /\ ~Ended(a)
      /\ decided' = [decided EXCEPT ![attempts[a].task] =
                        [outcome |-> o, attempt |-> a, generation |-> g]]
  BY DEF Finished, AcceptsFinished, Ends
<1>2. OwnAttempt(c, t, a) /\ attempts'[a].end = o
  <2>1. JournalTypeOK /\ a \in DOMAIN attempts /\ attempts[a].task = t
    BY DEF RunInv, JournalInv, OwnerInv, ThreadsRun, HeldOwn, Known
  <2>2. KeptAttempts(a) /\ attempts'[a].end = o
    BY <1>1, <2>1, SetEnd
  <2>3. QED
    BY <2>1, <2>2 DEF OwnAttempt
<1>3. \E d : decided' = [decided EXCEPT ![t] = d]
  BY <1>1, <1>2 DEF OwnAttempt
<1>4. QED
  BY <1>1, <1>2, <1>3, ElsewhereSet DEF OwnAttempt, RunInv

LEMMA InterruptIsOwn ==
    ASSUME RunInv, OwnerInv, NEW c \in Coordinators, NEW t \in Tasks, NEW a,
           a = thread[c][t].attempt, thread[c][t].st \in Holding, NEW g, Interrupted(a, g)
    PROVE  OwnAttempt(c, t, a) /\ Elsewhere(t) /\ attempts'[a].end = "interrupted"
<1>1. /\ attempts' = [attempts EXCEPT ![a].end = "interrupted"] /\ "interrupted" \in Ends
      /\ UNCHANGED <<generation, decided, stopped, concluded>>
  BY DEF Interrupted, Ends
<1>2. OwnAttempt(c, t, a) /\ attempts'[a].end = "interrupted"
  <2>1. JournalTypeOK /\ a \in DOMAIN attempts /\ attempts[a].task = t
    BY DEF RunInv, JournalInv, OwnerInv, ThreadsRun, HeldOwn, Known
  <2>2. KeptAttempts(a) /\ attempts'[a].end = "interrupted"
    BY <1>1, <2>1, SetEnd
  <2>3. QED
    BY <2>1, <2>2 DEF OwnAttempt
<1>3. QED
  BY <1>1, <1>2, ElsewhereSet DEF OwnAttempt, RunInv

\* A thread that fails, whether its fact was recorded or not.
LEMMA FailingWork ==
    ASSUME RunInv, OwnerInv, NEW c \in Coordinators, NEW t \in Tasks, Work(c),
           WorksOn(c, t), NEW accepts, NEW fact, ThreadFails(c, t, accepts, fact),
           fact => Elsewhere(t)
    PROVE  Work(c)'
<1>1. Elsewhere(t)
  BY ElsewhereQuiet DEF ThreadFails, NotRecorded, Recorded
<1>2. CoOK
  BY TypeParts DEF RunInv
<1>3. QED
  BY <1>1, <1>2, FailsFields, FailedWork

LEMMA DispatchWork ==
    ASSUME RunInv, OwnerInv, NEW c \in Coordinators, NEW t \in Tasks, Work(c), Dispatch(c, t)
    PROVE  Work(c)'
<1>1. CoOK /\ JournalTypeOK /\ WorksOn(c, t) /\ thread[c][t].st = "ready"
  BY TypeParts, ThreadEffect DEF RunInv, JournalInv, ThreadStep, Dispatch, Running
<1>2. CASE ThreadFails(c, t, AcceptsDispatched(t, co[c].generation, lineage[t]),
                       Dispatched(t, co[c].generation, lineage[t]))
  BY <1>1, <1>2, ElsewhereOpened, FailingWork
<1>3. CASE /\ Dispatched(t, co[c].generation, lineage[t])
           /\ thread' = [thread EXCEPT ![c][t].st = "dispatched",
                                       ![c][t].attempt = Len(attempts) + 1]
           /\ UNCHANGED co
  <2>1. /\ thread'[c][t].st = "dispatched"
        /\ thread'[c][t].attempt = Len(attempts) + 1
        /\ \A u \in Tasks : u # t => thread'[c][u] = thread[c][u]
        /\ \A d \in Coordinators : d # c => thread'[d] = thread[d]
    BY <1>1, <1>3, DispatchedFields
  <2>2. QED
    BY <1>1, <1>3, <2>1, DispatchedWork DEF Turn
<1>4. QED
  BY <1>2, <1>3 DEF Dispatch, Recorded

LEMMA LaunchWork ==
    ASSUME RunInv, OwnerInv, NEW c \in Coordinators, NEW t \in Tasks, Work(c), Launch(c, t)
    PROVE  Work(c)'
<1>1. CoOK /\ WorksOn(c, t) /\ thread[c][t].st = "dispatched" /\ UNCHANGED <<journal, co>>
  BY TypeParts, ThreadEffect DEF RunInv, ThreadStep, Launch, Running
<1>2. CASE Stepped(c, t, "failed")
  BY <1>1, <1>2, SteppedFields, ElsewhereQuiet, FailedWork DEF KeepsPlan, KeepsPasses
<1>3. CASE Stepped(c, t, "spawned")
  BY <1>1, <1>3, SteppedFields, GoingWork DEF Turn
<1>4. CASE thread' = [thread EXCEPT ![c][t].st = "judged", ![c][t].outcome = "errored"]
  <2> DEFINE o == "errored"
  <2>1. /\ thread'[c][t].st = "judged"
        /\ thread'[c][t].outcome = o
        /\ thread'[c][t].attempt = thread[c][t].attempt
        /\ thread'[c][t].at = thread[c][t].at
        /\ \A u \in Tasks : u # t => thread'[c][u] = thread[c][u]
        /\ \A d \in Coordinators : d # c => thread'[d] = thread[d]
    BY <1>1, <1>4, JudgedFields
  <2>2. QED
    BY <1>1, <2>1, GoingWork DEF Turn
<1>5. QED
  BY <1>2, <1>3, <1>4 DEF Launch

LEMMA RecordStartWork ==
    ASSUME RunInv, OwnerInv, NEW c \in Coordinators, NEW t \in Tasks, Work(c), RecordStart(c, t)
    PROVE  Work(c)'
<1>1. PICK a : a = thread[c][t].attempt
  OBVIOUS
<1>2. CoOK /\ WorksOn(c, t) /\ thread[c][t].st = "spawned"
  BY TypeParts, ThreadEffect DEF RunInv, ThreadStep, RecordStart, Running
<1>3. CASE ThreadFails(c, t, AcceptsStarted(a, co[c].generation), Started(a, co[c].generation))
  <2>1. Started(a, co[c].generation) => Elsewhere(t)
    BY <1>1, <1>2, StartIsOwn DEF Holding
  <2>2. QED
    BY <1>2, <1>3, <2>1, FailingWork
<1>4. CASE Started(a, co[c].generation) /\ Stepped(c, t, "running") /\ UNCHANGED co
  BY <1>1, <1>2, <1>4, StartIsOwn, SteppedFields, StartedWork DEF Turn, Holding
<1>5. QED
  BY <1>1, <1>3, <1>4 DEF RecordStart, Recorded

LEMMA JudgeWork ==
    ASSUME RunInv, OwnerInv, NEW c \in Coordinators, NEW t \in Tasks, Work(c),
           Observe(c, t) \/ Judge(c, t)
    PROVE  Work(c)'
<1>1. CoOK /\ WorksOn(c, t) /\ UNCHANGED <<journal, co>>
  BY TypeParts, ThreadEffect DEF RunInv, ThreadStep, Observe, Judge
<1>2. CASE Observe(c, t)
  <2>1. /\ thread'[c][t].st = "exited"
        /\ thread'[c][t].attempt = thread[c][t].attempt
        /\ thread'[c][t].outcome = thread[c][t].outcome
        /\ \A u \in Tasks : u # t => thread'[c][u] = thread[c][u]
        /\ \A d \in Coordinators : d # c => thread'[d] = thread[d]
    BY <1>1, <1>2, ObservedFields DEF Observe
  <2>2. QED
    BY <1>1, <1>2, <2>1, GoingWork DEF Turn, Observe, Running
<1>3. CASE Judge(c, t)
  <2>1. thread[c][t].st = "exited"
    BY <1>3 DEF Judge, Running
  <2>2. CASE Stepped(c, t, "stopping")
    BY <1>1, <2>1, <2>2, SteppedFields, GoingWork DEF Turn
  <2>3. ASSUME NEW o, thread' = [thread EXCEPT ![c][t].st = "judged", ![c][t].outcome = o]
        PROVE  Work(c)'
    <3>1. /\ thread'[c][t].st = "judged"
          /\ thread'[c][t].outcome = o
          /\ thread'[c][t].attempt = thread[c][t].attempt
          /\ thread'[c][t].at = thread[c][t].at
          /\ \A u \in Tasks : u # t => thread'[c][u] = thread[c][u]
          /\ \A d \in Coordinators : d # c => thread'[d] = thread[d]
      BY <1>1, <2>3, JudgedFields
    <3>2. QED
      BY <1>1, <2>1, <3>1, GoingWork DEF Turn
  <2>4. QED
    BY <1>3, <2>2, <2>3 DEF Judge
<1>4. QED
  BY <1>2, <1>3

LEMMA RecordFinishWork ==
    ASSUME RunInv, OwnerInv, NEW c \in Coordinators, NEW t \in Tasks, Work(c), InForce(c),
           RecordFinish(c, t)
    PROVE  Work(c)'
<1>1. PICK a : a = thread[c][t].attempt
  OBVIOUS
<1>2. PICK o : o = thread[c][t].outcome
  OBVIOUS
<1>3. PICK x : x = (proc[a] = "exit0")
  OBVIOUS
<1>4. PICK n : n = thread[c][t].at
  OBVIOUS
<1>5. CoOK /\ WorksOn(c, t) /\ thread[c][t].st = "judged" /\ co[c].generation = generation
  <2>1. CoOK
    BY TypeParts DEF RunInv
  <2>2. WorksOn(c, t)
    BY ThreadEffect DEF ThreadStep
  <2>3. QED
    BY <2>1, <2>2 DEF RecordFinish, Running, InForce
<1>6. CASE ThreadFails(c, t, AcceptsFinished(a, co[c].generation, x, o),
                       Finished(a, co[c].generation, x, o))
  <2>1. thread[c][t].st \in Holding
    BY <1>5 DEF Holding
  <2>2. PICK g : g = co[c].generation
    OBVIOUS
  <2>3. Finished(a, g, x, o) => Elsewhere(t)
    BY <1>1, <2>1, FinishIsOwn
  <2>4. ThreadFails(c, t, AcceptsFinished(a, g, x, o), Finished(a, g, x, o))
    BY <1>6, <2>2
  <2>5. QED
    BY <1>5, <2>3, <2>4, FailingWork
<1>7. CASE /\ Finished(a, co[c].generation, x, o)
           /\ Stepped(c, t, "done")
           /\ co' = IF o = "passed"
                    THEN [co EXCEPT ![c].passes =
                             Append(@, [task |-> t, attempt |-> a, at |-> n])]
                    ELSE co
  <2>1. OwnAttempt(c, t, a) /\ attempts'[a].end = o
    <3>1. HeldOwn(c, t) /\ thread[c][t].st \in Holding
      BY <1>5 DEF OwnerInv, ThreadsRun, Holding
    <3>2. a \in DOMAIN attempts /\ attempts[a].task = t
      BY <1>1, <3>1 DEF HeldOwn, Known
    <3>3. JournalTypeOK /\ attempts' = [attempts EXCEPT ![a].end = o] /\ o \in Ends
      BY <1>7 DEF RunInv, JournalInv, Finished, AcceptsFinished, Ends
    <3>4. KeptAttempts(a) /\ attempts'[a].end = o
      BY <3>2, <3>3, SetEnd
    <3>5. QED
      BY <1>1, <3>2, <3>4 DEF OwnAttempt
  <2>2. Turn(c, t, "judged", "done") /\ thread'[c][t].outcome = o
    <3>1. thread'[c][t].st = "done" /\ thread'[c][t].outcome = thread[c][t].outcome
      BY <1>5, <1>7, SteppedFields
    <3>2. QED
      BY <1>2, <1>5, <3>1 DEF Turn
  <2>3. /\ co'[c].decided = co[c].decided
        /\ co'[c].passes = IF o = "passed"
                           THEN Append(co[c].passes, [task |-> t, attempt |-> a, at |-> n])
                           ELSE co[c].passes
    <3>1. CASE o = "passed"
      <4>1. PICK p : p = [task |-> t, attempt |-> a, at |-> n]
        OBVIOUS
      <4>2. co' = [co EXCEPT ![c].passes = Append(@, p)]
        BY <1>7, <3>1, <4>1
      <4>3. co'[c].passes = Append(co[c].passes, p) /\ co'[c].decided = co[c].decided
        BY <1>5, <4>2, PassedFields DEF KeepsPlan
      <4>4. QED
        BY <3>1, <4>1, <4>3
    <3>2. CASE o # "passed"
      BY <1>7, <3>2
    <3>3. QED
      BY <3>1, <3>2
  <2>4. QED
    BY <1>5, <1>7, <2>1, <2>2, <2>3, FinishedWork
<1>8. QED
  BY <1>1, <1>2, <1>3, <1>4, <1>6, <1>7 DEF RecordFinish, Recorded

LEMMA RecordInterruptWork ==
    ASSUME RunInv, OwnerInv, NEW c \in Coordinators, NEW t \in Tasks, Work(c),
           RecordInterrupt(c, t)
    PROVE  Work(c)'
<1>1. PICK a : a = thread[c][t].attempt
  OBVIOUS
<1>2. CoOK /\ WorksOn(c, t) /\ thread[c][t].st = "stopping"
  BY TypeParts, ThreadEffect DEF RunInv, ThreadStep, RecordInterrupt, Running
<1>3. CASE ThreadFails(c, t, AcceptsInterrupted(a, co[c].generation),
                       Interrupted(a, co[c].generation))
  <2>1. Interrupted(a, co[c].generation) => Elsewhere(t)
    BY <1>1, <1>2, InterruptIsOwn DEF Holding
  <2>2. QED
    BY <1>2, <1>3, <2>1, FailingWork
<1>4. CASE Interrupted(a, co[c].generation) /\ Stepped(c, t, "interrupted") /\ UNCHANGED co
  BY <1>1, <1>2, <1>4, InterruptIsOwn, SteppedFields, InterruptedWork DEF Turn, Holding
<1>5. QED
  BY <1>1, <1>3, <1>4 DEF RecordInterrupt, Recorded

LEMMA ThreadKeepsWork ==
    ASSUME RunInv, OwnerInv, WorkInv, NEW c \in Coordinators, NEW t \in Tasks,
           ThreadStep(c, t), InForce(c)'
    PROVE  Work(c)'
<1>1. WorksOn(c, t) /\ UNCHANGED generation
  BY ThreadEffect, ThreadRecords
<1>2. InForce(c)
  BY <1>1 DEF WorksOn, InForce, Owns, At
<1>3. Work(c)
  BY <1>2 DEF WorkInv
<1>4. QED
  BY <1>2, <1>3, DispatchWork, LaunchWork, RecordStartWork, JudgeWork, RecordFinishWork,
     RecordInterruptWork DEF ThreadStep

\* What one coordinator does, its threads included.
Moves(c) ==
    \/ MainStep(c) \/ (\E t \in Tasks : ThreadStep(c, t))
    \/ Create(c) \/ (\E assume \in BOOLEAN : Reopen(c, assume)) \/ Decline(c)
    \/ Crash(c) \/ StopBegins(c) \/ HandlerRuns(c)

LEMMA OwnWork ==
    ASSUME RunInv, OwnerInv, WorkInv, NEW c \in Coordinators, Moves(c), InForce(c)'
    PROVE  Work(c)'
<1>1. CoOK
  BY TypeParts DEF RunInv
<1>2. CASE Create(c)
  <2>1. ~Gone(c)
    BY <1>1, GoneFields DEF InForce, Owns
  <2>2. QED
    BY <1>2, <2>1, CreateWork DEF WorkInv
<1>3. ASSUME NEW assume, Reopen(c, assume) PROVE Work(c)'
  BY <1>1, <1>3, ReopenFields DEF InForce, Owns
<1>4. QED
  BY <1>2, <1>3, MainWork, ThreadKeepsWork DEF Moves

\* A process that reopened a run has taken nothing over yet.
LEMMA ReopenedIdle ==
    ASSUME RunInv, WorkInv, NEW c \in Coordinators, Moves(c), At(c, "reopened")'
    PROVE  co'[c].passes = << >>
<1>1. CoOK
  BY TypeParts DEF RunInv
<1>2. ASSUME NEW assume, Reopen(c, assume) PROVE co'[c].passes = << >>
  <2> DEFINE s == {a \in OpenAttempts : GroupExists(a)}
  <2>1. co' = [co EXCEPT ![c] = [Unborn EXCEPT !.pc = "reopened", !.generation = generation,
                                               !.assumed = s]]
    BY <1>2 DEF Reopen
  <2> HIDE DEF s
  <2>2. QED
    BY <1>1, <2>1, BornFields
<1>3. CASE Create(c)
  BY <1>1, <1>3, GoneFields, BegunFields DEF Create, At
<1>4. ASSUME NEW t \in Tasks, ThreadStep(c, t) PROVE FALSE
  BY <1>4, ThreadEffect DEF WorksOn, At
<1>5. CASE MainStep(c) \/ Decline(c) \/ Crash(c) \/ StopBegins(c) \/ HandlerRuns(c)
  <2>1. ~Gone(c) /\ Walks(c)
    BY <1>1, <1>5, MainEffect, GoneFields DEF Leaves, At
  <2>2. At(c, "reopened")
    BY <2>1 DEF Walks, Owns, Off, At
  <2>3. CASE StopBegins(c) \/ HandlerRuns(c)
    BY <1>1, <2>2, <2>3, SignalFields DEF WorkInv, KeepsPasses
  <2>4. CASE TakeOver(c)
    <3>1. co' = [co EXCEPT ![c].generation = co[c].generation + 1, ![c].pc = "losing"]
      BY <2>1, <2>4 DEF TakeOver
    <3>2. co'[c].pc = "losing"
      BY <1>1, <3>1 DEF CoOK, CoState
    <3>3. QED
      BY <3>2 DEF At
  <2>5. QED
    BY <1>5, <2>1, <2>2, <2>3, <2>4 DEF MainStep, Detach, Received, RecordLost, TakenOver,
       StartLevel, Consider, StartThreads, Join, WaitOutWindow, BeginWithdraw, WithdrawNext,
       RecordStop, RecordConclusion, Decline, Crash, At
<1>6. QED
  BY <1>2, <1>3, <1>4, <1>5 DEF Moves

\* Nothing but a request comes first.
LEMMA UnrequestedStep ==
    ASSUME JournalInv, JournalStep, Unrequested
    PROVE  Unrequested'
<1> SUFFICES ASSUME generation' = 0 PROVE UNCHANGED journal
  BY DEF Unrequested, IsDecided, journal
<1>1. generation = 0
  BY JournalGrows DEF JournalInv, JournalTypeOK
<1>2. QED
  BY <1>1 DEF JournalStep, JournalNext, Requested, Resumed, AcceptsResumed, Stopped, AcceptsStopped,
     Concluded, AcceptsConcluded, Dispatched, AcceptsDispatched, Reused, AcceptsReused, Settled,
     AcceptsSettled, Withdrawn, AcceptsWithdrawn, Started, AcceptsStarted, Finished,
     AcceptsFinished, Interrupted, AcceptsInterrupted, Lost, AcceptsLost, Current

LEMMA MovesWork ==
    ASSUME RunInv, OwnerInv, WorkInv, JournalStep, NEW c \in Coordinators, Moves(c)
    PROVE  WorkInv'
<1>1. OthersStand(c)
  BY OthersLeft DEF Moves
<1>2. RecordedBy(c)
  BY MainRecords, ThreadRecords DEF Moves
<1>3. ASSUME NEW d \in Coordinators, InForce(d)' PROVE Work(d)'
  <2>1. CASE d = c
    BY <1>3, <2>1, OwnWork
  <2>2. CASE d # c
    <3>1. UNCHANGED journal
      BY <1>1, <1>2, <1>3, <2>2, OthersRecordNothing
    <3>2. WorkStands(d)
      BY <1>1, <2>2, <3>1 DEF WorkStands, OthersStand
    <3>3. QED
      BY <1>3, <3>2, WorkLeft DEF WorkInv
  <2>3. QED
    BY <2>1, <2>2
<1>4. ASSUME NEW d \in Coordinators, At(d, "reopened")' PROVE co'[d].passes = << >>
  BY <1>1, <1>4, ReopenedIdle DEF OthersStand, WorkInv, At
<1>5. Unrequested'
  BY UnrequestedStep DEF RunInv, WorkInv
<1>6. QED
  BY <1>3, <1>4, <1>5 DEF WorkInv

LEMMA WorkInit == Init => WorkInv
<1> SUFFICES ASSUME Init PROVE WorkInv
  OBVIOUS
<1>1. \A c \in Coordinators : co[c].pc = "unborn"
  BY DEF Init, Unborn
<1>2. Unrequested
  BY DEF Init, JournalInit, Undecided, Unrequested, IsDecided
<1>3. QED
  BY <1>1, <1>2 DEF WorkInv, InForce, Owns, At

LEMMA WorkNext == RunInv /\ OwnerInv /\ WorkInv /\ [Next]_vars => WorkInv'
<1> SUFFICES ASSUME RunInv, OwnerInv, WorkInv, [Next]_vars PROVE WorkInv'
  OBVIOUS
<1>1. CASE UNCHANGED <<journal, co, thread>>
  <2>1. \A c \in Coordinators : WorkStands(c)
    BY <1>1 DEF WorkStands
  <2>2. \A c \in Coordinators : (InForce(c) => Work(c))'
    BY <2>1, WorkLeft DEF WorkInv
  <2>3. Unrequested' /\ \A c \in Coordinators : At(c, "reopened")' => co'[c].passes = << >>
    BY <1>1 DEF WorkInv, Unrequested, IsDecided, journal, At
  <2>4. QED
    BY <2>2, <2>3 DEF WorkInv
<1>2. ASSUME NEW c \in Coordinators, Moves(c), Next PROVE WorkInv'
  BY <1>2, RunStep, MovesWork
<1>3. QED
  BY <1>1, <1>2 DEF Next, Environment, Moves, LoseLease, ProcExit, CloseLease, vars

-----------------------------------------------------------------------------
(***************************************************************************)
(* Why a task is blocked.  A failure is never taken back: only passes are  *)
(* withdrawn.  And a coordinator blocks a task while it goes through a     *)
(* level, when every task of the levels before is decided, in the journal  *)
(* as in its own mind.                                                     *)
(***************************************************************************)
Bad == {"failed", "errored", "blocked"}

LEMMA FailureStands ==
    ASSUME JournalInv, JournalStep, NEW t \in Tasks, decided[t].outcome \in Bad
    PROVE  decided'[t] = decided[t]
<1>1. decided \in [Tasks -> Decision] /\ IsDecided(t)
  BY DEF JournalInv, JournalTypeOK, Bad, IsDecided
<1>2. CASE UNCHANGED decided
  BY <1>2
<1>3. ASSUME NEW u \in Tasks, NEW d, decided' = [decided EXCEPT ![u] = d], ~IsDecided(u)
      PROVE  decided'[t] = decided[t]
  BY <1>1, <1>3
<1>4. ASSUME NEW g, NEW a \in AttemptIds, NEW x, NEW o, Finished(a, g, x, o)
      PROVE  decided'[t] = decided[t]
  <2>1. a \in DOMAIN attempts /\ ~Ended(a)
    BY <1>4 DEF Finished, AcceptsFinished, Known
  <2>2. attempts[a].task \in Tasks /\ ~IsDecided(attempts[a].task)
    BY <2>1, AttemptFields DEF JournalInv, RetryAfterEnd
  <2>3. QED
    BY <1>3, <1>4, <2>2 DEF Finished
<1>5. ASSUME NEW g, NEW a, NEW u \in Tasks, Withdrawn(u, a, g)
      PROVE  decided'[t] = decided[t]
  <2>1. decided[u].outcome \in {"passed", "cached"}
    BY <1>5 DEF Withdrawn, AcceptsWithdrawn, JournalInv, DecisionHasEvidence
  <2>2. u # t /\ decided' = [decided EXCEPT ![u] = Undecided]
    BY <1>5, <2>1 DEF Bad, Withdrawn
  <2>3. QED
    BY <1>1, <2>2
<1>6. ASSUME NEW g, NEW u \in Tasks, Reused(u, g) \/ \E o : Settled(u, g, o)
      PROVE  decided'[t] = decided[t]
  BY <1>3, <1>6 DEF Reused, AcceptsReused, Settled, AcceptsSettled, UndecidedTask
<1>7. ASSUME NEW g,
             \/ Requested \/ Resumed(g) \/ Stopped(g) \/ (\E o : Concluded(g, o))
             \/ (\E u, s : Dispatched(u, g, s))
             \/ (\E a : Started(a, g) \/ Interrupted(a, g) \/ \E r : Lost(a, g, r))
      PROVE  UNCHANGED decided
  BY <1>7 DEF Requested, Resumed, Stopped, Concluded, Dispatched, Started, Interrupted, Lost
<1>8. QED
  BY <1>2, <1>4, <1>5, <1>6, <1>7 DEF JournalStep, JournalNext, journal

\* No task becomes blocked.
NoneBlocked ==
    \A t \in Tasks : decided'[t].outcome = "blocked" => decided[t].outcome = "blocked"

LEMMA FinishBlocksNone ==
    ASSUME JournalInv, NEW a, NEW g, NEW x, NEW o, Finished(a, g, x, o)
    PROVE  NoneBlocked
<1>1. decided \in [Tasks -> Decision] /\ a \in DOMAIN attempts /\ o # "blocked"
  BY DEF JournalInv, JournalTypeOK, Finished, AcceptsFinished, Known, FinishedEnds
<1>2. attempts[a].task \in Tasks
  BY <1>1, AttemptFields DEF JournalInv
<1>3. decided' = [decided EXCEPT ![attempts[a].task] =
                     [outcome |-> o, attempt |-> a, generation |-> g]]
  BY DEF Finished
<1>4. QED
  BY <1>1, <1>2, <1>3 DEF NoneBlocked

LEMMA TaskBlocksNone ==
    ASSUME JournalInv, NEW t \in Tasks, NEW a, NEW g,
           Reused(t, g) \/ Settled(t, g, "errored") \/ Withdrawn(t, a, g)
    PROVE  NoneBlocked
<1>1. decided \in [Tasks -> Decision]
  BY DEF JournalInv, JournalTypeOK
<1>2. ASSUME NEW d, decided' = [decided EXCEPT ![t] = d], d.outcome # "blocked"
      PROVE  NoneBlocked
  BY <1>1, <1>2 DEF NoneBlocked
<1>3. CASE Reused(t, g)
  <2> DEFINE d == [outcome |-> "cached", attempt |-> 0, generation |-> g]
  <2>1. decided' = [decided EXCEPT ![t] = d] /\ d.outcome # "blocked"
    BY <1>3 DEF Reused
  <2> HIDE DEF d
  <2>2. QED
    BY <1>2, <2>1
<1>4. CASE Settled(t, g, "errored")
  <2> DEFINE d == [outcome |-> "errored", attempt |-> 0, generation |-> g]
  <2>1. decided' = [decided EXCEPT ![t] = d] /\ d.outcome # "blocked"
    BY <1>4 DEF Settled
  <2> HIDE DEF d
  <2>2. QED
    BY <1>2, <2>1
<1>5. CASE Withdrawn(t, a, g)
  <2>1. decided' = [decided EXCEPT ![t] = Undecided] /\ Undecided.outcome # "blocked"
    BY <1>5 DEF Withdrawn, Undecided
  <2>2. QED
    BY <1>2, <2>1
<1>6. QED
  BY <1>3, <1>4, <1>5

LEMMA ThreadBlocksNone ==
    ASSUME RunInv, NEW c \in Coordinators, NEW t \in Tasks, ThreadStep(c, t)
    PROVE  NoneBlocked
<1>1. CASE UNCHANGED decided
  BY <1>1 DEF NoneBlocked
<1>2. CASE Dispatch(c, t) \/ Launch(c, t) \/ RecordStart(c, t) \/ Observe(c, t) \/ Judge(c, t)
           \/ RecordInterrupt(c, t)
  BY <1>1, <1>2 DEF Dispatch, Launch, RecordStart, Observe, Judge, RecordInterrupt, ThreadFails,
     Recorded, NotRecorded, Dispatched, Started, Interrupted, journal
<1>3. CASE RecordFinish(c, t)
  BY <1>1, <1>3, FinishBlocksNone DEF RecordFinish, ThreadFails, Recorded, NotRecorded, journal,
     RunInv
<1>4. QED
  BY <1>2, <1>3 DEF ThreadStep

LEMMA MainBlocksNone ==
    ASSUME RunInv, NEW c \in Coordinators, Moves(c), ~Consider(c)
    PROVE  NoneBlocked
<1>1. CASE UNCHANGED decided
  BY <1>1 DEF NoneBlocked
<1>2. CASE Detach(c) \/ Received(c) \/ TakeOver(c) \/ TakenOver(c) \/ StartLevel(c)
           \/ StartThreads(c) \/ Join(c) \/ WaitOutWindow(c) \/ BeginWithdraw(c)
           \/ RecordStop(c) \/ RecordConclusion(c) \/ Create(c) \/ Decline(c) \/ Crash(c)
           \/ StopBegins(c) \/ HandlerRuns(c) \/ (\E assume \in BOOLEAN : Reopen(c, assume))
           \/ (\E a \in AttemptIds : RecordLost(c, a))
  <2>1. UNCHANGED decided
    BY <1>2 DEF Detach, Received, NotStarted, TakeOver, TakenOver, StartLevel, StartThreads, Join,
       WaitOutWindow, BeginWithdraw, RecordStop, RecordConclusion, Create, Decline, Crash,
       StopBegins, HandlerRuns, Reopen, RecordLost, Recorded, NotRecorded, Stopped, Resumed,
       Concluded, Requested, Lost, journal
  <2>2. QED
    BY <1>1, <2>1
<1>3. CASE WithdrawNext(c)
  <2>1. PICK p : p = Head(co[c].passes)
    OBVIOUS
  <2>2. CASE UNCHANGED journal
    BY <1>1, <2>2 DEF journal
  <2>3. CASE Withdrawn(p.task, p.attempt, co[c].generation)
    <3>1. p.task \in Tasks
      <4>1. co[c].passes \in Seq(Pass) /\ co[c].passes # << >>
        BY <1>3, TypeParts DEF RunInv, CoOK, CoState, WithdrawNext
      <4>2. p \in Pass
        BY <2>1, <4>1
      <4>3. QED
        BY <4>2 DEF Pass
    <3>2. QED
      BY <2>3, <3>1, TaskBlocksNone DEF RunInv
  <2>4. QED
    BY <1>3, <2>1, <2>2, <2>3 DEF WithdrawNext, Recorded, NotRecorded
<1>4. QED
  BY <1>2, <1>3, ThreadBlocksNone DEF Moves, MainStep

\* What a coordinator blocks depends on a task that is decided and did not pass.
LEMMA BlockedByDecided ==
    ASSUME RunInv, OwnerInv, PlanInv, WorkInv, NEW c \in Coordinators, At(c, "consider"),
           ~Fenced(c), co[c].pos <= Len(Levels[co[c].level]), DependencyFailed(c, Considered(c))
    PROVE  \E d \in After[Considered(c)] : decided[d].outcome \in Bad
<1>1. CoOK /\ Work(c) /\ Progress(c)
  BY TypeParts DEF RunInv, WorkInv, InForce, Owns, Fenced, PlanInv, PlanOf, At
<1>2. PICK t : t = Considered(c)
  OBVIOUS
<1>3. PICK n : n = co[c].level
  OBVIOUS
<1>4. n \in DOMAIN Levels /\ t \in LevelTasks(n) /\ t \in Tasks
  BY <1>1, <1>2, <1>3, ConsideredIsTask DEF Considered, LevelTasks
<1>5. After[t] \subseteq LevelsUpTo(n - 1) /\ After[t] \subseteq Tasks
  BY <1>4, GraphAssumption DEF LevelsUpTo
<1>6. PICK d \in After[t] : co[c].decided[d] \notin {"passed", "cached"}
  BY <1>2 DEF DependencyFailed
<1>7. d \in Tasks /\ DecidedHere(c, d)
  BY <1>1, <1>3, <1>5 DEF Progress, At
<1>8. co[c].decided[d] \in Bad
  <2>1. co[c].decided \in [Tasks -> Outcomes \cup {"none"}]
    BY <1>1 DEF CoOK, CoState
  <2>2. QED
    BY <1>6, <1>7, <2>1 DEF Outcomes, DecidedHere, Bad
<1>9. decided[d].outcome = co[c].decided[d]
  <2>1. Agrees(c, d)
    BY <1>1, <1>7 DEF Work, At
  <2>2. thread[c][d].st \in {"none", "ready"}
    BY <1>7 DEF OwnerInv, ThreadsRun, At
  <2>3. QED
    BY <2>1, <2>2 DEF Agrees
<1>10. QED
  BY <1>2, <1>6, <1>8, <1>9

LEMMA ConsiderBlocked ==
    ASSUME RunInv, OwnerInv, PlanInv, WorkInv, JournalStep, BlockedByFailure,
           NEW c \in Coordinators, Consider(c)
    PROVE  BlockedByFailure'
<1> SUFFICES ASSUME NEW t \in Tasks, decided'[t].outcome = "blocked"
             PROVE  \E d \in After[t] : decided'[d].outcome \in Bad
  BY DEF BlockedByFailure, Bad
<1>1. \A d \in After[t] : d \in Tasks /\ (decided[d].outcome \in Bad => decided'[d] = decided[d])
  BY FailureStands, GraphAssumption DEF RunInv
<1>2. CASE decided[t].outcome = "blocked"
  BY <1>1, <1>2 DEF BlockedByFailure, Bad
<1>3. CASE decided[t].outcome # "blocked"
  <2>1. PICK u : u = Considered(c)
    OBVIOUS
  <2>2. At(c, "consider") /\ co[c].pos <= Len(Levels[co[c].level]) /\ u \in Tasks
    BY <2>1, TypeParts, ConsideredIsTask DEF Consider, RunInv
  <2>3. ~NoneBlocked
    BY <1>3 DEF NoneBlocked
  <2>4. ~Fenced(c) /\ Settled(u, co[c].generation, "blocked") /\ DependencyFailed(c, u)
    <3>1. ~UNCHANGED decided
      BY <1>3
    <3>2. ~Reused(u, co[c].generation) /\ ~Settled(u, co[c].generation, "errored")
      BY <2>2, <2>3, TaskBlocksNone DEF RunInv
    <3>3. QED
      BY <2>1, <3>1, <3>2 DEF Consider, Considered, SettleAs, Reuse, Recorded, NotRecorded, journal
  <2>5. u = t
    <3>1. decided' = [decided EXCEPT ![u] = [outcome |-> "blocked", attempt |-> 0,
                                             generation |-> co[c].generation]]
      BY <2>4 DEF Settled
    <3>2. QED
      BY <1>3, <2>2, <3>1 DEF RunInv, JournalInv, JournalTypeOK
  <2>6. QED
    BY <1>1, <2>1, <2>2, <2>4, <2>5, BlockedByDecided
<1>4. QED
  BY <1>2, <1>3

LEMMA BlockedNext ==
    RunInv /\ OwnerInv /\ PlanInv /\ WorkInv /\ BlockedByFailure /\ [Next]_vars => BlockedByFailure'
<1> SUFFICES ASSUME RunInv, OwnerInv, PlanInv, WorkInv, BlockedByFailure, [Next]_vars
             PROVE  BlockedByFailure'
  OBVIOUS
<1>1. CASE UNCHANGED journal
  BY <1>1 DEF BlockedByFailure, journal
<1>2. ASSUME NEW c \in Coordinators, Moves(c), Next PROVE BlockedByFailure'
  <2>1. JournalStep
    BY <1>2, RunStep
  <2>2. CASE Consider(c)
    BY <2>1, <2>2, ConsiderBlocked
  <2>3. CASE ~Consider(c)
    <3>1. NoneBlocked
      BY <1>2, <2>3, MainBlocksNone
    <3>2. \A t \in Tasks : decided[t].outcome \in Bad => decided'[t] = decided[t]
      BY <2>1, FailureStands DEF RunInv
    <3>3. \A t \in Tasks : After[t] \subseteq Tasks
      BY GraphAssumption
    <3>4. QED
      BY <3>1, <3>2, <3>3 DEF NoneBlocked, BlockedByFailure, Bad
  <2>4. QED
    BY <2>2, <2>3
<1>3. QED
  BY <1>1, <1>2 DEF Next, Environment, Moves, LoseLease, ProcExit, CloseLease, vars

\* BlockedByFailure: whatever befalls its coordinators, a task of the run is
\* blocked only by one that was decided and did not pass, never by one that a
\* stop or a crash left undecided.
THEOREM BlockedRestsOnFailure == Spec => []BlockedByFailure
<1>1. Init => BlockedByFailure
  BY DEF Init, JournalInit, Undecided, BlockedByFailure
<1>2. QED
  BY <1>1, RunInit, RunNext, OwnerInit, OwnerNext, PlanInit, PlanNext, WorkInit, WorkNext,
     BlockedNext, PTL DEF Spec

-----------------------------------------------------------------------------
(***************************************************************************)
(* The status.                                                             *)
(***************************************************************************)
\* The run goes on, or the reader looks.
LEMMA StatusStep == [StatusNext]_statusVars => [Next]_vars
  BY DEF StatusNext, ReaderStep, LoadJournal, LookAtLease, LookAtAttempt, Answer, AskAgain,
     statusVars

LEMMA StatusStart == StatusInit => Init
  BY DEF StatusInit

-----------------------------------------------------------------------------
\* What the reader loaded is a journal the run had, and so a part of the one
\* it has.
SeenIsPast ==
    /\ reader = "idle" => seen.attempts = << >>
    /\ reader # "idle" => seen.generation \in 1 .. generation
    /\ \A a \in DOMAIN seen.attempts :
        /\ a \in DOMAIN attempts
        /\ seen.attempts[a].started => attempts[a].started
    /\ DOMAIN shown \subseteq DOMAIN seen.attempts

NoThreadHas(a) ==
    \A c \in Coordinators, t \in Tasks :
        thread[c][t].st \in Holding => thread[c][t].attempt # a

\* An attempt called lost is in no thread, which alone could start it.
LostIsFree ==
    \A a \in DOMAIN shown : shown[a] = "lost" =>
        /\ NoThreadHas(a)
        /\ proc[a] = "alive" => a \in closed /\ ~seen.attempts[a].started

\* No owner is left in generation g.
NoOwnerIn(g) == \A c \in Coordinators : Owns(c) => co[c].generation # g

\* A lease found free: while the generation is the one that was read, nobody
\* owns it.
FreeIsLeft ==
    reader \in {"looking", "answered"} /\ ~live /\ generation = seen.generation =>
        NoOwnerIn(generation)

-----------------------------------------------------------------------------
\* The journal only grows under the reader.
LEMMA RunGrows ==
    ASSUME RunInv, [JournalNext]_journal
    PROVE  /\ \A a \in DOMAIN attempts :
                /\ a \in DOMAIN attempts'
                /\ attempts[a].started => attempts'[a].started
           /\ generation \in Nat /\ generation' \in Nat /\ generation <= generation'
  BY JournalGrows DEF RunInv, JournalInv, JournalTypeOK, JournalStep

LEMMA PastNext ==
    RunInv /\ [JournalNext]_journal /\ SeenIsPast /\ [StatusNext]_statusVars => SeenIsPast'
<1> SUFFICES ASSUME RunInv, [JournalNext]_journal, SeenIsPast, [StatusNext]_statusVars
             PROVE  SeenIsPast'
  OBVIOUS
<1>1. CASE UNCHANGED <<reader, seen, shown>>
  BY <1>1, RunGrows DEF SeenIsPast
<1>2. CASE LoadJournal
  BY <1>2, RunGrows DEF LoadJournal, SeenIsPast, vars, journal
<1>3. CASE LookAtLease \/ Answer
  BY <1>3 DEF LookAtLease, Answer, SeenIsPast, vars, journal
<1>4. ASSUME NEW a \in AttemptIds, LookAtAttempt(a) PROVE SeenIsPast'
  BY <1>4 DEF LookAtAttempt, SeenIsPast, SeenOpen, vars, journal
<1>5. CASE AskAgain
  BY <1>5 DEF AskAgain, SeenIsPast, NothingSeen
<1>6. QED
  BY <1>1, <1>2, <1>3, <1>4, <1>5 DEF StatusNext, ReaderStep, statusVars

-----------------------------------------------------------------------------
\* An attempt that no thread has is never started, and none takes it up.
StaysFree(a) ==
    /\ NoThreadHas(a)'
    /\ proc'[a] = "alive" => proc[a] = "alive"
    /\ a \in closed => a \in closed'

LEMMA MainLeavesFree ==
    ASSUME RunInv, NEW c \in Coordinators, NEW a, NoThreadHas(a),
           \/ MainStep(c) \/ Decline(c) \/ Crash(c) \/ StopBegins(c) \/ HandlerRuns(c)
           \/ Create(c) \/ (\E assume \in BOOLEAN : Reopen(c, assume)) \/ LoseLease(c)
    PROVE  StaysFree(a)
<1>1. CASE Walks(c)
  BY <1>1 DEF Walks, OthersStand, NoThreadHas, StaysFree, world, Holding
<1>2. CASE Gone(c) /\ UNCHANGED world
  <2>1. OthersStand(c) /\ \A t \in Tasks : thread'[c][t].st = "none"
    BY <1>2, TypeParts, GoneFields DEF RunInv
  <2>2. QED
    BY <1>2, <2>1 DEF OthersStand, NoThreadHas, StaysFree, world, Holding
<1>3. CASE UNCHANGED <<thread, world>>
  BY <1>3 DEF NoThreadHas, StaysFree, world
<1>4. CASE MainStep(c) \/ Decline(c) \/ Crash(c) \/ StopBegins(c) \/ HandlerRuns(c)
  BY <1>1, <1>2, <1>4, MainEffect DEF Leaves
<1>5. QED
  BY <1>2, <1>3, <1>4 DEF Create, Reopen, LoseLease

LEMMA ThreadLeavesFree ==
    ASSUME RunInv, OwnerInv, NEW c \in Coordinators, NEW t \in Tasks, ThreadStep(c, t),
           NEW a \in DOMAIN attempts, NoThreadHas(a)
    PROVE  StaysFree(a)
<1>1. CoOK /\ JournalTypeOK /\ WorksOn(c, t)
  BY TypeParts, ThreadEffect DEF RunInv, JournalInv
<1>2. thread'[c][t].st \in Holding => thread'[c][t].attempt # a
  <2>1. CASE GoesOn(c, t)
    BY <2>1 DEF GoesOn, NoThreadHas
  <2>2. CASE Opens(c, t)
    BY <1>1, <2>2, OpenedAttempt DEF Opens
  <2>3. CASE LetsGo(c, t)
    BY <2>3 DEF LetsGo, Holding
  <2>4. QED
    BY <1>1, <2>1, <2>2, <2>3 DEF WorksOn
<1>3. NoThreadHas(a)'
  BY <1>1, <1>2 DEF WorksOn, OthersStand, NoThreadHas
<1>4. proc'[a] = "alive" => proc[a] = "alive"
  <2>1. CASE Launch(c, t) \/ RecordStart(c, t)
    <3>1. thread[c][t].attempt # a
      BY <2>1 DEF Launch, RecordStart, Running, NoThreadHas, Holding
    <3>2. a \in AttemptIds /\ proc \in [AttemptIds -> {"none", "alive", "exit0", "exit1"}]
      BY KnownIsAttempt, TypeParts DEF RunInv, JournalInv, Known
    <3>3. QED
      BY <2>1, <3>1, <3>2 DEF Launch, RecordStart, Killed
  <2>2. CASE ~Launch(c, t) /\ ~RecordStart(c, t)
    BY <2>2 DEF ThreadStep, Dispatch, Observe, Judge, RecordFinish, RecordInterrupt, world
  <2>3. QED
    BY <2>1, <2>2
<1>5. QED
  BY <1>1, <1>3, <1>4 DEF WorksOn, StaysFree

LEMMA FreeStays ==
    ASSUME RunInv, OwnerInv, [Next]_vars, NEW a \in DOMAIN attempts, NoThreadHas(a)
    PROVE  StaysFree(a)
<1>1. ASSUME NEW b \in AttemptIds, ProcExit(b) \/ CloseLease(b) PROVE StaysFree(a)
  <2>1. UNCHANGED thread /\ closed \subseteq closed'
    BY <1>1 DEF ProcExit, CloseLease
  <2>2. a \in AttemptIds /\ proc \in [AttemptIds -> {"none", "alive", "exit0", "exit1"}]
    BY KnownIsAttempt, TypeParts DEF RunInv, JournalInv, Known
  <2>3. proc'[a] = "alive" => proc[a] = "alive"
    BY <1>1, <2>2 DEF ProcExit, CloseLease
  <2>4. QED
    BY <2>1, <2>3 DEF NoThreadHas, StaysFree
<1>2. CASE UNCHANGED vars
  BY <1>2 DEF vars, NoThreadHas, StaysFree
<1>3. QED
  BY <1>1, <1>2, MainLeavesFree, ThreadLeavesFree DEF Next, Environment

LEMMA LostNext ==
    RunInv /\ OwnerInv /\ SeenIsPast /\ LostIsFree /\ [StatusNext]_statusVars => LostIsFree'
<1> SUFFICES ASSUME RunInv, OwnerInv, SeenIsPast, LostIsFree, [StatusNext]_statusVars
             PROVE  LostIsFree'
  OBVIOUS
<1>1. CASE UNCHANGED <<seen, shown>>
  <2> SUFFICES ASSUME NEW a \in DOMAIN shown, shown[a] = "lost"
               PROVE  /\ NoThreadHas(a)'
                      /\ proc'[a] = "alive" => a \in closed' /\ ~seen.attempts[a].started
    BY <1>1 DEF LostIsFree
  <2>1. a \in DOMAIN attempts /\ NoThreadHas(a)
    BY DEF SeenIsPast, LostIsFree
  <2>2. StaysFree(a)
    BY <2>1, StatusStep, FreeStays
  <2>3. QED
    BY <2>2 DEF StaysFree, LostIsFree
<1>2. CASE LoadJournal \/ AskAgain
  BY <1>2 DEF LoadJournal, AskAgain, LostIsFree
<1>3. ASSUME NEW a \in AttemptIds, LookAtAttempt(a) PROVE LostIsFree'
  <2> SUFFICES ASSUME NEW b \in DOMAIN shown', shown'[b] = "lost"
               PROVE  /\ NoThreadHas(b)'
                      /\ proc'[b] = "alive" => b \in closed' /\ ~seen'.attempts[b].started
    BY DEF LostIsFree
  <2>1. UNCHANGED <<thread, proc, closed, seen>>
    BY <1>3 DEF LookAtAttempt, vars
  <2>2. CASE b # a
    <3>1. b \in DOMAIN shown /\ shown[b] = "lost"
      BY <1>3, <2>2 DEF LookAtAttempt
    <3>2. QED
      BY <2>1, <3>1 DEF LostIsFree, NoThreadHas
  <2>3. CASE b = a
    <3>1. a \in DOMAIN seen.attempts
          /\ ~AttemptHeld(a) /\ ~(seen.attempts[a].started /\ GroupExists(a))
      BY <1>3, <2>3 DEF LookAtAttempt, SeenOpen
    <3>2. seen.attempts[a].started => attempts[a].started
      BY <3>1 DEF SeenIsPast
    <3>3. QED
      BY <2>1, <2>3, <3>1, <3>2 DEF AttemptHeld, GroupExists, NoThreadHas
  <2>4. QED
    BY <2>2, <2>3
<1>4. QED
  BY <1>1, <1>2, <1>3 DEF StatusNext, ReaderStep, LookAtLease, Answer, statusVars

LEMMA StatusInvInit == StatusInit => SeenIsPast /\ LostIsFree /\ FreeIsLeft
  BY DEF StatusInit, NothingSeen, SeenIsPast, LostIsFree, FreeIsLeft

\* ShownLostIsOver: an attempt a status calls lost does not run, then or at any
\* later time, whatever happened to the run since its journal was read and
\* even where leases are lost; unless it closed its lease and that journal did
\* not name its group yet.
THEOREM LostAttemptIsOver == StatusSpec => []ShownLostIsOver
<1>1. LostIsFree => ShownLostIsOver
  BY DEF LostIsFree, ShownLostIsOver
<1>2. QED
  BY <1>1, StatusStart, StatusStep, StatusInvInit, RunInit, RunNext, OwnerInit, OwnerNext,
     PastNext, LostNext, PTL DEF StatusSpec

-----------------------------------------------------------------------------
\* Nobody comes to own a generation that is in force and that nobody owns: a
\* takeover opens the next one.
LEMMA TakeOverMovesOn ==
    ASSUME RunInv, NEW c \in Coordinators, TakeOver(c), UNCHANGED generation
    PROVE  Gone(c)
<1>1. generation \in Nat
  BY DEF RunInv, JournalInv, JournalTypeOK
<1>2. ~Resumed(co[c].generation + 1)
  BY <1>1 DEF Resumed, AcceptsResumed
<1>3. QED
  BY <1>2 DEF TakeOver, Recorded

LEMMA MainLeavesAlone ==
    ASSUME RunInv, NEW c \in Coordinators, UNCHANGED generation, NoOwnerIn(generation),
           MainStep(c) \/ Decline(c) \/ Crash(c) \/ StopBegins(c) \/ HandlerRuns(c)
    PROVE  NoOwnerIn(generation)'
<1>1. CoOK
  BY TypeParts DEF RunInv
<1>2. CASE Gone(c)
  <2>1. ~Owns(c)' /\ OthersStand(c)
    BY <1>1, <1>2, GoneFields DEF Owns
  <2>2. QED
    BY <2>1 DEF OthersStand, NoOwnerIn, Owns
<1>3. CASE Walks(c) /\ ~Gone(c)
  <2>1. co'[c].generation = co[c].generation /\ (Owns(c)' <=> Owns(c))
    <3>1. CASE At(c, "reopened")
      <4>1. StopBegins(c) \/ HandlerRuns(c)
        BY <1>3, <3>1, TakeOverMovesOn DEF MainStep, Detach, Received, RecordLost, TakenOver,
           StartLevel, Consider, StartThreads, Join, WaitOutWindow, BeginWithdraw,
           WithdrawNext, RecordStop, RecordConclusion, Decline, Crash, At
      <4>2. QED
        BY <1>1, <4>1, SignalFields DEF KeepsSelf, Owns
    <3>2. QED
      BY <1>3, <3>1 DEF Walks
  <2>2. QED
    BY <1>3, <2>1 DEF Walks, OthersStand, NoOwnerIn, Owns
<1>4. QED
  BY <1>2, <1>3, MainEffect DEF Leaves

LEMMA NobodyReturns ==
    ASSUME RunInv, OwnerInv, [Next]_vars, generation # 0, UNCHANGED generation,
           NoOwnerIn(generation)
    PROVE  NoOwnerIn(generation)'
<1>1. CoOK
  BY TypeParts DEF RunInv
<1>2. ASSUME NEW c \in Coordinators, NEW t \in Tasks, ThreadStep(c, t)
      PROVE  NoOwnerIn(generation)'
  BY <1>2, ThreadEffect DEF WorksOn, OthersStand, NoOwnerIn, Owns, At
<1>3. ASSUME NEW c \in Coordinators PROVE ~Create(c)
  BY DEF Create, AcceptsRequested
<1>4. ASSUME NEW c \in Coordinators, NEW assume, Reopen(c, assume)
      PROVE  NoOwnerIn(generation)'
  <2>1. ~Owns(c)' /\ OthersStand(c)
    BY <1>1, <1>4, ReopenFields DEF Owns
  <2>2. QED
    BY <2>1 DEF OthersStand, NoOwnerIn, Owns
<1>5. CASE UNCHANGED co
  BY <1>5 DEF NoOwnerIn, Owns
<1>6. QED
  BY <1>2, <1>3, <1>4, <1>5, MainLeavesAlone
     DEF Next, Environment, LoseLease, ProcExit, CloseLease, vars

LEMMA LeftNext ==
    RunInv /\ OwnerInv /\ Leased /\ [JournalNext]_journal /\ SeenIsPast /\ FreeIsLeft
    /\ [StatusNext]_statusVars => FreeIsLeft'
<1> SUFFICES ASSUME RunInv, OwnerInv, Leased, [JournalNext]_journal, SeenIsPast, FreeIsLeft,
                    [StatusNext]_statusVars, (generation = seen.generation)',
                    reader' \in {"looking", "answered"}, ~live'
             PROVE  NoOwnerIn(generation)'
  BY DEF FreeIsLeft
<1>1. CASE UNCHANGED <<reader, seen, live>>
  <2>1. seen.generation \in 1 .. generation
    BY <1>1 DEF SeenIsPast
  <2>2. UNCHANGED generation /\ generation # 0
    BY <1>1, <2>1, RunGrows
  <2>3. NoOwnerIn(generation)
    BY <1>1, <2>2 DEF FreeIsLeft
  <2>4. QED
    BY <2>2, <2>3, StatusStep, NobodyReturns
<1>2. CASE LookAtLease
  <2>1. UNCHANGED <<generation, co>> /\ lease = NoOne
    BY <1>2 DEF LookAtLease, vars, journal
  <2>2. \A c \in Coordinators : Off(c)
    BY <2>1 DEF Leased, NoOne, Coordinators
  <2>3. QED
    BY <2>1, <2>2 DEF NoOwnerIn, Owns, Off
<1>3. CASE Answer \/ \E a \in AttemptIds : LookAtAttempt(a)
  <2>1. UNCHANGED <<generation, co, seen, live>> /\ reader = "looking"
    BY <1>3 DEF Answer, LookAtAttempt, vars, journal
  <2>2. QED
    BY <2>1 DEF FreeIsLeft, NoOwnerIn, Owns
<1>4. CASE LoadJournal \/ AskAgain
  BY <1>4 DEF LoadJournal, AskAgain
<1>5. QED
  BY <1>1, <1>2, <1>3, <1>4 DEF StatusNext, ReaderStep, statusVars

\* ShownLostIsLeft: while leases hold, and as long as no resume has taken it
\* over, a run a status calls lost is one nobody works on: who had it when its
\* journal was read had let its lease go when that was looked at.
THEOREM LostRunIsLeft ==
    ASSUME "lease" \notin Events
    PROVE  StatusSpec => []ShownLostIsLeft
<1>1. OwnerInv /\ SeenIsPast /\ FreeIsLeft => ShownLostIsLeft
  <2> SUFFICES ASSUME OwnerInv, SeenIsPast, FreeIsLeft, reader = "answered",
                      ShownState = "lost", generation = seen.generation,
                      NEW c \in Coordinators, co[c].generation = generation
               PROVE  At(c, "reopened")
    BY DEF ShownLostIsLeft
  <2>1. ~live
    BY DEF ShownState
  <2>2. ~Owns(c)
    BY <2>1 DEF FreeIsLeft, NoOwnerIn
  <2>3. ~Off(c)
    BY DEF SeenIsPast, OwnerInv, Places
  <2>4. QED
    BY <2>2, <2>3 DEF Owns, Off, At
<1>2. RunInv /\ OwnerInv /\ ProcessInv /\ [Next]_vars => ProcessInv'
  BY ProcessNext
<1>3. ProcessInv => Leased
  BY DEF ProcessInv
<1>4. QED
  BY <1>1, <1>2, <1>3, StatusStart, StatusStep, StatusInvInit, RunInit, RunNext, OwnerInit,
     OwnerNext, ProcessInit, PastNext, LeftNext, PTL DEF StatusSpec

===============================================================================
