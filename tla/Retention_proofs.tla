-------------------------- MODULE Retention_proofs --------------------------
(***************************************************************************)
(* Proofs about Retention, for every set of runs and processes and both    *)
(* budgets: no process takes the run of another that lives, no run is seen *)
(* half made or half removed under its own name, and what is removed is    *)
(* noted.                                                                  *)
(***************************************************************************)
EXTENDS Retention, TLAPS

Process == [pc : Steps, target : Runs \cup {Nobody}, todo : SUBSET Runs]
Tombstone == [run : Runs, state : {"unreadable", "lost", "interrupted", "completed"}]

\* Where a process holds a run under its own name, and where a run is that
\* was moved aside.
Live == {"placed", "coordinating", "reopened"}
Out == {"aside", "gone"}

(***************************************************************************)
(* The inductive invariant has two parts.  The first is what a process     *)
(* made of its own run: nothing before it stages it, and under the run's   *)
(* name only what is whole, leased and, while its process lives, held by   *)
(* it.  The second is what a process may still believe of the run of       *)
(* another: it never points at one that is being made, unless its process  *)
(* died; it holds the run from the moment it locked it; and what it notes  *)
(* or deletes is never back under its own name.                            *)
(***************************************************************************)
OwnRun ==
    \A p \in Runs :
        /\ proc[p].pc \in Clearing => place[p] = "none"
        /\ proc[p].pc \in {"staged", "held"} => place[p] = "staging" /\ p \in whole
        /\ At(p, "held") => leased[p] /\ holder[p] = p
        /\ proc[p].pc \in Live => place[p] = "kept" /\ holder[p] = p
        /\ proc[p].pc \in Live \ {"placed"} => progress[p] # "none"
        /\ At(p, "placed") \/ place[p] \in {"none", "staging"} => progress[p] = "none"
        /\ place[p] = "kept" => p \in whole /\ leased[p]

TargetsFit ==
    \A p \in Runs :
        LET r == proc[p].target
        IN  /\ proc[p].pc \in {"opened", "sweepnote", "sweepdelete"} \cup Removing => r \in Runs
            /\ proc[p].pc \in {"opened"} \cup Removing => place[r] \in {"kept"} \cup Out
            /\ proc[p].pc \in Removing => holder[r] = p
            /\ proc[p].pc \in {"noting", "deleting", "sweepnote"} => place[r] \in Out
            /\ At(p, "sweepdelete") =>
                 place[r] \in Out \/ (place[r] = "staging" /\ At(r, "dead"))

RetentionInv ==
    /\ RetentionTypeOK
    /\ OwnRun
    /\ TargetsFit

-----------------------------------------------------------------------------
\* One process took a step: where it is now, and what it works on.
Moves(p, pc, target) ==
    /\ proc' \in [Runs -> Process]
    /\ proc'[p].pc = pc /\ proc'[p].target = target
    /\ \A q \in Runs : q # p => proc'[q] = proc[q]

\* Replacing a process by another.
LEMMA ProcessReplaced ==
    ASSUME NEW p \in Runs, NEW s \in Process,
           proc \in [Runs -> Process], proc' = [proc EXCEPT ![p] = s]
    PROVE  Moves(p, s.pc, s.target)
BY DEF Moves

\* Where a process turns next, and what it works on there.
LEMMA TurnsMoves ==
    ASSUME RetentionTypeOK, NEW p \in Runs, NEW pc \in Steps,
           NEW target \in Runs \cup {Nobody}, NEW todo \in SUBSET Runs,
           Turns(p, pc, target, todo)
    PROVE  Moves(p, pc, target)
<1> DEFINE s == [pc |-> pc, target |-> target, todo |-> todo]
<1>1. proc \in [Runs -> Process]
  BY DEF RetentionTypeOK, Process
<1>2. s \in Process /\ s.pc = pc /\ s.target = target
  BY DEF Process
<1>3. proc' = [proc EXCEPT ![p] = s]
  BY DEF Turns
<1> HIDE DEF s
<1>4. QED
  BY <1>1, <1>2, <1>3, ProcessReplaced

\* A process that goes on with the same run.
LEMMA GoesMoves ==
    ASSUME RetentionTypeOK, NEW p \in Runs, NEW pc \in Steps, Goes(p, pc)
    PROVE  Moves(p, pc, proc[p].target)
<1>1. proc[p].target \in Runs \cup {Nobody} /\ proc[p].todo \in SUBSET Runs
  BY DEF RetentionTypeOK
<1>2. QED
  BY <1>1, TurnsMoves DEF Goes

\* A process that is done with a run, or passes it over.
LEMMA PassesMoves ==
    ASSUME RetentionTypeOK, NEW p \in Runs, NEW pc \in Steps, NEW r, PassesOn(p, r, pc)
    PROVE  Moves(p, pc, Nobody)
<1>1. proc[p].todo \ {r} \in SUBSET Runs
  BY DEF RetentionTypeOK
<1>2. QED
  BY <1>1, TurnsMoves DEF PassesOn

\* A process that ends.
LEMMA ReturnsMoves ==
    ASSUME RetentionTypeOK, NEW p \in Runs, NEW pc \in Steps, Returns(p, pc)
    PROVE  Moves(p, pc, Nobody) /\ holder' = Released(p)
BY TurnsMoves DEF Returns

\* What a process releases, and what it leaves to others.
LEMMA ReleasedHolder ==
    ASSUME RetentionTypeOK, NEW p \in Runs
    PROVE  /\ Released(p) \in [Runs -> Runs \cup {Nobody}]
           /\ \A r \in Runs : holder[r] # p => Released(p)[r] = holder[r]
BY DEF RetentionTypeOK, Released

\* A run's state in a tombstone is one of the four it may name.
LEMMA StateType ==
    ASSUME NEW got \in {"none", "open", "stopped", "concluded"}
    PROVE  State(got) \in {"unreadable", "lost", "interrupted", "completed"}
BY DEF State

\* A note adds the run it is about, if it is new, and nothing else.
LEMMA NoteAdds ==
    ASSUME RetentionTypeOK, NEW r \in Runs, Note(r)
    PROVE  /\ notes' \in Seq(Tombstone)
           /\ Len(notes') >= Len(notes)
           /\ \A i \in DOMAIN notes' :
                \/ i \in DOMAIN notes /\ notes'[i] = notes[i]
                \/ notes'[i].run = r /\ notes'[i].state \in Readings(r)
           /\ \A s \in Runs : Noted(s) \/ s = r <=> Noted(s)'
<1> USE DEF Tombstone
<1>1. notes \in Seq(Tombstone) /\ Readings(r) \subseteq {"unreadable", "lost", "interrupted", "completed"}
  <2>1. notes \in Seq(Tombstone) /\ progress[r] \in {"none", "open", "stopped", "concluded"}
    BY DEF RetentionTypeOK
  <2>2. QED
    BY <2>1, StateType DEF Readings
<1>2. CASE Noted(r)
  BY <1>1, <1>2 DEF Note, Noted
<1>3. CASE ~Noted(r)
  <2>1. PICK state \in Readings(r) : notes' = Append(notes, [run |-> r, state |-> state])
    BY <1>3 DEF Note
  <2>2. /\ notes' \in Seq(Tombstone)
        /\ Len(notes') = Len(notes) + 1
        /\ DOMAIN notes' = 1 .. Len(notes) + 1
        /\ \A i \in DOMAIN notes : notes'[i] = notes[i]
        /\ notes'[Len(notes) + 1] = [run |-> r, state |-> state]
    BY <1>1, <2>1
  <2>3. DOMAIN notes = 1 .. Len(notes) /\ Len(notes) \in Nat
    BY <1>1
  <2>4. QED
    BY <2>2, <2>3 DEF Noted
<1>4. QED
  BY <1>2, <1>3

\* Journals gain a first record each, once.
LEMMA BornOnce ==
    ASSUME RetentionTypeOK, NEW p \in Runs, progress[p] = "none",
           progress' = [progress EXCEPT ![p] = "open"], born' = Append(born, p)
    PROVE  /\ born' \in Seq(Runs)
           /\ IsInjective(born') /\ ToSet(born') = {r \in Runs : progress'[r] # "none"}
<1>1. born \in Seq(Runs) /\ p \notin ToSet(born)
  BY DEF RetentionTypeOK
<1>2. /\ born' \in Seq(Runs)
      /\ DOMAIN born' = 1 .. Len(born) + 1
      /\ DOMAIN born = 1 .. Len(born) /\ Len(born) \in Nat
      /\ \A i \in DOMAIN born : born'[i] = born[i]
      /\ born'[Len(born) + 1] = p
  BY <1>1
<1>3. IsInjective(born')
  BY <1>1, <1>2 DEF IsInjective, ToSet, RetentionTypeOK
<1>4. ToSet(born') = ToSet(born) \cup {p}
  BY <1>2 DEF ToSet
<1>5. QED
  BY <1>2, <1>3, <1>4 DEF RetentionTypeOK
-----------------------------------------------------------------------------
\* At the start there is no directory and no process has begun.
LEMMA RetentionInit == Init => RetentionInv
<1> SUFFICES ASSUME Init
             PROVE  RetentionInv
  OBVIOUS
<1>1. RetentionTypeOK
  <2>1. born \in Seq(Runs) /\ IsInjective(born) /\ ToSet(born) = {}
    BY DEF Init, IsInjective, ToSet
  <2>2. Idle \in [pc : Steps, target : Runs \cup {Nobody}, todo : SUBSET Runs]
    BY DEF Idle, Steps, Clearing
  <2>3. QED
    BY <2>1, <2>2 DEF Init, RetentionTypeOK, NotAsked
<1>2. OwnRun /\ TargetsFit
  BY DEF Init, OwnRun, TargetsFit, Idle, At, Clearing, Removing, Live
<1>3. QED
  BY <1>1, <1>2 DEF RetentionInv


\* A step that leaves directories, leases and journals alone: the process
\* must only not turn to what its new place excludes.
LEMMA TurnKeeps ==
    ASSUME RetentionInv, NEW p \in Runs, NEW pc, NEW target, Moves(p, pc, target),
           UNCHANGED <<files, holder, journals, asked>>,
           notes' \in Seq(Tombstone),
           proc[p].pc \in Clearing, pc \in Clearing,
           pc \in {"opened", "sweepnote", "sweepdelete"} \cup Removing => target \in Runs,
           pc \in {"opened"} \cup Removing => place[target] \in {"kept"} \cup Out,
           pc \in Removing => holder[target] = p,
           pc \in {"noting", "deleting", "sweepnote"} => place[target] \in Out,
           pc = "sweepdelete" =>
               place[target] \in Out \/ (place[target] = "staging" /\ At(target, "dead"))
    PROVE  RetentionInv'
<1>1. RetentionTypeOK /\ OwnRun /\ TargetsFit
  BY DEF RetentionInv
<1>2. RetentionTypeOK'
  BY <1>1 DEF RetentionTypeOK, Moves, Process, Tombstone, files, journals
<1>3. /\ UNCHANGED <<place, whole, leased, holder, progress>>
      /\ proc'[p].pc = pc /\ proc'[p].target = target
      /\ \A q \in Runs : q # p => proc'[q] = proc[q]
  BY DEF files, journals, Moves
<1>4. OwnRun'
  BY <1>1, <1>3 DEF OwnRun, At, Clearing, Removing, Live
<1>5. TargetsFit'
  BY <1>1, <1>3 DEF TargetsFit, At, Clearing, Removing, Out
<1>6. QED
  BY <1>2, <1>4, <1>5 DEF RetentionInv

\* `sweep_leftovers`: the list, one of it, its note.
LEMMA SweepKeeps ==
    ASSUME RetentionInv, NEW p \in Runs, BeginSweep(p) \/ Sweep(p) \/ SweepNote(p)
    PROVE  RetentionInv'
<1>1. RetentionTypeOK /\ OwnRun /\ TargetsFit
  BY DEF RetentionInv
<1>2. notes \in Seq(Tombstone)
  BY <1>1 DEF RetentionTypeOK, Tombstone
<1>3. CASE BeginSweep(p)
  <2>1. Moves(p, "sweeping", Nobody)
    BY <1>1, <1>3, TurnsMoves DEF BeginSweep, Leftovers, Steps, Clearing
  <2>2. QED
    BY <1>2, <1>3, <2>1, TurnKeeps DEF BeginSweep, Clearing, Removing, At
<1>4. CASE Sweep(p)
  <2>1. PICK r \in proc[p].todo :
          \/ /\ r \in Leftovers /\ (place[r] = "staging" => At(r, "dead"))
             /\ Turns(p, IF place[r] = "aside" THEN "sweepnote" ELSE "sweepdelete",
                      r, proc[p].todo \ {r})
          \/ PassesOn(p, r, "sweeping")
    BY <1>4 DEF Sweep
  <2>2. r \in Runs /\ proc[p].todo \ {r} \in SUBSET Runs
    BY <1>1 DEF RetentionTypeOK
  <2>3. \/ /\ r \in Leftovers /\ (place[r] = "staging" => At(r, "dead"))
           /\ Moves(p, IF place[r] = "aside" THEN "sweepnote" ELSE "sweepdelete", r)
        \/ Moves(p, "sweeping", Nobody)
    BY <1>1, <2>1, <2>2, TurnsMoves, PassesMoves DEF Steps, Clearing
  <2>4. CASE Moves(p, "sweeping", Nobody)
    BY <1>2, <1>4, <2>4, TurnKeeps DEF Sweep, Clearing, Removing, At
  <2>5. CASE Moves(p, "sweepnote", r) /\ place[r] = "aside"
    BY <1>2, <1>4, <2>2, <2>5, TurnKeeps DEF Sweep, Clearing, Removing, At, Out
  <2>6. CASE Moves(p, "sweepdelete", r) /\ place[r] = "staging" /\ At(r, "dead")
    BY <1>2, <1>4, <2>2, <2>6, TurnKeeps DEF Sweep, Clearing, Removing, At
  <2>7. QED
    BY <2>3, <2>4, <2>5, <2>6 DEF Leftovers
<1>5. CASE SweepNote(p)
  <2>1. Moves(p, "sweepdelete", proc[p].target)
    BY <1>1, <1>5, GoesMoves DEF SweepNote, Steps, Clearing
  <2>2. proc[p].target \in Runs /\ place[proc[p].target] \in Out
    BY <1>1, <1>5 DEF SweepNote, At, TargetsFit
  <2>3. notes' \in Seq(Tombstone)
    BY <1>1, <1>2, <1>5, <2>2, NoteAdds DEF SweepNote
  <2>4. QED
    BY <1>5, <2>1, <2>2, <2>3, TurnKeeps DEF SweepNote, Clearing, Removing, At
<1>6. QED
  BY <1>3, <1>4, <1>5

\* `prune`: the runs it chooses, a lease it opens, the tombstones it bounds.
LEMMA ChooseKeeps ==
    ASSUME RetentionInv, NEW p \in Runs, Choose(p) \/ OpenLease(p) \/ BoundNotes(p)
    PROVE  RetentionInv'
<1>1. RetentionTypeOK /\ OwnRun /\ TargetsFit
  BY DEF RetentionInv
<1>2. notes \in Seq(Tombstone)
  BY <1>1 DEF RetentionTypeOK, Tombstone
<1>3. CASE Choose(p)
  <2>1. PICK pc \in {"pruning", "create"}, todo \in SUBSET Runs : Turns(p, pc, Nobody, todo)
    BY <1>3 DEF Choose, Kept
  <2>2. Moves(p, pc, Nobody)
    BY <1>1, <2>1, TurnsMoves DEF Steps, Clearing
  <2>3. QED
    BY <1>2, <1>3, <2>2, TurnKeeps DEF Choose, Clearing, Removing, At
<1>4. CASE OpenLease(p)
  <2>1. PICK r \in proc[p].todo :
          \/ place[r] = "kept" /\ Turns(p, "opened", r, proc[p].todo)
          \/ PassesOn(p, r, "pruning")
    BY <1>4 DEF OpenLease
  <2>2. r \in Runs /\ proc[p].todo \in SUBSET Runs
    BY <1>1 DEF RetentionTypeOK
  <2>3. \/ place[r] = "kept" /\ Moves(p, "opened", r)
        \/ Moves(p, "pruning", Nobody)
    BY <1>1, <2>1, <2>2, TurnsMoves, PassesMoves DEF Steps, Clearing
  <2>4. CASE Moves(p, "pruning", Nobody)
    BY <1>2, <1>4, <2>4, TurnKeeps DEF OpenLease, Clearing, Removing, At
  <2>5. CASE Moves(p, "opened", r) /\ place[r] = "kept"
    BY <1>2, <1>4, <2>2, <2>5, TurnKeeps DEF OpenLease, Clearing, Removing, At
  <2>6. QED
    BY <2>3, <2>4, <2>5
<1>5. CASE BoundNotes(p)
  <2>1. CASE Len(notes) > TombstoneBudget
    <3>1. notes' \in Seq(Tombstone) /\ UNCHANGED proc
      BY <1>2, <1>5, <2>1, RetentionAssumption DEF BoundNotes, RetentionAssumption
    <3>2. Moves(p, "pruning", proc[p].target)
      BY <1>1, <1>5, <3>1 DEF BoundNotes, At, Moves, RetentionTypeOK, Process
    <3>3. QED
      BY <1>5, <3>1, <3>2, TurnKeeps DEF BoundNotes, Clearing, Removing, At
  <2>2. CASE ~(Len(notes) > TombstoneBudget)
    <3>1. Moves(p, "create", proc[p].target)
      BY <1>1, <1>5, <2>2, GoesMoves DEF BoundNotes, Steps, Clearing
    <3>2. QED
      BY <1>2, <1>5, <2>2, <3>1, TurnKeeps DEF BoundNotes, Clearing, Removing, At
  <2>3. QED
    BY <2>1, <2>2
<1>6. QED
  BY <1>3, <1>4, <1>5

\* Taking a run's lease, or finding it held.
LEMMA LockKeeps ==
    ASSUME RetentionInv, NEW p \in Runs, Lock(p)
    PROVE  RetentionInv'
<1> DEFINE r == proc[p].target
<1>1. RetentionTypeOK /\ OwnRun /\ TargetsFit
  BY DEF RetentionInv
<1>2. r \in Runs /\ place[r] \in {"kept"} \cup Out /\ notes \in Seq(Tombstone)
  BY <1>1 DEF Lock, At, TargetsFit, RetentionTypeOK, Tombstone
<1>3. CASE UNCHANGED holder /\ PassesOn(p, r, "pruning")
  <2>1. Moves(p, "pruning", Nobody)
    BY <1>1, <1>3, PassesMoves DEF Steps, Clearing
  <2>2. QED
    BY <1>2, <1>3, <2>1, TurnKeeps DEF Lock, Clearing, Removing, At
<1>4. CASE holder[r] = Nobody /\ holder' = [holder EXCEPT ![r] = p] /\ Goes(p, "locked")
  <2>1. Moves(p, "locked", r)
    BY <1>1, <1>4, GoesMoves DEF Steps, Clearing, Removing
  <2>2. /\ UNCHANGED <<place, whole, leased, progress, born, notes, asked>>
        /\ holder' \in [Runs -> Runs \cup {Nobody}]
        /\ holder'[r] = p
        /\ \A q \in Runs : q # r => holder'[q] = holder[q]
        /\ \A q \in Runs : holder[q] # Nobody => holder'[q] = holder[q]
    BY <1>1, <1>2, <1>4 DEF Lock, RetentionTypeOK, files, journals
  <2>3. RetentionTypeOK'
    BY <1>1, <2>1, <2>2 DEF RetentionTypeOK, Moves, Process
  <2>4. \A q \in Runs : q # Nobody
    BY RetentionAssumption DEF RetentionAssumption
  <2>5. OwnRun'
    BY <1>1, <2>1, <2>2, <2>4 DEF Lock, OwnRun, Moves, At, Clearing, Removing, Live
  <2>6. TargetsFit'
    BY <1>1, <1>2, <2>1, <2>2, <2>4 DEF Lock, TargetsFit, Moves, At, Clearing, Removing, Out
  <2>7. QED
    BY <2>3, <2>5, <2>6 DEF RetentionInv
<1>5. QED
  BY <1>3, <1>4 DEF Lock

\* A process that lets go of the run it was removing, whatever became of it.
LEMMA LetGoKeeps ==
    ASSUME RetentionInv, NEW p \in Runs, proc[p].pc \in Removing,
           Moves(p, "pruning", Nobody), holder' = Released(p),
           UNCHANGED <<files, journals, notes, asked>>
    PROVE  RetentionInv'
<1>1. RetentionTypeOK /\ OwnRun /\ TargetsFit
  BY DEF RetentionInv
<1>2. /\ UNCHANGED <<place, whole, leased, progress, born, notes, asked>>
      /\ holder' \in [Runs -> Runs \cup {Nobody}]
      /\ \A q \in Runs : holder[q] # p => holder'[q] = holder[q]
  BY <1>1, ReleasedHolder DEF files, journals
<1>3. RetentionTypeOK'
  BY <1>1, <1>2 DEF RetentionTypeOK, Moves, Process
<1>4. OwnRun'
  BY <1>1, <1>2 DEF OwnRun, Moves, At, Clearing, Removing, Live
<1>5. TargetsFit'
  BY <1>1, <1>2 DEF TargetsFit, Moves, At, Clearing, Removing, Out
<1>6. QED
  BY <1>3, <1>4, <1>5 DEF RetentionInv

\* `remove_run`: the run is moved aside by the one that holds it.
LEMMA MoveAsideKeeps ==
    ASSUME RetentionInv, NEW p \in Runs, MoveAside(p)
    PROVE  RetentionInv'
<1> DEFINE r == proc[p].target
<1>1. RetentionTypeOK /\ OwnRun /\ TargetsFit
  BY DEF RetentionInv
<1>2. r \in Runs /\ holder[r] = p
  BY <1>1 DEF MoveAside, At, TargetsFit, Removing
<1>3. CASE place[r] = "kept"
  <2>1. Moves(p, "noting", r)
    BY <1>1, <1>3, GoesMoves DEF MoveAside, Steps, Clearing, Removing
  <2>2. /\ UNCHANGED <<whole, leased, holder, progress, born, notes, asked>>
        /\ place' \in [Runs -> {"none", "staging", "kept", "aside", "gone"}]
        /\ place'[r] = "aside"
        /\ \A q \in Runs : q # r => place'[q] = place[q]
    BY <1>1, <1>2, <1>3 DEF MoveAside, RetentionTypeOK, journals
  <2>3. RetentionTypeOK'
    BY <1>1, <2>1, <2>2 DEF RetentionTypeOK, Moves, Process
  <2>4. At(p, "locked") /\ place[p] = "none" /\ r # p
    BY <1>1, <1>3 DEF MoveAside, At, OwnRun, Clearing, Removing
  <2>5. proc[r].pc \notin Clearing \cup {"staged", "held"} \cup Live
    BY <1>1, <1>2, <1>3, <2>4 DEF OwnRun
  <2>6. OwnRun'
    BY <1>1, <1>2, <1>3, <2>1, <2>2, <2>4, <2>5
       DEF OwnRun, Moves, At, Clearing, Removing, Live
  <2>7. TargetsFit'
    BY <1>1, <1>2, <1>3, <2>1, <2>2, <2>4 DEF TargetsFit, Moves, At, Clearing, Removing, Out
  <2>8. QED
    BY <2>3, <2>6, <2>7 DEF RetentionInv
<1>4. CASE place[r] # "kept"
  <2>1. Moves(p, "pruning", Nobody)
    BY <1>1, <1>4, PassesMoves DEF MoveAside, Steps, Clearing
  <2>2. QED
    BY <1>4, <2>1, LetGoKeeps DEF MoveAside, At, Removing, files
<1>5. QED
  BY <1>3, <1>4

\* Its tombstone, or none when that cannot be written.
LEMMA NoteItKeeps ==
    ASSUME RetentionInv, NEW p \in Runs, NoteIt(p)
    PROVE  RetentionInv'
<1> DEFINE r == proc[p].target
<1>1. RetentionTypeOK /\ OwnRun /\ TargetsFit
  BY DEF RetentionInv
<1>2. r \in Runs /\ holder[r] = p /\ place[r] \in Out
  BY <1>1 DEF NoteIt, At, TargetsFit, Removing
<1>3. CASE Note(r) /\ Goes(p, "deleting") /\ UNCHANGED holder
  <2>1. Moves(p, "deleting", r)
    BY <1>1, <1>3, GoesMoves DEF Steps, Clearing, Removing
  <2>2. notes' \in Seq(Tombstone)
    BY <1>1, <1>2, <1>3, NoteAdds
  <2>3. QED
    BY <1>2, <1>3, <2>1, <2>2, TurnKeeps DEF NoteIt, Clearing, Removing, At
<1>4. CASE holder' = Released(p) /\ PassesOn(p, r, "pruning") /\ UNCHANGED notes
  <2>1. Moves(p, "pruning", Nobody)
    BY <1>1, <1>4, PassesMoves DEF Steps, Clearing
  <2>2. QED
    BY <1>4, <2>1, LetGoKeeps DEF NoteIt, At, Removing
<1>5. QED
  BY <1>3, <1>4 DEF NoteIt

\* What deleting a run, or a part of it, leaves of the others.
Erases(r) ==
    /\ place' \in [Runs -> {"none", "staging", "kept", "aside", "gone"}]
    /\ whole' = whole \ {r}
    /\ leased' \in [Runs -> BOOLEAN]
    /\ place'[r] \in {place[r], "gone"}
    /\ \A q \in Runs : q # r => place'[q] = place[q] /\ leased'[q] = leased[q]

\* Deleting a part of a run, or all that is left, touches no other run.
LEMMA DeleteErases ==
    ASSUME RetentionTypeOK, NEW r \in Runs, DeleteSome(r) \/ DeleteRest(r)
    PROVE  Erases(r)
<1>1. /\ place \in [Runs -> {"none", "staging", "kept", "aside", "gone"}]
      /\ leased \in [Runs -> BOOLEAN]
  BY DEF RetentionTypeOK
<1>2. CASE DeleteSome(r)
  BY <1>1, <1>2 DEF DeleteSome, Erases
<1>3. CASE DeleteRest(r)
  BY <1>1, <1>3 DEF DeleteRest, Erases
<1>4. QED
  BY <1>2, <1>3

\* Deleting keeps the invariant as long as the run is not under its own name
\* and no process is making it.
LEMMA EraseKeeps ==
    ASSUME RetentionInv, NEW p \in Runs, NEW r \in Runs, NEW pc, NEW target,
           Erases(r), Moves(p, pc, target), UNCHANGED <<journals, notes, asked>>,
           place[r] \in Out \/ (place[r] = "staging" /\ At(r, "dead")),
           \/ UNCHANGED <<holder, proc>>
           \/ UNCHANGED holder /\ At(p, "sweepdelete") /\ pc = "sweeping"
           \/ holder' = Released(p) /\ At(p, "deleting") /\ pc = "pruning"
    PROVE  RetentionInv'
<1>1. RetentionTypeOK /\ OwnRun /\ TargetsFit
  BY DEF RetentionInv
<1>2. /\ UNCHANGED <<progress, born, notes, asked>>
      /\ holder' \in [Runs -> Runs \cup {Nobody}]
      /\ \A q \in Runs : holder[q] # p => holder'[q] = holder[q]
      /\ UNCHANGED holder \/ At(p, "deleting")
  BY <1>1, ReleasedHolder DEF journals, RetentionTypeOK
<1>3. RetentionTypeOK'
  BY <1>1, <1>2 DEF RetentionTypeOK, Moves, Process, Erases
<1>4. proc[r].pc \notin Clearing \cup {"staged", "held"} \cup Live
  BY <1>1 DEF OwnRun, At, Out, Clearing, Removing, Live
<1>5. \/ UNCHANGED proc
      \/ /\ proc[p].pc \in {"sweepdelete", "deleting"} /\ p # r
         /\ proc'[p].pc \in {"sweeping", "pruning"}
  BY <1>4 DEF At, Moves, Clearing, Removing
<1>6. OwnRun'
  BY <1>1, <1>2, <1>4, <1>5 DEF OwnRun, Moves, Erases, At, Out, Clearing, Removing, Live
<1>7. TargetsFit'
  BY <1>1, <1>2, <1>5 DEF TargetsFit, Moves, Erases, At, Clearing, Removing, Out
<1>8. QED
  BY <1>3, <1>6, <1>7 DEF RetentionInv

\* A sweep deletes what was left aside, or half made.
LEMMA SweepDeleteKeeps ==
    ASSUME RetentionInv, NEW p \in Runs, SweepDelete(p)
    PROVE  RetentionInv'
<1> DEFINE r == proc[p].target
<1>1. RetentionTypeOK /\ OwnRun /\ TargetsFit
  BY DEF RetentionInv
<1>2. r \in Runs /\ (place[r] \in Out \/ (place[r] = "staging" /\ At(r, "dead")))
  BY <1>1 DEF SweepDelete, At, TargetsFit
<1>3. UNCHANGED proc => Moves(p, proc[p].pc, r)
  BY <1>1 DEF Moves, RetentionTypeOK, Process
<1>4. PassesOn(p, r, "sweeping") => Moves(p, "sweeping", Nobody)
  BY <1>1, PassesMoves DEF Steps, Clearing
<1>5. CASE place[r] \in {"staging", "aside"}
  <2>1. Erases(r)
    BY <1>1, <1>2, <1>5, DeleteErases DEF SweepDelete
  <2>2. CASE UNCHANGED proc
    BY <1>2, <1>3, <2>1, <2>2, EraseKeeps DEF SweepDelete
  <2>3. CASE PassesOn(p, r, "sweeping")
    BY <1>2, <1>4, <2>1, <2>3, EraseKeeps DEF SweepDelete
  <2>4. QED
    BY <1>5, <2>2, <2>3 DEF SweepDelete
<1>6. CASE place[r] \notin {"staging", "aside"}
  <2>1. PassesOn(p, r, "sweeping") /\ UNCHANGED <<files, holder, journals, notes, asked>>
    BY <1>6 DEF SweepDelete
  <2>2. notes' \in Seq(Tombstone)
    BY <1>1, <2>1 DEF RetentionTypeOK, Tombstone
  <2>3. QED
    BY <1>4, <2>1, <2>2, TurnKeeps DEF SweepDelete, Clearing, Removing, At
<1>7. QED
  BY <1>5, <1>6

\* The process that moved a run aside deletes it, and lets go of it.
LEMMA DeleteKeeps ==
    ASSUME RetentionInv, NEW p \in Runs, Delete(p)
    PROVE  RetentionInv'
<1> DEFINE r == proc[p].target
<1>1. RetentionTypeOK /\ OwnRun /\ TargetsFit
  BY DEF RetentionInv
<1>2. r \in Runs /\ place[r] \in Out
  BY <1>1 DEF Delete, At, TargetsFit, Removing
<1>3. Erases(r)
  BY <1>1, <1>2, DeleteErases DEF Delete
<1>4. CASE UNCHANGED <<proc, holder>>
  <2>1. Moves(p, proc[p].pc, r)
    BY <1>1, <1>4 DEF Moves, RetentionTypeOK, Process
  <2>2. QED
    BY <1>2, <1>3, <1>4, <2>1, EraseKeeps DEF Delete
<1>5. CASE holder' = Released(p) /\ PassesOn(p, r, "pruning")
  <2>1. Moves(p, "pruning", Nobody)
    BY <1>1, <1>5, PassesMoves DEF Steps, Clearing
  <2>2. QED
    BY <1>2, <1>3, <1>5, <2>1, EraseKeeps DEF Delete
<1>6. QED
  BY <1>4, <1>5 DEF Delete

-----------------------------------------------------------------------------
\* `Coordinator::create`: no other process knows of the run until it is placed.
LEMMA StageKeeps ==
    ASSUME RetentionInv, NEW p \in Runs, Stage(p)
    PROVE  RetentionInv'
<1>1. RetentionTypeOK /\ OwnRun /\ TargetsFit
  BY DEF RetentionInv
<1>2. Moves(p, "staged", proc[p].target)
  BY <1>1, GoesMoves DEF Stage, Steps
<1>3. /\ UNCHANGED <<leased, holder, progress, born, notes, asked>>
      /\ whole' = whole \cup {p}
      /\ place' \in [Runs -> {"none", "staging", "kept", "aside", "gone"}]
      /\ place'[p] = "staging"
      /\ \A q \in Runs : q # p => place'[q] = place[q]
  BY <1>1 DEF Stage, RetentionTypeOK, journals
<1>4. At(p, "create") /\ place[p] = "none"
  BY <1>1 DEF Stage, At, OwnRun, Clearing
<1>5. RetentionTypeOK'
  BY <1>1, <1>2, <1>3 DEF RetentionTypeOK, Moves, Process
<1>6. OwnRun'
  BY <1>1, <1>2, <1>3, <1>4 DEF OwnRun, Moves, At, Clearing, Removing, Live
<1>7. TargetsFit'
  BY <1>1, <1>2, <1>3, <1>4 DEF TargetsFit, Moves, At, Clearing, Removing, Out
<1>8. QED
  BY <1>5, <1>6, <1>7 DEF RetentionInv

\* Its lease is made and held while it is still aside.
LEMMA TakeLeaseKeeps ==
    ASSUME RetentionInv, NEW p \in Runs, TakeLease(p)
    PROVE  RetentionInv'
<1>1. RetentionTypeOK /\ OwnRun /\ TargetsFit
  BY DEF RetentionInv
<1>2. Moves(p, "held", proc[p].target)
  BY <1>1, GoesMoves DEF TakeLease, Steps
<1>3. /\ UNCHANGED <<place, whole, progress, born, notes, asked>>
      /\ leased' \in [Runs -> BOOLEAN]
      /\ holder' \in [Runs -> Runs \cup {Nobody}]
      /\ leased'[p] /\ holder'[p] = p
      /\ \A q \in Runs : q # p => leased'[q] = leased[q] /\ holder'[q] = holder[q]
  BY <1>1 DEF TakeLease, RetentionTypeOK, journals
<1>4. At(p, "staged") /\ place[p] = "staging"
  BY <1>1 DEF TakeLease, At, OwnRun
<1>5. RetentionTypeOK'
  BY <1>1, <1>2, <1>3 DEF RetentionTypeOK, Moves, Process
<1>6. OwnRun'
  BY <1>1, <1>2, <1>3, <1>4 DEF OwnRun, Moves, At, Clearing, Removing, Live
<1>7. TargetsFit'
  BY <1>1, <1>2, <1>3, <1>4 DEF TargetsFit, Moves, At, Clearing, Removing, Out
<1>8. QED
  BY <1>5, <1>6, <1>7 DEF RetentionInv

\* It is named, whole and held.
LEMMA PlaceRunKeeps ==
    ASSUME RetentionInv, NEW p \in Runs, PlaceRun(p)
    PROVE  RetentionInv'
<1>1. RetentionTypeOK /\ OwnRun /\ TargetsFit
  BY DEF RetentionInv
<1>2. Moves(p, "placed", proc[p].target)
  BY <1>1, GoesMoves DEF PlaceRun, Steps
<1>3. /\ UNCHANGED <<whole, leased, holder, progress, born, notes, asked>>
      /\ place' \in [Runs -> {"none", "staging", "kept", "aside", "gone"}]
      /\ place'[p] = "kept"
      /\ \A q \in Runs : q # p => place'[q] = place[q]
  BY <1>1 DEF PlaceRun, RetentionTypeOK, journals
<1>4. At(p, "held") /\ place[p] = "staging"
  BY <1>1 DEF PlaceRun, At, OwnRun
<1>5. RetentionTypeOK'
  BY <1>1, <1>2, <1>3 DEF RetentionTypeOK, Moves, Process
<1>6. OwnRun'
  BY <1>1, <1>2, <1>3, <1>4 DEF OwnRun, Moves, At, Clearing, Removing, Live
<1>7. TargetsFit'
  BY <1>1, <1>2, <1>3, <1>4 DEF TargetsFit, Moves, At, Clearing, Removing, Out
<1>8. QED
  BY <1>5, <1>6, <1>7 DEF RetentionInv

\* A process that returns or dies, at any point: it leaves what it made as it
\* is, and its leases to whoever comes next.
LEMMA EndKeeps ==
    ASSUME RetentionInv, NEW p \in Runs, NEW pc \in Ended, Returns(p, pc),
           proc[p].pc \notin Ended, UNCHANGED <<files, born, notes, asked>>,
           progress' \in [Runs -> {"none", "open", "stopped", "concluded"}],
           \A q \in Runs : progress'[q] = "none" <=> progress[q] = "none"
    PROVE  RetentionInv'
<1>1. RetentionTypeOK /\ OwnRun /\ TargetsFit
  BY DEF RetentionInv
<1>2. Moves(p, pc, Nobody) /\ holder' = Released(p)
  BY <1>1, ReturnsMoves DEF Steps
<1>3. /\ UNCHANGED <<place, whole, leased, born, notes, asked>>
      /\ holder' \in [Runs -> Runs \cup {Nobody}]
      /\ \A q \in Runs : holder[q] # p => holder'[q] = holder[q]
  BY <1>1, <1>2, ReleasedHolder DEF files, journals
<1>4. {r \in Runs : progress'[r] # "none"} = {r \in Runs : progress[r] # "none"}
  OBVIOUS
<1>5. RetentionTypeOK'
  BY <1>1, <1>2, <1>3, <1>4 DEF RetentionTypeOK, Moves, Process
<1>6. OwnRun'
  BY <1>1, <1>2, <1>3, <1>4 DEF OwnRun, Moves, At, Ended, Clearing, Removing, Live
<1>7. TargetsFit'
  BY <1>1, <1>2, <1>3 DEF TargetsFit, Moves, At, Ended, Clearing, Removing, Out
<1>8. QED
  BY <1>5, <1>6, <1>7 DEF RetentionInv

\* The first record, an end, a resumption: the journal of the run a process
\* holds under the run's name, and of no other.
LEMMA RecordKeeps ==
    ASSUME RetentionInv, NEW p \in Runs, RecordRequest(p) \/ EndRun(p) \/ TakeOver(p)
    PROVE  RetentionInv'
<1>1. RetentionTypeOK /\ OwnRun /\ TargetsFit
  BY DEF RetentionInv
<1>2. CASE RecordRequest(p) /\ UNCHANGED journals /\ Returns(p, "done")
  BY <1>1, <1>2, EndKeeps DEF RecordRequest, At, Ended, journals, RetentionTypeOK
<1>3. CASE /\ RecordRequest(p)
           /\ progress' = [progress EXCEPT ![p] = "open"]
           /\ born' = Append(born, p)
           /\ Goes(p, "coordinating")
           /\ UNCHANGED holder
  <2>1. Moves(p, "coordinating", proc[p].target)
    BY <1>1, <1>3, GoesMoves DEF Steps
  <2>2. At(p, "placed") /\ progress[p] = "none" /\ place[p] = "kept" /\ holder[p] = p
    BY <1>1, <1>3 DEF RecordRequest, At, OwnRun, Live
  <2>3. /\ UNCHANGED <<place, whole, leased, holder, notes, asked>>
        /\ progress' \in [Runs -> {"none", "open", "stopped", "concluded"}]
        /\ progress'[p] = "open"
        /\ \A q \in Runs : q # p => progress'[q] = progress[q]
    BY <1>1, <1>3 DEF RecordRequest, RetentionTypeOK, files
  <2>4. RetentionTypeOK'
    BY <1>1, <1>3, <2>1, <2>2, <2>3, BornOnce DEF RetentionTypeOK, Moves, Process
  <2>5. OwnRun'
    BY <1>1, <2>1, <2>2, <2>3 DEF OwnRun, Moves, At, Clearing, Removing, Live
  <2>6. TargetsFit'
    BY <1>1, <2>1, <2>2, <2>3 DEF TargetsFit, Moves, At, Clearing, Removing, Out
  <2>7. QED
    BY <2>4, <2>5, <2>6 DEF RetentionInv
<1>4. CASE EndRun(p)
  <2>1. /\ progress[p] # "none"
        /\ \E end \in {"stopped", "concluded"} : progress' = [progress EXCEPT ![p] = end]
    BY <1>1, <1>4 DEF EndRun, At, OwnRun, Live
  <2>2. /\ progress' \in [Runs -> {"none", "open", "stopped", "concluded"}]
        /\ \A q \in Runs : progress'[q] = "none" <=> progress[q] = "none"
    BY <1>1, <2>1 DEF RetentionTypeOK
  <2>3. QED
    BY <1>4, <2>2, EndKeeps DEF EndRun, At, Ended
<1>5. CASE TakeOver(p) /\ Returns(p, "done") /\ UNCHANGED progress
  BY <1>1, <1>5, EndKeeps DEF TakeOver, At, Ended, RetentionTypeOK
<1>6. CASE /\ TakeOver(p)
           /\ progress' = [progress EXCEPT ![p] = "open"]
           /\ Goes(p, "coordinating")
           /\ UNCHANGED holder
  <2>1. Moves(p, "coordinating", proc[p].target)
    BY <1>1, <1>6, GoesMoves DEF Steps
  <2>2. At(p, "reopened") /\ progress[p] # "none" /\ place[p] = "kept" /\ holder[p] = p
    BY <1>1, <1>6 DEF TakeOver, At, OwnRun, Live
  <2>3. /\ UNCHANGED <<place, whole, leased, holder, born, notes, asked>>
        /\ progress' \in [Runs -> {"none", "open", "stopped", "concluded"}]
        /\ \A q \in Runs : progress'[q] = "none" <=> progress[q] = "none"
    BY <1>1, <1>6, <2>2 DEF TakeOver, RetentionTypeOK, files
  <2>4. {r \in Runs : progress'[r] # "none"} = {r \in Runs : progress[r] # "none"}
    BY <2>3
  <2>5. RetentionTypeOK'
    BY <1>1, <2>1, <2>3, <2>4 DEF RetentionTypeOK, Moves, Process
  <2>6. OwnRun'
    BY <1>1, <2>1, <2>2, <2>3 DEF OwnRun, Moves, At, Clearing, Removing, Live
  <2>7. TargetsFit'
    BY <1>1, <2>1, <2>2, <2>3 DEF TargetsFit, Moves, At, Clearing, Removing, Out
  <2>8. QED
    BY <2>5, <2>6, <2>7 DEF RetentionInv
<1>7. QED
  BY <1>2, <1>3, <1>4, <1>5, <1>6 DEF RecordRequest, TakeOver

\* `Coordinator::reopen`: a later process takes the run over where it is.
LEMMA ReopenKeeps ==
    ASSUME RetentionInv, NEW p \in Runs, Reopen(p)
    PROVE  RetentionInv'
<1>1. RetentionTypeOK /\ OwnRun /\ TargetsFit
  BY DEF RetentionInv
<1>2. Moves(p, "reopened", proc[p].target)
  BY <1>1, GoesMoves DEF Reopen, Steps
<1>3. /\ UNCHANGED <<place, whole, leased, progress, born, notes, asked>>
      /\ holder' \in [Runs -> Runs \cup {Nobody}]
      /\ holder'[p] = p
      /\ \A q \in Runs : q # p => holder'[q] = holder[q]
      /\ \A q \in Runs : holder[q] # Nobody => holder'[q] = holder[q]
  BY <1>1 DEF Reopen, RetentionTypeOK, files, journals
<1>4. /\ proc[p].pc \in Ended /\ place[p] = "kept" /\ progress[p] # "none"
      /\ \A q \in Runs : q # Nobody
  BY RetentionAssumption DEF Reopen, RetentionAssumption
<1>5. RetentionTypeOK'
  BY <1>1, <1>2, <1>3 DEF RetentionTypeOK, Moves, Process
<1>6. OwnRun'
  BY <1>1, <1>2, <1>3, <1>4 DEF OwnRun, Moves, At, Ended, Clearing, Removing, Live
<1>7. TargetsFit'
  BY <1>1, <1>2, <1>3, <1>4 DEF TargetsFit, Moves, At, Ended, Clearing, Removing, Out
<1>8. QED
  BY <1>5, <1>6, <1>7 DEF RetentionInv

\* A process killed between two steps.
LEMMA CrashKeeps ==
    ASSUME RetentionInv, NEW p \in Runs, Crash(p)
    PROVE  RetentionInv'
BY EndKeeps DEF Crash, Ended, journals, RetentionInv, RetentionTypeOK

\* What `known` asks changes nothing it asks about.
LEMMA AskKeeps ==
    ASSUME RetentionInv, Answer \/ (\E r \in Runs : Ask(r))
    PROVE  RetentionInv'
<1>1. RetentionTypeOK /\ OwnRun /\ TargetsFit
  BY DEF RetentionInv
<1>2. UNCHANGED <<place, whole, leased, holder, progress, born, notes, proc>>
  BY DEF Answer, Ask, files, journals
<1>3. RetentionTypeOK'
  BY <1>1, <1>2 DEF RetentionTypeOK, Answer, Ask
<1>4. OwnRun' /\ TargetsFit'
  BY <1>1, <1>2 DEF OwnRun, TargetsFit, At
<1>5. QED
  BY <1>3, <1>4 DEF RetentionInv

\* Every step of every process keeps the invariant.
LEMMA RetentionNext == RetentionInv /\ [Next]_vars => RetentionInv'
<1> SUFFICES ASSUME RetentionInv, [Next]_vars
             PROVE  RetentionInv'
  OBVIOUS
<1>1. ASSUME NEW p \in Runs, ProcessStep(p)
      PROVE  RetentionInv'
  BY <1>1, SweepKeeps, SweepDeleteKeeps, ChooseKeeps, LockKeeps, MoveAsideKeeps, NoteItKeeps,
     DeleteKeeps, StageKeeps, TakeLeaseKeeps, PlaceRunKeeps, RecordKeeps DEF ProcessStep
<1>2. CASE UNCHANGED vars
  BY <1>2 DEF vars, RetentionInv, RetentionTypeOK, OwnRun, TargetsFit, At
<1>3. QED
  BY <1>1, <1>2, ReopenKeeps, CrashKeeps, AskKeeps DEF Next

\* So it holds throughout.
LEMMA RetentionHolds == Spec => []RetentionInv
BY RetentionInit, RetentionNext, PTL DEF Spec

-----------------------------------------------------------------------------
\* Directories, leases, journals and processes keep the shape the code gives
\* them.
THEOREM RetentionTypeCorrect == Spec => []RetentionTypeOK
<1>1. RetentionInv => RetentionTypeOK
  BY DEF RetentionInv
<1>2. QED
  BY <1>1, RetentionHolds, PTL

\* `prune`, `remove_run` and `Coordinator::create`: however many processes
\* sweep and prune on lists they took earlier, the run of a process that lives
\* stays where it is and held.
THEOREM LiveRunIsSpared == Spec => []LiveRunStays
<1>1. RetentionInv => LiveRunStays
  BY DEF RetentionInv, OwnRun, Live, LiveRunStays
<1>2. QED
  BY <1>1, RetentionHolds, PTL

\* What has a run's name is a whole run: it is named last and unnamed first,
\* wherever a process dies.
THEOREM NamedRunIsWhole == Spec => []KeptIsWhole
<1>1. ASSUME RetentionInv
      PROVE  KeptIsWhole
  <2>1. RetentionTypeOK /\ OwnRun
    BY <1>1 DEF RetentionInv
  <2> SUFFICES ASSUME NEW r \in Runs, place[r] = "kept"
               PROVE  /\ r \in whole /\ leased[r]
                      /\ progress[r] = "none" => holder[r] # Nobody \/ proc[r].pc \in Ended
    BY DEF KeptIsWhole
  <2>2. r \in whole /\ leased[r]
    BY <2>1 DEF OwnRun
  <2>3. proc[r].pc \in Live \cup Ended
    BY <2>1 DEF RetentionTypeOK, OwnRun, Steps, Live
  <2>4. r # Nobody
    BY RetentionAssumption DEF RetentionAssumption
  <2>5. QED
    BY <2>1, <2>2, <2>3, <2>4 DEF OwnRun
<1>2. QED
  BY <1>1, RetentionHolds, PTL

(***************************************************************************)
(* The tombstones, as long as a sweep can write its own ("sweep" is not    *)
(* among the events).  They are only evicted once they fill their budget,  *)
(* and then fill it for good: up to there, a run is deleted only after it  *)
(* was noted, it is noted while it is whole, and its journal is final from *)
(* the moment it was moved aside.                                          *)
(***************************************************************************)
Full == Len(notes) >= TombstoneBudget

\* A process that is about to note a run, and one that is about to delete it.
Notes(p, r) == proc[p].target = r /\ proc[p].pc \in {"noting", "sweepnote"}
Deletes(p, r) ==
    /\ proc[p].target = r
    /\ proc[p].pc = "deleting" \/ (proc[p].pc = "sweepdelete" /\ place[r] = "aside")

NotesKept ==
    /\ \A r \in Runs : place[r] = "gone" /\ progress[r] # "none" => Noted(r) \/ Full
    /\ \A p, r \in Runs : Deletes(p, r) => Noted(r) \/ Full

NotesTrue ==
    /\ NoteTellsTheEnd
    /\ \A r \in Runs : Noted(r) => place[r] \in Out
    /\ \A r \in Runs : place[r] = "aside" => r \in whole \/ Noted(r)
    /\ \A p, r \in Runs : Notes(p, r) => r \in whole \/ Noted(r)

NotesInv ==
    /\ RetentionInv
    /\ NotesKept
    /\ ~Full => NotesTrue

\* The steps of a process at which it notes a run or deletes it.
Noting == {"noting", "deleting", "sweepnote", "sweepdelete"}

\* A step that notes, moves aside and deletes nothing.
Aloof ==
    /\ \A q \in Runs : proc'[q].pc \in Noting => proc'[q] = proc[q]
    /\ \A r \in Runs : place[r] \in Out \/ place'[r] \in Out =>
         place'[r] = place[r] /\ progress'[r] = progress[r]
    /\ whole \subseteq whole'

\* What such a step makes of the tombstones: it may evict the oldest when
\* they are more than the budget.
Evicted == UNCHANGED notes \/ (Len(notes) > TombstoneBudget /\ notes' = Tail(notes))

-----------------------------------------------------------------------------
\* A tombstone notes its run.
LEMMA NotesAreNoted ==
    ASSUME RetentionTypeOK
    PROVE  \A i \in DOMAIN notes : notes[i].run \in Runs /\ Noted(notes[i].run)
<1>1. notes \in Seq(Tombstone)
  BY DEF RetentionTypeOK, Tombstone
<1>2. \A i \in DOMAIN notes : notes[i] \in Tombstone
  BY <1>1
<1>3. QED
  BY <1>2 DEF Tombstone, Noted

\* Evicting the oldest tombstone leaves the budget filled.
LEMMA EvictedIsFull ==
    ASSUME RetentionTypeOK, Evicted
    PROVE  (Full => Full') /\ (~Full' => UNCHANGED notes)
<1>1. notes \in Seq(Tombstone) /\ TombstoneBudget \in Nat \ {0}
  BY RetentionAssumption DEF RetentionTypeOK, Tombstone, RetentionAssumption
<1>2. QED
  BY <1>1 DEF Evicted, Full

\* A step that notes nothing and deletes nothing leaves what is noted.
LEMMA AloofKeeps ==
    ASSUME NotesInv, Aloof, Evicted
    PROVE  NotesKept' /\ (~Full' => NotesTrue')
<1>1. RetentionTypeOK /\ OwnRun /\ TargetsFit /\ NotesKept
  BY DEF NotesInv, RetentionInv
<1>2. (Full => Full') /\ (~Full' => UNCHANGED notes)
  BY <1>1, EvictedIsFull
<1>3. CASE Full'
  BY <1>3 DEF NotesKept
<1>4. CASE ~Full'
  <2>1. UNCHANGED notes /\ NotesTrue /\ ~Full
    BY <1>2, <1>4 DEF NotesInv
  <2>2. \A r : Noted(r)' <=> Noted(r)
    BY <2>1 DEF Noted
  <2>3. \A r \in Runs : Noted(r) => place'[r] = place[r] /\ progress'[r] = progress[r]
    BY <2>1 DEF Aloof, NotesTrue
  <2>4. NoteTellsTheEnd'
    <3>1. \A i \in DOMAIN notes : notes[i].run \in Runs /\ Noted(notes[i].run)
      BY <1>1, NotesAreNoted
    <3>2. QED
      BY <2>1, <2>3, <3>1 DEF NotesTrue, NoteTellsTheEnd
  <2>5. \A p, r \in Runs : Notes(p, r)' => r \in whole' \/ Noted(r)
    BY <2>1 DEF Aloof, NotesTrue, Notes, Noting
  <2>6. \A r \in Runs : place'[r] = "aside" => r \in whole' \/ Noted(r)
    BY <2>1 DEF Aloof, NotesTrue, Out
  <2>7. \A r \in Runs : place'[r] = "gone" /\ progress'[r] # "none" => Noted(r) \/ Full
    BY <1>1 DEF Aloof, NotesKept, Out
  <2>8. \A p, r \in Runs : Deletes(p, r)' => Noted(r) \/ Full
    BY <1>1 DEF NotesKept, Aloof, Deletes, Noting, Out
  <2>9. QED
    BY <2>1, <2>2, <2>3, <2>4, <2>5, <2>6, <2>7, <2>8 DEF NotesKept, NotesTrue
<1>5. QED
  BY <1>3, <1>4

\* The steps that are aloof: all but those that note, move aside and delete.
AloofStep(p) ==
    \/ BeginSweep(p) \/ Choose(p) \/ OpenLease(p) \/ Lock(p) \/ BoundNotes(p)
    \/ Stage(p) \/ TakeLease(p) \/ PlaceRun(p) \/ RecordRequest(p) \/ EndRun(p)
    \/ TakeOver(p) \/ Reopen(p) \/ Crash(p)

\* Each of them is.
LEMMA StepsAreAloof ==
    ASSUME RetentionInv, NEW p \in Runs, AloofStep(p)
    PROVE  Aloof /\ Evicted
<1>1. RetentionTypeOK /\ OwnRun /\ TargetsFit
  BY DEF RetentionInv
<1>2. \/ UNCHANGED proc
      \/ \E pc \in Steps \ Noting, target \in Runs \cup {Nobody} : Moves(p, pc, target)
  <2>1. proc[p].target \in Runs \cup {Nobody}
    BY <1>1 DEF RetentionTypeOK
  <2>2. {"sweeping", "pruning", "create", "opened", "locked", "staged", "held", "placed",
         "coordinating", "reopened", "done", "dead"} \subseteq Steps \ Noting
    BY DEF Steps, Clearing, Removing, Ended, Noting
  <2>3. CASE BeginSweep(p)
    BY <1>1, <2>2, <2>3, TurnsMoves DEF BeginSweep, Leftovers
  <2>4. CASE Choose(p)
    <3>1. PICK pc \in {"pruning", "create"}, todo \in SUBSET Runs : Turns(p, pc, Nobody, todo)
      BY <2>4 DEF Choose, Kept
    <3>2. QED
      BY <1>1, <2>2, <3>1, TurnsMoves
  <2>5. CASE OpenLease(p)
    <3>1. PICK r \in proc[p].todo : \/ Turns(p, "opened", r, proc[p].todo)
                                    \/ PassesOn(p, r, "pruning")
      BY <2>5 DEF OpenLease
    <3>2. r \in Runs /\ proc[p].todo \in SUBSET Runs
      BY <1>1 DEF RetentionTypeOK
    <3>3. QED
      BY <1>1, <2>2, <3>1, <3>2, TurnsMoves, PassesMoves
  <2>6. CASE Lock(p)
    BY <1>1, <2>1, <2>2, <2>6, GoesMoves, PassesMoves DEF Lock
  <2>7. CASE BoundNotes(p)
    BY <1>1, <2>1, <2>2, <2>7, GoesMoves DEF BoundNotes
  <2>8. CASE Stage(p) \/ TakeLease(p) \/ PlaceRun(p) \/ Reopen(p)
    BY <1>1, <2>1, <2>2, <2>8, GoesMoves DEF Stage, TakeLease, PlaceRun, Reopen
  <2>9. CASE RecordRequest(p) \/ EndRun(p) \/ TakeOver(p) \/ Crash(p)
    BY <1>1, <2>1, <2>2, <2>9, GoesMoves, ReturnsMoves
       DEF RecordRequest, EndRun, TakeOver, Crash
  <2>10. QED
    BY <2>3, <2>4, <2>5, <2>6, <2>7, <2>8, <2>9 DEF AloofStep
<1>3. \A q \in Runs : proc'[q].pc \in Noting => proc'[q] = proc[q]
  BY <1>2 DEF Moves
<1>4. /\ \A r \in Runs : place[r] \in Out \/ place'[r] \in Out => place'[r] = place[r]
      /\ whole \subseteq whole'
  BY <1>1 DEF AloofStep, BeginSweep, Choose, OpenLease, Lock, BoundNotes, Stage, TakeLease,
     PlaceRun, RecordRequest, EndRun, TakeOver, Reopen, Crash, files, Out,
     RetentionTypeOK, OwnRun, At, Clearing
<1>5. \/ UNCHANGED progress
      \/ place[p] = "kept" /\ \A r \in Runs : r # p => progress'[r] = progress[r]
  BY <1>1 DEF AloofStep, BeginSweep, Choose, OpenLease, Lock, BoundNotes, Stage, TakeLease,
     PlaceRun, RecordRequest, EndRun, TakeOver, Reopen, Crash, journals,
     RetentionTypeOK, OwnRun, At, Live
<1>6. Evicted
  BY DEF AloofStep, BeginSweep, Choose, OpenLease, Lock, BoundNotes, Stage, TakeLease,
     PlaceRun, RecordRequest, EndRun, TakeOver, Reopen, Crash, Evicted
<1>7. QED
  BY <1>3, <1>4, <1>5, <1>6 DEF Aloof, Out

\* A note about a run that was moved aside, and that is whole or noted
\* already, says what the run came to.
LEMMA NoteIsTrue ==
    ASSUME NotesInv, NEW r \in Runs, Note(r), place[r] \in Out, r \in whole \/ Noted(r),
           UNCHANGED progress, NotesTrue
    PROVE  NoteTellsTheEnd'
<1>1. RetentionTypeOK
  BY DEF NotesInv, RetentionInv
<1>2. CASE Noted(r)
  BY <1>2 DEF Note, NotesTrue, NoteTellsTheEnd
<1>3. CASE ~Noted(r)
  <2>1. Readings(r) = {State(progress[r])}
    BY <1>3 DEF Readings
  <2>2. ASSUME NEW i \in DOMAIN notes'
        PROVE  notes'[i].state = State(progress[notes'[i].run])
    <3>1. \/ i \in DOMAIN notes /\ notes'[i] = notes[i]
          \/ notes'[i].run = r /\ notes'[i].state \in Readings(r)
      BY <1>1, NoteAdds
    <3>2. QED
      BY <2>1, <3>1 DEF NotesTrue, NoteTellsTheEnd
  <2>3. QED
    BY <2>2 DEF NoteTellsTheEnd
<1>4. QED
  BY <1>2, <1>3

\* A process that notes the run it has aside, and only then turns to delete it.
LEMMA NotingKeeps ==
    ASSUME NotesInv, NEW p \in Runs, NEW pc \in {"deleting", "sweepdelete"},
           proc[p].pc \in {"noting", "sweepnote"}, Note(proc[p].target), Goes(p, pc),
           UNCHANGED <<files, journals>>
    PROVE  NotesKept' /\ (~Full' => NotesTrue')
<1> DEFINE t == proc[p].target
<1>1. RetentionTypeOK /\ OwnRun /\ TargetsFit /\ NotesKept
  BY DEF NotesInv, RetentionInv
<1>2. /\ Moves(p, pc, t)
      /\ UNCHANGED <<place, whole, leased, progress, born>>
      /\ t \in Runs /\ place[t] \in Out
  BY <1>1, GoesMoves DEF TargetsFit, Removing, Steps, Clearing, files, journals
<1>3. /\ \A s \in Runs : Noted(s) \/ s = t <=> Noted(s)'
      /\ Len(notes') >= Len(notes) /\ Len(notes') \in Nat /\ Len(notes) \in Nat
  BY <1>1, <1>2, NoteAdds DEF RetentionTypeOK
<1>4. TombstoneBudget \in Nat
  BY RetentionAssumption DEF RetentionAssumption
<1>5. Full => Full'
  BY <1>3, <1>4 DEF Full
<1> HIDE DEF t
<1>6. NotesKept'
  <2>1. \A r \in Runs : place'[r] = "gone" /\ progress'[r] # "none" => Noted(r)' \/ Full'
    BY <1>1, <1>2, <1>3, <1>5 DEF NotesKept
  <2>2. ASSUME NEW q \in Runs, NEW r \in Runs, Deletes(q, r)'
        PROVE  Noted(r)' \/ Full'
    <3>1. CASE q = p
      BY <1>2, <1>3, <2>2, <3>1 DEF Moves, Deletes
    <3>2. CASE q # p
      BY <1>1, <1>2, <1>3, <1>5, <2>2, <3>2 DEF Moves, Deletes, NotesKept
    <3>3. QED
      BY <3>1, <3>2
  <2>3. QED
    BY <2>1, <2>2 DEF NotesKept
<1>7. ASSUME ~Full'
      PROVE  NotesTrue'
  <2>1. NotesTrue
    BY <1>5, <1>7 DEF NotesInv
  <2>2. t \in whole \/ Noted(t)
    BY <1>2, <2>1 DEF NotesTrue, Notes, t
  <2>3. NoteTellsTheEnd'
    BY <1>2, <2>1, <2>2, NoteIsTrue DEF t
  <2>4. \A r \in Runs : Noted(r)' => place'[r] \in Out
    BY <1>2, <1>3, <2>1 DEF NotesTrue
  <2>5. \A r \in Runs : place'[r] = "aside" => r \in whole' \/ Noted(r)'
    BY <1>2, <1>3, <2>1 DEF NotesTrue
  <2>6. \A q, r \in Runs : Notes(q, r)' => r \in whole' \/ Noted(r)'
    BY <1>2, <1>3, <2>1 DEF NotesTrue, Notes, Moves
  <2>7. QED
    BY <2>3, <2>4, <2>5, <2>6 DEF NotesTrue
<1>8. QED
  BY <1>6, <1>7

\* Deleting a run that was noted, or that no journal was ever recorded for.
LEMMA DeletingKeeps ==
    ASSUME NotesInv, NEW p \in Runs, NEW r \in Runs, proc[p].target = r, Erases(r),
           UNCHANGED <<journals, notes>>,
           Deletes(p, r) \/ (At(p, "sweepdelete") /\ place[r] = "staging"),
           UNCHANGED proc \/ Moves(p, "sweeping", Nobody) \/ Moves(p, "pruning", Nobody)
    PROVE  NotesKept' /\ (~Full' => NotesTrue')
<1>1. RetentionTypeOK /\ OwnRun /\ TargetsFit /\ NotesKept
  BY DEF NotesInv, RetentionInv
<1>2. /\ UNCHANGED <<progress, born, notes>>
      /\ \A s \in Runs : Noted(s)' <=> Noted(s)
      /\ Full' <=> Full
  BY DEF journals, Noted, Full
<1>3. \A q, s \in Runs :
        proc'[q].target = s /\ proc'[q].pc \in Noting => proc'[q] = proc[q]
  BY DEF Moves, Noting
<1>4. Noted(r) \/ Full \/ progress[r] = "none"
  BY <1>1 DEF NotesKept, OwnRun
<1>5. NotesKept'
  <2>1. ASSUME NEW s \in Runs, place'[s] = "gone" /\ progress'[s] # "none"
        PROVE  Noted(s) \/ Full
    BY <1>1, <1>2, <1>4, <2>1 DEF NotesKept, Erases
  <2>2. ASSUME NEW q \in Runs, NEW s \in Runs, Deletes(q, s)'
        PROVE  Noted(s) \/ Full
    <3>1. proc'[q] = proc[q] /\ (place'[s] = "aside" => place[s] = "aside")
      BY <1>3, <2>2 DEF Deletes, Noting, Erases
    <3>2. QED
      BY <1>1, <2>2, <3>1 DEF NotesKept, Deletes
  <2>3. QED
    BY <1>2, <2>1, <2>2 DEF NotesKept
<1>6. ASSUME ~Full'
      PROVE  NotesTrue'
  <2>1. NotesTrue /\ ~Full
    BY <1>2, <1>6 DEF NotesInv
  <2>2. Noted(r) \/ place[r] = "staging"
    BY <1>1, <2>1 DEF NotesKept
  <2>3. NoteTellsTheEnd'
    BY <1>2, <2>1 DEF NotesTrue, NoteTellsTheEnd
  <2>4. \A s \in Runs : Noted(s) => place'[s] \in Out
    BY <2>1 DEF NotesTrue, Erases, Out
  <2>5. \A s \in Runs : place'[s] = "aside" => s \in whole' \/ Noted(s)
    BY <2>1, <2>2 DEF NotesTrue, Erases
  <2>6. ASSUME NEW q \in Runs, NEW s \in Runs, Notes(q, s)'
        PROVE  s \in whole' \/ Noted(s)
    <3>1. proc'[q] = proc[q] /\ place[s] \in Out
      BY <1>1, <1>3, <2>6 DEF Notes, Noting, TargetsFit
    <3>2. QED
      BY <2>1, <2>2, <2>6, <3>1 DEF NotesTrue, Notes, Erases, Out
  <2>7. QED
    BY <1>2, <2>3, <2>4, <2>5, <2>6 DEF NotesTrue
<1>7. QED
  BY <1>5, <1>6

\* A process that passes a run over, or lets go of it, is aloof.
LEMMA PassingIsAloof ==
    ASSUME NEW p \in Runs, NEW pc \in {"sweeping", "pruning"}, Moves(p, pc, Nobody),
           UNCHANGED <<files, journals, notes>>
    PROVE  Aloof /\ Evicted
BY DEF Moves, Noting, Aloof, Evicted, files, journals

\* A sweep turns to a run left aside, which is whole or noted, or to a
\* creation left behind.
LEMMA SweepTrue ==
    ASSUME NotesInv, NEW p \in Runs, Sweep(p)
    PROVE  NotesKept' /\ (~Full' => NotesTrue')
<1>1. RetentionTypeOK /\ OwnRun /\ TargetsFit /\ NotesKept
  BY DEF NotesInv, RetentionInv
<1>2. PICK r \in proc[p].todo :
        \/ /\ r \in Leftovers
           /\ Turns(p, IF place[r] = "aside" THEN "sweepnote" ELSE "sweepdelete",
                    r, proc[p].todo \ {r})
        \/ PassesOn(p, r, "sweeping")
  BY DEF Sweep
<1>3. r \in Runs /\ proc[p].todo \ {r} \in SUBSET Runs
  BY <1>1 DEF RetentionTypeOK
<1>4. \/ /\ r \in Leftovers
         /\ Moves(p, IF place[r] = "aside" THEN "sweepnote" ELSE "sweepdelete", r)
      \/ Moves(p, "sweeping", Nobody)
  BY <1>1, <1>2, <1>3, TurnsMoves, PassesMoves DEF Steps, Clearing
<1>5. /\ UNCHANGED <<place, whole, progress, notes>>
      /\ \A s \in Runs : Noted(s)' <=> Noted(s)
      /\ Full' <=> Full
  BY DEF Sweep, files, journals, Noted, Full
<1>6. CASE Moves(p, "sweeping", Nobody)
  BY <1>6, PassingIsAloof, AloofKeeps DEF Sweep
<1>7. CASE /\ r \in Leftovers
           /\ Moves(p, IF place[r] = "aside" THEN "sweepnote" ELSE "sweepdelete", r)
  <2>1. \A q, s \in Runs : Deletes(q, s)' => Deletes(q, s)
    BY <1>5, <1>7 DEF Deletes, Moves
  <2>2. NotesKept'
    BY <1>1, <1>5, <2>1 DEF NotesKept
  <2>3. ASSUME ~Full'
        PROVE  NotesTrue'
    <3>1. NotesTrue
      BY <1>5, <2>3 DEF NotesInv
    <3>2. NoteTellsTheEnd'
      BY <1>5, <3>1 DEF NotesTrue, NoteTellsTheEnd
    <3>3. \A q, s \in Runs : Notes(q, s)' => Notes(q, s) \/ place[s] = "aside"
      BY <1>7 DEF Notes, Moves
    <3>4. QED
      BY <1>5, <3>1, <3>2, <3>3 DEF NotesTrue
  <2>4. QED
    BY <2>2, <2>3
<1>8. QED
  BY <1>4, <1>6, <1>7

\* What is moved aside is whole.
LEMMA MoveAsideTrue ==
    ASSUME NotesInv, NEW p \in Runs, MoveAside(p)
    PROVE  NotesKept' /\ (~Full' => NotesTrue')
<1> DEFINE r == proc[p].target
<1>1. RetentionTypeOK /\ OwnRun /\ TargetsFit /\ NotesKept
  BY DEF NotesInv, RetentionInv
<1>2. r \in Runs
  BY <1>1 DEF MoveAside, At, TargetsFit, Removing
<1>3. CASE place[r] = "kept"
  <2>1. Moves(p, "noting", r)
    BY <1>1, <1>3, GoesMoves DEF MoveAside, Steps, Clearing, Removing
  <2>2. /\ UNCHANGED <<whole, progress, notes>>
        /\ place'[r] = "aside" /\ r \in whole
        /\ \A q \in Runs : q # r => place'[q] = place[q]
        /\ \A s \in Runs : Noted(s)' <=> Noted(s)
        /\ Full' <=> Full
    BY <1>1, <1>2, <1>3 DEF MoveAside, RetentionTypeOK, OwnRun, journals, Noted, Full
  <2> HIDE DEF r
  <2>3. ASSUME NEW q \in Runs, NEW s \in Runs, Deletes(q, s)'
        PROVE  Deletes(q, s)
    <3>1. proc'[q] = proc[q]
      BY <2>1, <2>3 DEF Deletes, Moves
    <3>2. s # r
      BY <1>1, <1>3, <2>3, <3>1 DEF Deletes, TargetsFit, At, Out, Removing
    <3>3. QED
      BY <2>2, <2>3, <3>1, <3>2 DEF Deletes
  <2>4. NotesKept'
    BY <1>1, <2>2, <2>3 DEF NotesKept
  <2>5. ASSUME ~Full'
        PROVE  NotesTrue'
    <3>1. NotesTrue
      BY <2>2, <2>5 DEF NotesInv
    <3>2. NoteTellsTheEnd'
      BY <2>2, <3>1 DEF NotesTrue, NoteTellsTheEnd
    <3>3. \A q, s \in Runs : Notes(q, s)' => Notes(q, s) \/ s = r
      BY <2>1 DEF Notes, Moves
    <3>4. QED
      BY <1>3, <2>2, <3>1, <3>2, <3>3 DEF NotesTrue, Out
  <2>6. QED
    BY <2>4, <2>5
<1>4. CASE place[r] # "kept"
  <2>1. Moves(p, "pruning", Nobody)
    BY <1>1, <1>4, PassesMoves DEF MoveAside, Steps, Clearing
  <2>2. QED
    BY <1>4, <2>1, PassingIsAloof, AloofKeeps DEF MoveAside, files
<1>5. QED
  BY <1>3, <1>4

\* Every step keeps the tombstones, as long as the sweeps can write theirs.
LEMMA NotesNext ==
    ASSUME "sweep" \notin Events
    PROVE  NotesInv /\ [Next]_vars => NotesInv'
<1> SUFFICES ASSUME NotesInv, [Next]_vars
             PROVE  NotesInv'
  OBVIOUS
<1>1. RetentionTypeOK /\ OwnRun /\ TargetsFit /\ RetentionInv
  BY DEF NotesInv, RetentionInv
<1>2. RetentionInv'
  BY <1>1, RetentionNext
<1> SUFFICES NotesKept' /\ (~Full' => NotesTrue')
  BY <1>2 DEF NotesInv
<1>3. ASSUME NEW p \in Runs, AloofStep(p)
      PROVE  NotesKept' /\ (~Full' => NotesTrue')
  BY <1>1, <1>3, StepsAreAloof, AloofKeeps
<1>4. ASSUME NEW p \in Runs, SweepNote(p) \/ NoteIt(p)
      PROVE  NotesKept' /\ (~Full' => NotesTrue')
  <2>1. CASE Note(proc[p].target) /\ \E pc \in {"deleting", "sweepdelete"} : Goes(p, pc)
    BY <1>4, <2>1, NotingKeeps DEF SweepNote, NoteIt, At
  <2>2. CASE PassesOn(p, proc[p].target, "pruning") /\ UNCHANGED <<files, journals, notes>>
    <3>1. Moves(p, "pruning", Nobody)
      BY <1>1, <2>2, PassesMoves DEF Steps, Clearing
    <3>2. QED
      BY <2>2, <3>1, PassingIsAloof, AloofKeeps
  <2>3. QED
    BY <1>4, <2>1, <2>2 DEF SweepNote, NoteIt
<1>5. ASSUME NEW p \in Runs, SweepDelete(p)
      PROVE  NotesKept' /\ (~Full' => NotesTrue')
  <2> DEFINE r == proc[p].target
  <2>1. r \in Runs /\ (PassesOn(p, r, "sweeping") => Moves(p, "sweeping", Nobody))
    BY <1>1, <1>5, PassesMoves DEF SweepDelete, At, TargetsFit, Steps, Clearing
  <2>2. CASE place[r] \in {"staging", "aside"}
    <3>1. Erases(r)
      BY <1>1, <1>5, <2>1, <2>2, DeleteErases DEF SweepDelete
    <3>2. UNCHANGED proc \/ Moves(p, "sweeping", Nobody)
      BY <1>5, <2>1, <2>2 DEF SweepDelete
    <3>3. Deletes(p, r) \/ (At(p, "sweepdelete") /\ place[r] = "staging")
      BY <1>5, <2>2 DEF SweepDelete, Deletes, At
    <3>4. UNCHANGED <<journals, notes>>
      BY <1>5 DEF SweepDelete
    <3>5. QED
      BY <2>1, <3>1, <3>2, <3>3, <3>4, DeletingKeeps
  <2>3. CASE place[r] \notin {"staging", "aside"}
    <3>1. Moves(p, "sweeping", Nobody) /\ UNCHANGED <<files, journals, notes>>
      BY <1>5, <2>1, <2>3 DEF SweepDelete
    <3>2. QED
      BY <3>1, PassingIsAloof, AloofKeeps
  <2>4. QED
    BY <2>2, <2>3
<1>6. ASSUME NEW p \in Runs, Delete(p)
      PROVE  NotesKept' /\ (~Full' => NotesTrue')
  <2> DEFINE r == proc[p].target
  <2>1. r \in Runs
    BY <1>1, <1>6 DEF Delete, At, TargetsFit, Removing
  <2>2. UNCHANGED proc \/ Moves(p, "pruning", Nobody)
    BY <1>1, <1>6, PassesMoves DEF Delete, Steps, Clearing
  <2>3. Erases(r)
    BY <1>1, <1>6, <2>1, DeleteErases DEF Delete
  <2>4. Deletes(p, r) /\ UNCHANGED <<journals, notes>>
    BY <1>6 DEF Delete, Deletes, At
  <2>5. QED
    BY <2>1, <2>2, <2>3, <2>4, DeletingKeeps
<1>7. CASE Answer \/ (\E r \in Runs : Ask(r)) \/ UNCHANGED vars
  <2>1. UNCHANGED <<place, whole, progress, notes, proc>>
    BY <1>7 DEF Answer, Ask, vars, files, journals
  <2>2. Aloof /\ Evicted
    BY <2>1 DEF Aloof, Evicted
  <2>3. QED
    BY <2>2, AloofKeeps
<1>8. QED
  BY <1>3, <1>4, <1>5, <1>6, <1>7, SweepTrue, MoveAsideTrue DEF Next, ProcessStep, AloofStep

\* So what is said of the tombstones holds throughout.
LEMMA NotesHold ==
    ASSUME "sweep" \notin Events
    PROVE  Spec => []NotesInv
<1>1. Init => NotesInv
  <2> SUFFICES ASSUME Init
               PROVE  NotesInv
    OBVIOUS
  <2>1. RetentionInv /\ notes = <<>> /\ DOMAIN notes = {}
    BY RetentionInit DEF Init
  <2>2. \A r \in Runs : place[r] = "none" /\ proc[r].pc = "new"
    BY DEF Init, Idle
  <2>3. NotesKept /\ NotesTrue
    BY <2>1, <2>2 DEF NotesKept, NotesTrue, NoteTellsTheEnd, Noted, Notes, Deletes
  <2>4. QED
    BY <2>1, <2>3 DEF NotesInv
<1>2. NotesInv /\ [Next]_vars => NotesInv'
  BY NotesNext
<1>3. QED
  BY <1>1, <1>2, PTL DEF Spec

-----------------------------------------------------------------------------
\* `note_pruned` before `remove_dir_all`: whoever deletes a recorded run, the
\* one that moved it aside or a sweep after it died, left a tombstone first.
THEOREM RemovedIsNoted ==
    ASSUME "sweep" \notin Events
    PROVE  Spec => []GoneIsNoted
<1>1. NotesInv => GoneIsNoted
  BY DEF NotesInv, NotesKept, GoneIsNoted, Full
<1>2. QED
  BY <1>1, NotesHold, PTL

\* Until the tombstones fill their budget, each says what its run had come to:
\* no sweep reads what another process is deleting.
THEOREM TombstonesAreTrue ==
    ASSUME "sweep" \notin Events
    PROVE  Spec => [](Len(notes) < TombstoneBudget => NoteTellsTheEnd)
<1>1. NotesInv => (Len(notes) < TombstoneBudget => NoteTellsTheEnd)
  <2>1. RetentionTypeOK => Len(notes) \in Nat /\ TombstoneBudget \in Nat
    BY RetentionAssumption DEF RetentionTypeOK, RetentionAssumption
  <2>2. QED
    BY <2>1 DEF NotesInv, NotesTrue, Full, RetentionInv
<1>2. QED
  BY <1>1, NotesHold, PTL
=============================================================================
