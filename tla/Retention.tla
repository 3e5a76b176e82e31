----------------------------- MODULE Retention -----------------------------
(***************************************************************************)
(* Which runs a clone keeps (src/src/runs.rs `prune`, `remove_run`,        *)
(* `sweep_leftovers`, `note_pruned`, `bound_tombstones`, `known`).  Every  *)
(* new run first removes runs beyond the budget, so several sykli          *)
(* processes sweep, remove, create, coordinate and resume runs at once,    *)
(* each by single steps on directories and leases, and any may be killed   *)
(* between two of them.  A process is named after the run it was started   *)
(* for.  A run's directory is made aside, placed under the run's id, moved *)
(* aside to be removed and deleted; of its journal only how far the run    *)
(* got is kept here.                                                       *)
(***************************************************************************)
EXTENDS Integers, Sequences, FiniteSets, SequencesExt

CONSTANTS
    Runs,           \* the runs ever requested, and the processes requesting them
    Nobody,         \* no process
    Budget,         \* SYKLI_RUN_BUDGET
    TombstoneBudget,\* TOMBSTONE_BUDGET
    Events          \* what may befall the processes in this instance

\* "crash": a process is killed; "write": a record, or the tombstone of a run
\* being removed, cannot be written; "sweep": a sweep's tombstone cannot.
ASSUME RetentionAssumption ==
    /\ IsFiniteSet(Runs)
    /\ Nobody \notin Runs
    /\ Budget \in Nat \ {0}
    /\ TombstoneBudget \in Nat \ {0}
    /\ Events \subseteq {"crash", "write", "sweep"}

VARIABLES
    place,          \* place[r]: where the directory of run r is
    whole,          \* runs none of whose files was deleted
    leased,         \* runs whose directory holds a `lease` file
    holder,         \* holder[r]: the process that holds this lease
    progress,       \* progress[r]: how far the run's journal goes
    born,           \* the runs with a first record, oldest first
    notes,          \* the tombstones, oldest first
    proc,           \* proc[p]: a process, with the run it works on and those left to do
    asked           \* one `known`: which run it asks for, and the answer so far

vars == <<place, whole, leased, holder, progress, born, notes, proc, asked>>
files == <<place, whole, leased>>
journals == <<progress, born>>

-----------------------------------------------------------------------------
Idle == [pc |-> "new", target |-> Nobody, todo |-> {}]
NotAsked == [run |-> Nobody, answer |-> "none"]

\* Where a process that removes a run is, from taking its lease on.
Removing == {"locked", "noting", "deleting"}
Ended == {"done", "dead"}
\* What it does before it makes a run of its own, and all it may do.
Clearing == {"new", "sweeping", "sweepnote", "sweepdelete", "pruning", "opened", "create"}
            \cup Removing
Steps == Clearing \cup {"staged", "held", "placed", "coordinating", "reopened"} \cup Ended

At(p, pc) == proc[p].pc = pc
Turns(p, pc, target, todo) ==
    proc' = [proc EXCEPT ![p] = [pc |-> pc, target |-> target, todo |-> todo]]
Goes(p, pc) == Turns(p, pc, proc[p].target, proc[p].todo)
\* On to the next run of the list, dropping r.
PassesOn(p, r, pc) == Turns(p, pc, Nobody, proc[p].todo \ {r})

Held(r) == leased[r] /\ holder[r] # Nobody
Released(p) == [r \in Runs |-> IF holder[r] = p THEN Nobody ELSE holder[r]]

Noted(r) == \E i \in DOMAIN notes : notes[i].run = r

\* What a tombstone calls a run whose journal goes this far.
State(got) ==
    CASE got = "none" -> "unreadable"
      [] got = "open" -> "lost"
      [] got = "stopped" -> "interrupted"
      [] got = "concluded" -> "completed"

\* What loading the journal in r's directory may say: with files gone, a
\* prefix of it, or that it does not load.
Readings(r) == IF r \in whole THEN {State(progress[r])} ELSE {"unreadable", "lost"}

-----------------------------------------------------------------------------
\* `sweep_leftovers`, for what an earlier process left behind.  The
\* directories are listed once.  A creation is taken for abandoned after a
\* minute, which no creation under way takes; a run moved aside mostly is a
\* minute old already, as moving it does not change its age.
Leftovers == {r \in Runs : place[r] \in {"staging", "aside"}}

BeginSweep(p) ==
    /\ At(p, "new")
    /\ Turns(p, "sweeping", Nobody, Leftovers)
    /\ UNCHANGED <<files, holder, journals, notes, asked>>

\* One of them: left alone while someone holds its lease.
Sweep(p) ==
    /\ At(p, "sweeping")
    /\ \E r \in proc[p].todo :
         IF r \in Leftovers /\ ~Held(r) /\ (place[r] = "staging" => At(r, "dead"))
         THEN Turns(p, IF place[r] = "aside" THEN "sweepnote" ELSE "sweepdelete",
                    r, proc[p].todo \ {r})
         ELSE PassesOn(p, r, "sweeping")
    /\ UNCHANGED <<files, holder, journals, notes, asked>>

\* Mutant: a later note replaces the first.
NoteReplaced(r) ==
    \E state \in Readings(r) :
        notes' = Append(SelectSeq(notes, LAMBDA n : n.run # r), [run |-> r, state |-> state])

\* `note_pruned`, when it succeeds: the first note stands.
Note(r) ==
    IF Noted(r) THEN UNCHANGED notes
    ELSE \E state \in Readings(r) : notes' = Append(notes, [run |-> r, state |-> state])

\* The sweep deletes whether or not the note was written.
SweepNote(p) ==
    /\ At(p, "sweepnote")
    /\ Note(proc[p].target) \/ ("sweep" \in Events /\ UNCHANGED notes)
    /\ Goes(p, "sweepdelete")
    /\ UNCHANGED <<files, holder, journals, asked>>

\* `remove_dir_all`: file by file, in any order, then the directory.
DeleteSome(r) ==
    /\ r \in whole \/ leased[r]
    /\ whole' = whole \ {r}
    /\ leased' \in {leased, [leased EXCEPT ![r] = FALSE]}
    /\ UNCHANGED place

DeleteRest(r) ==
    /\ place' = [place EXCEPT ![r] = "gone"]
    /\ whole' = whole \ {r}
    /\ leased' = [leased EXCEPT ![r] = FALSE]

SweepDelete(p) ==
    /\ At(p, "sweepdelete")
    /\ LET r == proc[p].target
       IN  \/ /\ place[r] \in {"staging", "aside"}
              /\ \/ DeleteSome(r) /\ UNCHANGED proc
                 \/ DeleteRest(r) /\ PassesOn(p, r, "sweeping")
           \/ /\ place[r] \notin {"staging", "aside"}
              /\ PassesOn(p, r, "sweeping")
              /\ UNCHANGED files
    /\ UNCHANGED <<holder, journals, notes, asked>>

-----------------------------------------------------------------------------
\* `prune`: the oldest runs no one holds, concluded ones first, as many as
\* are over the budget with the new one.
Kept == {r \in Runs : place[r] = "kept"}

Age(r) == IF r \in ToSet(born) THEN CHOOSE i \in DOMAIN born : born[i] = r ELSE 0
GoesFirst(r, s) ==
    \/ progress[r] = "concluded" /\ progress[s] # "concluded"
    \/ (progress[r] = "concluded" <=> progress[s] = "concluded") /\ Age(r) < Age(s)

Choose(p) ==
    /\ At(p, "sweeping")
    /\ proc[p].todo = {}
    /\ LET over == Cardinality(Kept) + 1 - Budget
           free == {r \in Kept : ~Held(r)}
           ahead(r) == Cardinality({s \in free : GoesFirst(s, r)})
       IN  Turns(p, IF over > 0 THEN "pruning" ELSE "create", Nobody,
                 {r \in free : ahead(r) < over})
    /\ UNCHANGED <<files, holder, journals, notes, asked>>

\* `remove_run`: the lease is opened where the run is, never made again.
OpenLease(p) ==
    /\ At(p, "pruning")
    /\ \E r \in proc[p].todo :
         IF place[r] = "kept" /\ leased[r]
         THEN Turns(p, "opened", r, proc[p].todo)
         ELSE PassesOn(p, r, "pruning")
    /\ UNCHANGED <<files, holder, journals, notes, asked>>

\* Mutant: that no one held it when the runs were listed is enough.
LockUnasked(p) ==
    /\ At(p, "opened")
    /\ holder' = [holder EXCEPT ![proc[p].target] = p]
    /\ Goes(p, "locked")
    /\ UNCHANGED <<files, journals, notes, asked>>

\* It is taken at once or not at all: it is held, or another process just
\* looks whether it is.  What was opened may be moved, or deleted, by now.
Lock(p) ==
    /\ At(p, "opened")
    /\ LET r == proc[p].target
       IN  \/ holder[r] = Nobody /\ holder' = [holder EXCEPT ![r] = p] /\ Goes(p, "locked")
           \/ UNCHANGED holder /\ PassesOn(p, r, "pruning")
    /\ UNCHANGED <<files, journals, notes, asked>>

\* Mutants: it is deleted without a note; it is deleted where it is.
MoveAsideUnnoted(p) ==
    /\ At(p, "locked")
    /\ LET r == proc[p].target
       IN  IF place[r] = "kept"
           THEN place' = [place EXCEPT ![r] = "aside"] /\ Goes(p, "deleting") /\ UNCHANGED holder
           ELSE UNCHANGED place /\ holder' = Released(p) /\ PassesOn(p, r, "pruning")
    /\ UNCHANGED <<whole, leased, journals, notes, asked>>

StayInPlace(p) ==
    /\ At(p, "locked")
    /\ LET r == proc[p].target
       IN  IF place[r] = "kept"
           THEN Goes(p, "noting") /\ UNCHANGED holder
           ELSE holder' = Released(p) /\ PassesOn(p, r, "pruning")
    /\ UNCHANGED <<files, journals, notes, asked>>

MoveAside(p) ==
    /\ At(p, "locked")
    /\ LET r == proc[p].target
       IN  IF place[r] = "kept"
           THEN place' = [place EXCEPT ![r] = "aside"] /\ Goes(p, "noting") /\ UNCHANGED holder
           ELSE UNCHANGED place /\ holder' = Released(p) /\ PassesOn(p, r, "pruning")
    /\ UNCHANGED <<whole, leased, journals, notes, asked>>

\* Without its note the run is not deleted: it stays aside for a sweep.
NoteIt(p) ==
    /\ At(p, "noting")
    /\ \/ Note(proc[p].target) /\ Goes(p, "deleting") /\ UNCHANGED holder
       \/ /\ "write" \in Events
          /\ holder' = Released(p)
          /\ PassesOn(p, proc[p].target, "pruning")
          /\ UNCHANGED notes
    /\ UNCHANGED <<files, journals, asked>>

Delete(p) ==
    /\ At(p, "deleting")
    /\ LET r == proc[p].target
       IN  \/ DeleteSome(r) /\ UNCHANGED <<proc, holder>>
           \/ DeleteRest(r) /\ holder' = Released(p) /\ PassesOn(p, r, "pruning")
    /\ UNCHANGED <<journals, notes, asked>>

\* `bound_tombstones`: one by one, the oldest first.
BoundNotes(p) ==
    /\ At(p, "pruning")
    /\ proc[p].todo = {}
    /\ IF Len(notes) > TombstoneBudget
       THEN notes' = Tail(notes) /\ UNCHANGED proc
       ELSE UNCHANGED notes /\ Goes(p, "create")
    /\ UNCHANGED <<files, holder, journals, asked>>

-----------------------------------------------------------------------------
\* `Coordinator::create`: made aside, held, placed, and only then recorded.
Stage(p) ==
    /\ At(p, "create")
    /\ place' = [place EXCEPT ![p] = "staging"]
    /\ whole' = whole \cup {p}
    /\ Goes(p, "staged")
    /\ UNCHANGED <<leased, holder, journals, notes, asked>>

TakeLease(p) ==
    /\ At(p, "staged")
    /\ leased' = [leased EXCEPT ![p] = TRUE]
    /\ holder' = [holder EXCEPT ![p] = p]
    /\ Goes(p, "held")
    /\ UNCHANGED <<place, whole, journals, notes, asked>>

\* Mutant: placed first, held after.
TakeLeaseInPlace(p) ==
    /\ At(p, "staged")
    /\ IF place[p] = "staging"
       THEN place' = [place EXCEPT ![p] = "kept"] /\ UNCHANGED <<leased, holder, proc>>
       ELSE /\ leased' = [leased EXCEPT ![p] = TRUE]
            /\ holder' = [holder EXCEPT ![p] = p]
            /\ Goes(p, "placed")
            /\ UNCHANGED place
    /\ UNCHANGED <<whole, journals, notes, asked>>

PlaceRun(p) ==
    /\ At(p, "held")
    /\ place' = [place EXCEPT ![p] = "kept"]
    /\ Goes(p, "placed")
    /\ UNCHANGED <<whole, leased, holder, journals, notes, asked>>

\* A process that returns: its leases are free again.
Returns(p, pc) ==
    /\ Turns(p, pc, Nobody, {})
    /\ holder' = Released(p)

RecordRequest(p) ==
    /\ At(p, "placed")
    /\ \/ /\ progress' = [progress EXCEPT ![p] = "open"]
          /\ born' = Append(born, p)
          /\ Goes(p, "coordinating")
          /\ UNCHANGED holder
       \/ /\ "write" \in Events
          /\ Returns(p, "done")
          /\ UNCHANGED journals
    /\ UNCHANGED <<files, notes, asked>>

\* The run as its coordinator ends it: DurableRun in one step.
EndRun(p) ==
    /\ At(p, "coordinating")
    /\ \E end \in {"stopped", "concluded"} : progress' = [progress EXCEPT ![p] = end]
    /\ Returns(p, "done")
    /\ UNCHANGED <<files, born, notes, asked>>

\* `Coordinator::reopen`, by a later process, then `take_over`.
Reopen(p) ==
    /\ proc[p].pc \in Ended
    /\ place[p] = "kept" /\ leased[p]
    /\ holder[p] = Nobody
    /\ progress[p] \in {"open", "stopped"}
    /\ holder' = [holder EXCEPT ![p] = p]
    /\ Goes(p, "reopened")
    /\ UNCHANGED <<files, journals, notes, asked>>

TakeOver(p) ==
    /\ At(p, "reopened")
    /\ \/ /\ progress' = [progress EXCEPT ![p] = "open"]
          /\ Goes(p, "coordinating")
          /\ UNCHANGED holder
       \/ /\ Returns(p, "done")
          /\ UNCHANGED progress
    /\ UNCHANGED <<files, born, notes, asked>>

Crash(p) ==
    /\ "crash" \in Events
    /\ proc[p].pc \notin Ended \cup {"new"}
    /\ Returns(p, "dead")
    /\ UNCHANGED <<files, journals, notes, asked>>

-----------------------------------------------------------------------------
\* `known`, which a commit's status asks of a run a receipt names: is it in
\* its place; if not, is there a tombstone.
Ask(r) ==
    /\ asked = NotAsked
    /\ progress[r] # "none"
    /\ asked' = [run |-> r, answer |-> IF place[r] = "kept" THEN "kept" ELSE "asking"]
    /\ UNCHANGED <<files, holder, journals, notes, proc>>

Answer ==
    /\ asked.answer = "asking"
    /\ asked' = [asked EXCEPT !.answer = IF Noted(asked.run) THEN "pruned" ELSE "unknown"]
    /\ UNCHANGED <<files, holder, journals, notes, proc>>

Init ==
    /\ place = [r \in Runs |-> "none"]
    /\ whole = {}
    /\ leased = [r \in Runs |-> FALSE]
    /\ holder = [r \in Runs |-> Nobody]
    /\ progress = [r \in Runs |-> "none"]
    /\ born = <<>>
    /\ notes = <<>>
    /\ proc = [p \in Runs |-> Idle]
    /\ asked = NotAsked

ProcessStep(p) ==
    \/ BeginSweep(p) \/ Sweep(p) \/ SweepNote(p) \/ SweepDelete(p)
    \/ Choose(p) \/ OpenLease(p) \/ Lock(p) \/ MoveAside(p) \/ NoteIt(p) \/ Delete(p)
    \/ BoundNotes(p)
    \/ Stage(p) \/ TakeLease(p) \/ PlaceRun(p) \/ RecordRequest(p) \/ EndRun(p)
    \/ TakeOver(p)

Next ==
    \/ \E p \in Runs : ProcessStep(p) \/ Reopen(p) \/ Crash(p) \/ Ask(p)
    \/ Answer

Spec == Init /\ [][Next]_vars

-----------------------------------------------------------------------------
\* Directories, leases, journals and processes have the shape the code gives
\* them.
RetentionTypeOK ==
    /\ place \in [Runs -> {"none", "staging", "kept", "aside", "gone"}]
    /\ whole \subseteq Runs
    /\ leased \in [Runs -> BOOLEAN]
    /\ holder \in [Runs -> Runs \cup {Nobody}]
    /\ progress \in [Runs -> {"none", "open", "stopped", "concluded"}]
    /\ born \in Seq(Runs)
    /\ IsInjective(born) /\ ToSet(born) = {r \in Runs : progress[r] # "none"}
    /\ notes \in Seq([run : Runs,
                     state : {"unreadable", "lost", "interrupted", "completed"}])
    /\ proc \in [Runs -> [pc : Steps, target : Runs \cup {Nobody}, todo : SUBSET Runs]]
    /\ asked \in [run : Runs \cup {Nobody},
                  answer : {"none", "kept", "asking", "pruned", "unknown"}]

\* A run whose coordinator lives, from the moment its directory has the
\* run's name, is never moved, deleted or held by another: whatever other
\* processes listed before.
LiveRunStays ==
    \A p \in Runs :
        proc[p].pc \in {"placed", "coordinating", "reopened"} =>
            place[p] = "kept" /\ holder[p] = p

\* A run under its own name is a whole one, lease and all, and no one else
\* finds it unheld before it is recorded, unless its creator failed: removing
\* and creating are never seen half-way.
KeptIsWhole ==
    \A r \in Runs : place[r] = "kept" =>
        /\ r \in whole /\ leased[r]
        /\ progress[r] = "none" => holder[r] # Nobody \/ proc[r].pc \in Ended

\* A run that is gone left a tombstone, unless newer ones filled the budget.
GoneIsNoted ==
    \A r \in Runs : place[r] = "gone" /\ progress[r] # "none" =>
        Noted(r) \/ Len(notes) >= TombstoneBudget

\* A tombstone says what the run had come to when it was removed, and the run
\* never comes to anything else after.
NoteTellsTheEnd ==
    \A i \in DOMAIN notes : notes[i].state = State(progress[notes[i].run])

\* A recorded run is always known: kept, or pruned with what it was.
KnownIsNotForgotten == asked.answer # "unknown"
=============================================================================
