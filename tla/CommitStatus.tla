---------------------------- MODULE CommitStatus ----------------------------
(***************************************************************************)
(* What a clone says of a commit (commit_status of src/src/main.rs, known  *)
(* and runs_of_tree of src/src/runs.rs).  Runs of the commit's tree and    *)
(* contract write receipts and conclude, stop or are resumed; receipts,    *)
(* runs and the notes of pruned runs go; pushes keep receipts beside the   *)
(* worktree's; and somebody asks, one look after the other.                *)
(*                                                                         *)
(* Every receipt here verifies for the commit, or would but for its        *)
(* outcome: Verification is how that is judged.                            *)
(***************************************************************************)
EXTENDS Integers, FiniteSets

CONSTANTS
    Runs,           \* runs of the commit's tree and contract in this clone
    Foreign,        \* receipts brought from elsewhere, whose run is unknown
    MaxReceipts,    \* bound: receipts a run writes, one a coordinator
    MaxTime,        \* bound: the times receipts are stamped with
    GoesWhileJudged \* whether a receipt may go after it is read, unjudged

ASSUME StatusAssumption ==
    /\ MaxReceipts \in Nat \ {0}
    /\ MaxTime \in Nat \ {0}
    /\ GoesWhileJudged \in BOOLEAN

VARIABLES
    run,            \* run[r]: its journal, and what became of it
    passes,         \* passes[x]: whether receipt x says it passed
    time,           \* time[x]: the start it says its run had
    worktree,       \* the receipts in .sykli/receipts
    evidence,       \* the receipts that pushes kept
    ask             \* where the question is, and what it saw

vars == <<run, passes, time, worktree, evidence, ask>>

-----------------------------------------------------------------------------
RunReceipts == Runs \X (1..MaxReceipts)
Brought == Foreign \X {0}
Receipts == RunReceipts \cup Brought

\* written: receipts so far; receipt: the one it concluded with, 0 for none;
\* kept: "kept", its journal under its name; "pruned", with a note, deleted or
\* about to be; or "unknown", neither: moved aside and not noted yet, or deleted
\* and its note gone.  Nobody who asks can tell these two apart.
NoRun == [state |-> "none", at |-> 0, written |-> 0, receipt |-> 0, kept |-> "unknown"]
NotAsked == [pc |-> "idle", looked |-> {}, held |-> {}, gone |-> {}, seen |-> {},
             current |-> {}, failed |-> {}, unknown |-> {}]

Concluded(r) == run[r].receipt # 0
Concludes(r) == <<r, run[r].receipt>>
Failed(r) == Concluded(r) /\ ~passes[Concludes(r)]
KeptFailure(r) == run[r].kept = "kept" /\ Failed(r)

-----------------------------------------------------------------------------
(* The runs, and what goes of them *)

Asked(r) ==
    /\ run[r].state = "none"
    /\ \E t \in 1..MaxTime :
        /\ \A other \in Runs : run[other].at <= t
        /\ t = 1 \/ \E other \in Runs : run[other].at = t - 1
        /\ run' = [run EXCEPT ![r] = [NoRun EXCEPT !.state = "running", !.at = t, !.kept = "kept"]]
    /\ UNCHANGED <<passes, time, worktree, evidence, ask>>

\* write_receipt, before the run is recorded as concluded: by its coordinator,
\* or by another, that resumed the run after one that was stopped or lost.
WriteReceipt(r) ==
    /\ run[r].state \in {"running", "written"} /\ run[r].kept = "kept"
    /\ run[r].written < MaxReceipts
    /\ LET x == <<r, run[r].written + 1>>
       IN /\ run' = [run EXCEPT ![r].state = "written", ![r].written = @ + 1]
          /\ \E p \in BOOLEAN : passes' = [passes EXCEPT ![x] = p]
          /\ time' = [time EXCEPT ![x] = run[r].at]
          /\ worktree' = worktree \cup {x}
    /\ UNCHANGED <<evidence, ask>>

\* The coordinator concludes the run with it, and keeps a copy in the run.
Conclude(r) ==
    /\ run[r].state = "written" /\ run[r].kept = "kept"
    /\ run' = [run EXCEPT ![r].state = "completed", ![r].receipt = run[r].written]
    /\ UNCHANGED <<passes, time, worktree, evidence, ask>>

\* remove_run moves a run that no coordinator holds, concluded or not, aside
\* with its copy of the receipt.  Killed here, or unable to write the note, it
\* leaves the run unknown, until a sweep notes it, if ever one does.
MoveAside(r) ==
    /\ run[r].state # "none" /\ run[r].kept = "kept"
    /\ run' = [run EXCEPT ![r].kept = "unknown"]
    /\ UNCHANGED <<passes, time, worktree, evidence, ask>>

\* note_pruned, by who moved it aside or by a sweep a minute or more later: what
\* the run was, and the receipt it concluded with.
Note(r) ==
    /\ run[r].state # "none" /\ run[r].kept = "unknown"
    /\ run' = [run EXCEPT ![r].kept = "pruned"]
    /\ UNCHANGED <<passes, time, worktree, evidence, ask>>

\* The notes are bounded too.  A run that is still there, aside, may be noted
\* again; one that was deleted just takes no further step.
Forget(r) ==
    /\ run[r].kept = "pruned"
    /\ run' = [run EXCEPT ![r].kept = "unknown"]
    /\ UNCHANGED <<passes, time, worktree, evidence, ask>>

\* prune_receipts, or the worktree goes.
LoseReceipt ==
    /\ \E x \in worktree : worktree' = worktree \ {x}
    /\ UNCHANGED <<run, passes, time, evidence, ask>>

\* A push keeps a receipt it accepts, and evicts others (PushGate).
KeepEvidence ==
    /\ \E x \in worktree : passes[x] /\ evidence' = evidence \cup {x}
    /\ UNCHANGED <<run, passes, time, worktree, ask>>

EvictEvidence ==
    /\ \E x \in evidence : evidence' = evidence \ {x}
    /\ UNCHANGED <<run, passes, time, worktree, ask>>

\* A receipt of a run in another clone, which says what it says.
Bring(x) ==
    /\ time[x] = 0
    /\ worktree' = worktree \cup {x}
    /\ \E p \in BOOLEAN, t \in 1..MaxTime :
        passes' = [passes EXCEPT ![x] = p] /\ time' = [time EXCEPT ![x] = t]
    /\ UNCHANGED <<run, evidence, ask>>

-----------------------------------------------------------------------------
(* commit_status *)

Asks(record) == ask' = record /\ UNCHANGED <<run, passes, time, worktree, evidence>>

\* failed: the runs that have failed by now (history).
Ask ==
    /\ ask.pc = "idle"
    /\ Asks([NotAsked EXCEPT !.pc = "runs",
                             !.failed = {r \in Runs : KeptFailure(r)}])

\* runs_of_tree: each run's status, and whether the receipt it concluded with
\* is where it was written.
LookAtRun(r) ==
    /\ ask.pc = "runs"
    /\ r \notin ask.looked
    /\ Asks([ask EXCEPT !.looked = @ \cup {r},
                        !.held = IF run[r].kept = "kept" /\ Concluded(r) THEN @ \cup {r} ELSE @,
                        !.gone = IF KeptFailure(r) /\ Concludes(r) \notin worktree
                                 THEN @ \cup {r} ELSE @])

\* known: a receipt of a run this clone knows, by its journal or its note,
\* counts once that run concluded with it, and then it is recorded; one of an
\* unknown run is judged as it is.
Unknown(x) == x \in RunReceipts /\ run[x[1]].kept = "unknown"

Recorded(x) == x \in RunReceipts /\ ~Unknown(x) /\ Concludes(x[1]) = x

\* Mutant: a receipt of a run counts, whatever became of the run.
CountsAny(x) == x \in Receipts

Counts(x) == x \in Brought \/ Unknown(x) \/ Recorded(x)

Result(x) == [of |-> x, passed |-> passes[x], recorded |-> Recorded(x), at |-> time[x]]

\* The receipts found at one place, each judged once, where it is found first.
\* One is read, its run is looked up, and it is read again to be judged: what
\* goes in between has been seen, and is not current.  unknown: the receipts
\* that were judged while their run was not known (history).
LookAt(found, lost, pc) ==
    LET judged == found \ (ask.seen \cup lost)
    IN ask' = [ask EXCEPT !.pc = pc, !.seen = @ \cup found,
                          !.current = @ \cup {Result(x) : x \in {y \in judged : Counts(y)}},
                          !.unknown = @ \cup {x \in judged : Unknown(x)}]

GoneBetween(found) == IF GoesWhileJudged THEN SUBSET found ELSE {{}}

LookInWorktree ==
    /\ ask.pc = "runs" /\ ask.looked = Runs
    /\ \E lost \in GoneBetween(worktree) :
        LookAt(worktree, lost, "evidence") /\ worktree' = worktree \ lost
    /\ UNCHANGED <<run, passes, time, evidence>>

LookInEvidence ==
    /\ ask.pc = "evidence"
    /\ \E lost \in GoneBetween(evidence) :
        LookAt(evidence, lost, "kept") /\ evidence' = evidence \ lost
    /\ UNCHANGED <<run, passes, time, worktree>>

\* Mutant: a run's own copy is not read.
LookAtNone ==
    /\ ask.pc = "kept"
    /\ LookAt({}, {}, "answer")
    /\ UNCHANGED <<run, passes, time, worktree, evidence>>

\* The copies of the runs that were there, if they are there still.
LookAtKept ==
    /\ ask.pc = "kept"
    /\ LookAt({Concludes(r) : r \in {h \in ask.held : run[h].kept = "kept"}}, {}, "answer")
    /\ UNCHANGED <<run, passes, time, worktree, evidence>>

\* Every result: what is current, and the failure of a run whose receipt was
\* gone, and is not current from elsewhere.
Results ==
    ask.current \cup
        {[of |-> Concludes(r), passed |-> FALSE, recorded |-> TRUE, at |-> run[r].at] :
            r \in {g \in ask.gone : \A result \in ask.current : result.of # Concludes(g)}}

\* The newest, a failure on a tie.
Newest(results) ==
    CHOOSE last \in results : \A other \in results :
        \/ other.at < last.at
        \/ other.at = last.at /\ (other.passed = last.passed \/ ~last.passed)

Verdict ==
    LET recorded == {result \in Results : result.recorded}
        others == Results \ recorded
    IN IF Results = {} THEN "none"
       ELSE IF recorded = {} THEN IF Newest(others).passed THEN "passed" ELSE "failed"
       ELSE LET last == Newest(recorded)
            IN IF last.passed
               THEN IF \E other \in others : ~other.passed /\ other.at > last.at
                    THEN "conflict" ELSE "passed"
               ELSE IF \E other \in others : other.passed THEN "conflict" ELSE "failed"

Answer == ask.pc = "answer" /\ Asks(NotAsked)

-----------------------------------------------------------------------------
Init ==
    /\ run = [r \in Runs |-> NoRun]
    /\ passes = [x \in Receipts |-> FALSE]
    /\ time = [x \in Receipts |-> 0]
    /\ worktree = {}
    /\ evidence = {}
    /\ ask = NotAsked

RunStep(r) ==
    Asked(r) \/ WriteReceipt(r) \/ Conclude(r)
    \/ MoveAside(r) \/ Note(r) \/ Forget(r)
AskStep ==
    Ask \/ (\E r \in Runs : LookAtRun(r)) \/ LookInWorktree \/ LookInEvidence \/ LookAtKept \/ Answer

Next ==
    \/ \E r \in Runs : RunStep(r)
    \/ LoseReceipt \/ KeepEvidence \/ EvictEvidence
    \/ \E x \in Brought : Bring(x)
    \/ AskStep

Spec == Init /\ [][Next]_vars

-----------------------------------------------------------------------------
(* Properties *)

\* "A failure is never hidden by a pass": the verdict is passed only over the
\* failures that a newer pass outranks.  A run that had concluded failed when
\* the question was asked, and is still kept, is older than a run that passed;
\* and a failure that was brought and seen is not newer than every pass.
\* So whatever receipts, runs and notes go between the looks.
PassHidesNoFailure ==
    ask.pc = "answer" /\ Verdict = "passed" =>
        /\ \A r \in {f \in ask.failed : run[f].kept = "kept"} :
            \E x \in RunReceipts : passes[x] /\ Concludes(x[1]) = x /\ time[x] > run[r].at
        /\ \A x \in ask.seen \cap Brought :
            passes[x] \/ \E y \in Receipts : passes[y] /\ time[y] >= time[x]

\* What its run did not conclude with is no evidence.  Every pass that is
\* current, and with them the one a verdict of passed rests on, which no failure
\* outranks, is what its run concluded with; unless it was brought, or judged
\* while its run was unknown: moved aside and not noted yet, or forgotten.  A run that was kept or noted when its receipt was judged backs
\* the pass for good, whatever becomes of it before the answer.
PassWasConcluded ==
    ask.pc = "answer" =>
        LET backed == {x \in ask.seen : x \in Brought \cup ask.unknown \/ Concludes(x[1]) = x}
        IN /\ \A result \in ask.current : result.passed => result.of \in backed
           /\ Verdict = "passed" =>
                \E last \in ask.current :
                    /\ last.passed /\ last.of \in backed
                    /\ \A other \in Results : other.passed \/ other.at <= last.at

\* What src/README.md promises, without the exception: a receipt whose run this
\* clone keeps, or pruned, and that did not conclude with it is never current.
\* It fails for a run that is moved aside when its receipt is judged, and noted
\* before the answer.
UnconcludedIsNeverCurrent ==
    ask.pc = "answer" =>
        \A result \in ask.current :
            result.of \in RunReceipts /\ run[result.of[1]].kept \in {"kept", "pruned"}
                => Concludes(result.of[1]) = result.of

=============================================================================
