-------------------------------- MODULE Gate --------------------------------
(***************************************************************************)
(* One run of a contract and the files it reads (run, subject, execute,    *)
(* attempt_task and Baseline of src/src/main.rs), started by hand or by    *)
(* the pre-commit hook, which then verifies its receipt and compares its   *)
(* tree with the staged one (pre_commit of src/src/hook.rs), while         *)
(* somebody edits the working tree.                                        *)
(*                                                                         *)
(* Which earlier passes the cache holds is left open: one that is restored *)
(* was recorded under its key by a task that read the inputs the key names *)
(* (KeyIsWhatWasRead; TaskCache is the cache itself).                      *)
(***************************************************************************)
EXTENDS Verification

CONSTANTS
    Contents,       \* the entries an editor may give each path
    Outputs,        \* the bytes a task may write
    Hidden,         \* paths marked assume-unchanged: git diff skips them
    MaxEdits        \* bound: edits of one path during one run

VARIABLES
    disk,           \* the working tree
    run,            \* the run there is
    edits           \* edits[p]: how often p was edited since it started

vars == <<disk, run, edits>>

-----------------------------------------------------------------------------
NoTree == [p \in Paths |-> Nothing]

\* hook: started by pre-commit, for the staged tree.  tasks: those left to
\* decide.  reads: what each task read, or the pass it was restored from
\* did; keys: the inputs its cache key was made of (reads is history).
Idle == [pc |-> "idle", hook |-> FALSE, staged |-> NoTree, contract |-> NoBytes,
         tree |-> NoTree, records |-> <<>>, modes |-> <<>>, next |-> 1,
         outcome |-> <<>>, reads |-> <<>>, keys |-> <<>>]

Running(pc) == run.pc = pc
Goes(pc) == run' = [run EXCEPT !.pc = pc]
Task == Contracts[run.contract][run.next]
Receipt == [contract |-> run.contract, tree |-> run.tree, records |-> run.records,
            outcome |-> run.outcome]

With(f, x, y) == [z \in DOMAIN f \cup {x} |-> IF z = x THEN y ELSE f[z]]
ReadsNow(task) == [p \in task.inputs |-> Read(disk, p)]

Made(c) == UNION {task.outputs : task \in Tasks(c)}

\* Mutant: an input is taken to have changed only if git sees it changed.
DriftedTree(task) ==
    \E p \in task.inputs \ Made(run.contract) : TreeOf(disk)[p] # run.tree[p]

\* Baseline::drifted: an input no task makes has other bytes than recorded,
\* or another execute bit than when the coordinator began.
Drifted(task) ==
    \E p \in task.inputs \ Made(run.contract) :
        \/ Read(disk, p).sha # run.records[p].sha
        \/ Read(disk, p).exec # run.modes[p]

-----------------------------------------------------------------------------
Edit(p) ==
    /\ Running("idle") \/ edits[p] < MaxEdits
    /\ \E e \in Contents[p] \ {disk[p]} : disk' = [disk EXCEPT ![p] = e]
    /\ edits' = IF Running("idle") THEN edits ELSE [edits EXCEPT ![p] = @ + 1]
    /\ UNCHANGED run

Start ==
    /\ Running("idle")
    /\ Goes("load")
    /\ UNCHANGED <<disk, edits>>

\* disk_differs_from_commit found nothing: the index has what the disk has,
\* except where git was told not to look.
StartHook ==
    /\ Running("idle")
    /\ \E hidden \in [Hidden -> UNION {Contents[p] : p \in Hidden}] :
        LET staged == TreeOf([p \in Paths |-> IF p \in Hidden THEN hidden[p] ELSE disk[p]])
        IN run' = [run EXCEPT !.pc = "load", !.hook = TRUE, !.staged = staged]
    /\ UNCHANGED <<disk, edits>>

Ends == run' = Idle /\ edits' = [p \in Paths |-> 0] /\ UNCHANGED disk

\* load_pinned, once, for the whole run.
Load ==
    /\ Running("load")
    /\ \/ /\ Loads(disk)
          /\ run' = [run EXCEPT !.pc = "snapshot", !.contract = disk[ContractPath].bytes]
          /\ UNCHANGED <<disk, edits>>
       \/ ~Loads(disk) /\ Ends

\* subject: the tree, and then the declared inputs.
Snapshot ==
    /\ Running("snapshot")
    /\ run' = [run EXCEPT !.pc = "records", !.tree = TreeOf(disk)]
    /\ UNCHANGED <<disk, edits>>

RecordInputs ==
    /\ Running("records")
    /\ run' = [run EXCEPT !.pc = "baseline", !.records = Records(disk, run.tree, run.contract)]
    /\ UNCHANGED <<disk, edits>>

\* Baseline::new, when the coordinator begins to execute.
NewBaseline ==
    /\ Running("baseline")
    /\ run' = [run EXCEPT !.pc = "check",
                          !.modes = [p \in Declared(run.contract) |-> Read(disk, p).exec]]
    /\ UNCHANGED <<disk, edits>>

\* One task: its inputs are as recorded, or it is errored.  What depends on a
\* task that did not pass is blocked, and the receipt verifies for nothing.
Decides(outcome) ==
    run' = [run EXCEPT !.outcome = With(@, Task.name, outcome),
                       !.next = @ + 1,
                       !.pc = IF outcome \in {"passed", "cached"} /\ run.next < Len(Contracts[run.contract])
                              THEN "check" ELSE "receipt"]

CheckInputs ==
    /\ Running("check")
    /\ IF Drifted(Task) THEN Decides("errored") ELSE Goes("key")
    /\ UNCHANGED <<disk, edits>>

\* cache_key reads the inputs again.
Key ==
    /\ Running("key")
    /\ LET now == ReadsNow(Task)
       IN IF \E p \in Task.inputs : now[p] = Unread
          THEN Decides("errored")
          ELSE run' = [run EXCEPT !.pc = "restore", !.keys = With(@, Task.name, now)]
    /\ UNCHANGED <<disk, edits>>

Writes(task) ==
    \E made \in [task.outputs -> Outputs] :
        disk' = [p \in Paths |-> IF p \in task.outputs THEN File(made[p], FALSE) ELSE disk[p]]

\* A pass is restored, with its outputs, whatever the disk has become.
Restore ==
    /\ Running("restore")
    /\ run' = [run EXCEPT !.outcome = With(@, Task.name, "cached"),
                          !.reads = With(@, Task.name, run.keys[Task.name]),
                          !.next = @ + 1,
                          !.pc = IF run.next < Len(Contracts[run.contract])
                                 THEN "check" ELSE "receipt"]
    /\ Writes(Task)
    /\ UNCHANGED edits

\* Or there is none, and the task runs: it reads its inputs, and writes.
TaskRuns ==
    /\ Running("restore")
    /\ run' = [run EXCEPT !.pc = "exit", !.reads = With(@, Task.name, ReadsNow(Task))]
    /\ Writes(Task)
    /\ UNCHANGED edits

TaskEnds ==
    /\ Running("exit")
    /\ IF Drifted(Task) THEN Decides("errored")
       ELSE \E outcome \in {"passed", "failed"} : Decides(outcome)
    /\ UNCHANGED <<disk, edits>>

\* conclude: the receipt is written; by hand that is all.
Conclude ==
    /\ Running("receipt")
    /\ IF run.hook /\ \A name \in DOMAIN run.outcome : run.outcome[name] \in {"passed", "cached"}
       THEN Goes("contract") /\ UNCHANGED <<disk, edits>>
       ELSE Ends

-----------------------------------------------------------------------------
(* pre_commit, once the run passed: verify_checkout, from files read again *)

VerifyContract ==
    /\ Running("contract")
    /\ IF Loads(disk) /\ disk[ContractPath].bytes = run.contract
       THEN Goes("tree") /\ UNCHANGED <<disk, edits>> ELSE Ends

VerifyTree ==
    /\ Running("tree")
    /\ IF TreeOf(disk) = run.tree THEN Goes("inputs") /\ UNCHANGED <<disk, edits>> ELSE Ends

VerifyInputs ==
    /\ Running("inputs")
    /\ IF Records(disk, run.tree, run.contract) = run.records
       THEN Goes("staged") /\ UNCHANGED <<disk, edits>> ELSE Ends

\* Mutant: that git diff was silent is enough.
CompareNothing ==
    /\ Running("staged")
    /\ Goes("accepted")
    /\ UNCHANGED <<disk, edits>>

\* The tree that ran is the one the index will commit.
CompareStaged ==
    /\ Running("staged")
    /\ IF run.tree = run.staged THEN Goes("accepted") /\ UNCHANGED <<disk, edits>> ELSE Ends

\* git makes the commit.
Commit == Running("accepted") /\ Ends

-----------------------------------------------------------------------------
Init ==
    /\ disk \in {d \in [Paths -> UNION {Contents[p] : p \in Paths} \cup {Nothing}] :
                    \A p \in Paths : d[p] \in IF Contents[p] = {} THEN {Nothing} ELSE Contents[p]}
    /\ run = Idle
    /\ edits = [p \in Paths |-> 0]

RunStep ==
    \/ Load \/ Snapshot \/ RecordInputs \/ NewBaseline
    \/ CheckInputs \/ Key \/ Restore \/ TaskRuns \/ TaskEnds \/ Conclude
    \/ VerifyContract \/ VerifyTree \/ VerifyInputs \/ CompareStaged \/ Commit

Next ==
    \/ Start \/ StartHook \/ RunStep
    \/ \E p \in Paths : Edit(p)

Spec == Init /\ [][Next]_vars

-----------------------------------------------------------------------------
(* Properties *)

Ran(name) == run.outcome[name] = "passed"

\* A task of t read of its input p what a checkout of t holds, as far as its
\* bytes go.
ReadsBytes(t, name, p) ==
    \E there \in InCheckout(t, p) :
        there.sha = run.reads[name][p].sha /\ there.link = run.reads[name][p].link

\* When a receipt verifies for a commit, every task it says ran (and was not
\* restored) read, for every input its contract declares and no task makes,
\* the bytes that a checkout of that commit holds, whatever was edited before,
\* between and after the readings of the run.  An edit that is taken back before
\* the next reading is seen by nobody: so a file is edited once while a run
\* goes on, and no link is moved to a file that is edited into the same bytes.
VerifiedReadTheCommit ==
    Running("receipt") /\ VerifiesFor(Receipt, run.tree) =>
        \A task \in Tasks(run.contract) : Ran(task.name) =>
            \A p \in task.inputs \ Made(run.contract) : ReadsBytes(run.tree, task.name, p)

\* What a pass is kept under in the cache is what its task read.
KeyIsWhatWasRead ==
    \A name \in DOMAIN run.outcome : Ran(name) =>
        \A p \in DOMAIN run.keys[name] \ Made(run.contract) : run.keys[name][p] = run.reads[name][p]

\* What pre-commit lets through was read: by every task, also the restored
\* ones, bytes and execute bits, in the tree that is staged, wherever that has
\* the input.
StagedTreeWasRead ==
    Running("accepted") =>
        \A task \in Tasks(run.contract) : \A p \in task.inputs \ Made(run.contract) :
            LET read == run.reads[task.name][p]
                file == Behind(run.staged, Paths, p)
            IN /\ read.link = (file = Elsewhere)
               /\ ~read.link => /\ Clean[read.sha] = run.staged[file].bytes
                                /\ read.exec = run.staged[file].exec

\* "A task whose declared inputs change while the run is in progress is
\* errored, never passed: what it read is not the tree the run recorded."  Not
\* so for one that is restored from the cache: cache_key reads the inputs
\* again after they were compared, and a pass of other bytes is taken for a
\* pass of those the receipt records.
RestoredReadTheCommit ==
    Running("receipt") /\ VerifiesFor(Receipt, run.tree) =>
        \A task \in Tasks(run.contract) :
            \A p \in task.inputs \ Made(run.contract) : ReadsBytes(run.tree, task.name, p)

=============================================================================
