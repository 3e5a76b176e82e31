# Formal models of sykli's durable runs

TLA+ models of [sykli](../src/README.md), checked with TLC, and theorems about
them checked with TLAPS.  sykli runs the tasks of a contract on a working tree
and leaves a receipt as evidence.  A *durable run* survives the death of its
coordinator: each step is a record in a journal under the clone's git
directory, other processes may ask for its status while it goes on, and a later
process may resume it.  Several sykli processes work in one clone at a time,
share its run directory, its task cache and its worktree directories, and
coordinate through files, renames and `flock` leases only, while their user
edits, commits and pushes.  That is where the program can be wrong in ways no
unit test reaches, and what is modelled here.

Paths below are relative to the repository; `runs.rs` is `src/src/runs.rs`,
and so on.

## Inventory

| component | where | state | operations |
|---|---|---|---|
| run journal | runs.rs 197-797 | the records of a run, folded into `History`: generation, attempts, lineage, decisions, stop, conclusion | `apply` of twelve kinds of fact |
| durable coordinator | runs.rs 822-1484, main.rs 4056-4405, 4541-4792 | the lease it holds, its generation, the decisions so far, the passes a stop may withdraw, one thread per running task | create, detach, reopen, take over, execute level by level, dispatch, launch, judge, withdraw, stop, conclude |
| stop signals | runs.rs 1509-1641 | `SIGNALLED`, `SIGNALLED_AT`, the table of process groups | handler, watcher rounds, register, unregister |
| run retention | runs.rs 1819-2108 | run directories (staging, kept, aside), tombstones | prune, remove, sweep, note, bound the notes, `known` |
| run status | runs.rs 1643-1817 | nothing of its own | load the journal, look at the leases |
| leases | journal.rs 120-445 | `flock` locks on files, inherited by children | acquire, share, observe, attempt, drop |
| journal files | journal.rs 1-119, canonical.rs 100-182 | one file per record, linked into place | load, publish |
| task cache | main.rs 3758-3870, 5623-6040 | entries under their key, staging and aside directories | inspect, restore, store, evict |
| receipt retention | main.rs 5640-5712, 8368-8400 | receipts, cited by cache entries | write, prune |
| cache keys, inherit key | main.rs 5251-5566 | one key file per clone | read or make |
| baseline and snapshots | main.rs 4412-4510, 6219-6500 | what inputs were when the run began | drifted, subject, snapshot |
| commit status, verify | main.rs 2549-2881, 6516-8366, runs.rs 1820-1930 | none: judges receipts, asks what became of their runs | commit_status, verify, `known`, `runs_of_tree` |
| contract and levels | main.rs 2971-3580 | none | load, pin, validate, affected |
| worktree caches | worktree_cache.rs | one directory per worktree incarnation, with a marker and a lease | prepare, hold, make, prune, remove |
| pre-push and pre-commit hook | hook.rs | the hook file, evidence of pushes | install, gate a push or a commit, keep and prune evidence |
| cargo inputs, input coverage | cargo_inputs.rs, main.rs 506-1640 | none | static analysis of a tree |
| init, repository access, command line | init.rs, repo.rs, main.rs | none | sequential |

How they interact: a coordinator is the only writer of its journal while it
holds the run's lease; each attempt has a lease of its own which the task's
processes inherit, so that a later process can see that the task still runs
after its coordinator died.  A resume looks at these leases and at the process
groups the journal names, and then opens a new generation, which fences the old
coordinator off.  Status and pruning look at the same leases from other
processes.  A stop signal reaches sykli and its tasks in any order.
A run reads the working tree several times, and so do verification and the
hooks, each later than the other.  A commit's status reads the runs' journals
and the receipts that runs, pruners and pushes write and remove.  Runs of one
worktree share the directory their tasks get as `${worktree_cache}`, which runs
of every worktree of the clone may remove once the worktree is gone.

What is hard: steps of several processes and threads in any order; kills
between any two steps; a record that cannot be written, or is durable although
its writer was told otherwise; stops that reach a task before sykli; state read
under a lease and used after it was let go; half-deleted directories; files
that change between two readings that are meant to be of one tree.
`PROJECT.json` lists each hazard at its line with the properties aimed at it.

What makes each component correct, in a sentence: the *journal* never decides a
task without the attempt that shows it and never has two open attempts of one
task; the *coordinator* never runs a task twice at once, never records as over
what still runs, never concludes on what a stop may have caused, and always
leaves; a *stop* reaches every group and ends; *retention* never touches a live
run and never forgets what a removed one came to; *status* never calls lost
what runs; the *cache* never passes off as one run's outputs what several wrote,
and its entries cite receipts that exist; a *worktree directory* is the same
for all who work in it and stays as long as they do; a *receipt that verifies*
is about tasks that read the commit, and a *cache key* about what was read; a
*status* never hides a failure behind a pass; the *push gate* comes off a
branch only by hand, and keeps only evidence that verified.

## Modules

| module | models | correspondence |
|---|---|---|
| `RunJournal` | `History` | `Accepts<Fact>` is the condition under which `apply` takes the fact, `<Fact>` the change; `JournalNext` tries any fact of any generation at any time |
| `DurableRun` | `Coordinator`, `coordinate`, `execute`, `attempt_task`, `launch` | extends `RunJournal`. `co[c].pc` is where main is, `thread[c][t].st` where the thread that runs t is, `lease` who holds the run; every action that records is one disjunct where the fact is recorded (`Recorded`) and one where it is not (`NotRecorded`: fenced, refused, or not written, in which case it may be durable all the same) |
| `RunStatus` | `status`, `view` | extends `DurableRun` with a reader whose looks are steps of their own |
| `StopSignals` | handler, watcher, `register`, `unregister`, and the thread that waits for an attempt and drains its output | the watcher's rounds and the threads interleave; groups are ids, ever used once |
| `Retention` | `prune`, `remove_run`, `sweep_leftovers`, `note_pruned`, `bound_tombstones`, `known`, with create, end and resume of runs | one process per run ever requested; deletion is several steps; a run's journal is only how far it got |
| `TaskCache` | `LocalCache` (`inspect`, `restore`, `store`, `evict`, `prune_receipts`), `write_receipt`, and `conclude` around them | one process per sykli that runs the task; `place[d]` is where the directory that d built is, `proc[p].pc` where p is. Every file is opened by its path anew, so each look is a step; `remove_dir_all` removes file by file, `rename` is one step; `older` is which of two receipts was written before the other |
| `WorktreeCache` | worktree_cache.rs: `prepare`, `incarnation`, `held`, `make`, `exists`, `prune`, `remove_pruned` | one linked worktree, which is added, moved, removed and locked; `proc[p].pc` is where run p is, `fd` the lease it opened by path and `alone` the one it prunes under; `task[p]` the lease its tasks inherited; an id is a place and a token |
| `LeasedDirectories` | what `WorktreeCache` promises | one directory at most stands for an id; who works with an id works in it; it goes when nobody does |
| `TaskGraph` | `validate`'s levels and refusals of a graph, `affected` | operators; `MCDurableRun` takes its levels from them |
| `Verification` | `snapshot`'s tree, `input_record`, `declared_input_records`, `PathFacts::file_behind`, `InputsAt::judge`, `judge` | operators on working trees and git trees: files with bytes and an execute bit, links, cleaned and smudged bytes, ignored paths |
| `Gate` | `run`, `subject`, `Baseline`, `execute`, `attempt_task` as far as they read files, and `pre_commit` | extends `Verification` with one run and an editor; each reading of the disk is a step |
| `CommitStatus` | `commit_status`, `known`, `runs_of_tree` | runs of one tree and contract, their receipts in the worktree, among kept evidence and in the runs themselves; each look of the question is a step, and so are a run's move aside, its note and the note's eviction |
| `PushGate` | `pre_push`, `receipt_for`, `keep_evidence`, `prune_evidence` | `push[q].pc` is where push q is; `file[q]` is the `receipt.json` of its worktree, `evidence` the kept receipts, `older` which of two was kept before the other; a push that lists them picks what it will evict |
| `DurableRun_proofs`, `DurableEnd_proofs` | theorems of `RunJournal`, `DurableRun` and (in the first) `RunStatus`, the second on the first | see Proofs |
| `StopSignals_proofs`, `Retention_proofs`, `TaskCache_proofs`, `PushGate_proofs`, `CommitStatus_proofs`, `WorktreeCache_proofs` | theorems of these modules | see Proofs |
| `MC...` | small instances | constants for TLC |

There are two abstract specifications.  `JournalSpec` of `RunJournal` says what
any set of writers may make of a journal, and `DurableRun` implements it (run
`lease`, theorem `RunImplementsJournal`).  `LeasedDirectories` says what the
users of worktree directories may count on; `WorktreeCache` implements it under
the mapping `Leased` (run `worktrees`, theorem `DirectoriesAreLeased`): `standing` is what is at an id's path,
`using` the directories whose lease a run or its tasks hold after the check that
the path still names it.  The mutants that PROJECT.json lists are
definitions next to the ones they mutate, marked `Mutant:`; no specification
uses them.

A process is abstract in `DurableRun`: `proc[a]` is alive or exited, and
`closed` says whether it gave up the lease it inherited.  Time is a counter of
observed exits (`now`): it orders exits and the stop, and the 100 ms window is
the statement that an exit a stop caused is observed less than a window before
sykli's handler runs.

Assumed throughout, as the code does: a stop reaches an attempt less than
100 ms before it reaches sykli; a creation takes less than a minute; `flock`,
`link` and `rename` are atomic; record numbers are published exclusively, so
the records of a run are one sequence.  Errors of files before the first record
of a step are treated as a failed write there.

`TaskCache` names the bytes of an output after the run that wrote them: two runs
of a task never write the same ones, the worst case for a mixture.  Sizes and
ages of entries are left open, so eviction may choose any.  A receipt is fresh
from when it is written until its process ends: IN_FLIGHT is taken to be longer
than one pruning and than a run takes from its receipt to its last entry.  The
look a store takes at an entry that is in its way is one step, as it only
decides which of two directories goes; how often it tries is left open.

`WorktreeCache`: the look of `exists` is one step (it reads a marker that never
changes and asks for a git directory, a token and a top level that belong
together); making a directory takes less than a minute; deleting what was set
aside is one step, as nobody looks in there.

`Gate`: SHA-256 is taken to be injective, so a digest is what it is the digest
of.  Which passes the cache holds is left open: any key may hit.  A contract
has one task a level, and the first that does not pass ends the run, as the
receipt then verifies for nothing.  That a link leads out of the repository
matters only to `JudgeLink`.  `.sykli` is no path of it: git ignores it.

`CommitStatus`: every receipt verifies for the commit but for its outcome;
`Gate` is about that.  A receipt carries the time its run began; times tie.
A run is `kept`, `pruned` or `unknown`, the answers of `known`: a run that was
moved aside and is not noted, for good or until the next sweep, and one deleted
whose note is gone are both `unknown`, as nobody who asks can tell them apart.
A remover that is killed or cannot write the note takes no further step; a
deletion changes no answer and is none.  A run noted again when half of it is
deleted gets a note without a receipt (`Retention`); here a note always names
the receipt the run concluded with, so that case only counts fewer receipts.

`PushGate`: the only receipt a push may use is the redirected `receipt.json`,
the only one whose bytes change under its name.  A copy that was written aside
is taken to be new when it is placed.

## Runs

All bounds are constants of the cfg files; a behaviour that would pass one is
cut there.

| run | what it shows | bounds, and why they are enough |
|---|---|---|
| `journal` | the rules of `apply` alone are consistent, whoever writes | 2 tasks, 3 attempts, 3 generations: a retry of a retry, a fact of a generation two behind, a withdrawal before and after a takeover |
| `crash` | with kills, failed writes, failed spawns and closed leases between any two steps of a run, its resume and a status: `LostIsOver`, `OneProcessPerTask`, `NeverRefused`, `ShownLostIsOver`, `ShownLostIsLeft` | a chain of 2 tasks, 2 generations: an orphan, a task that rests on it, and the resume that must see it |
| `stop` | `RestsOnPasses`, `NoTaintedPass`, `BlockedByFailure`, `NeverRefused`, `LeftIsEnded` | 3 tasks, two at once and one that rests on both and may be reused; a stop in either of 2 generations, at any step |
| `lease` | `OneOwner`, and every step is a step of `JournalSpec`, though leases are lost | 1 task, 3 coordinators: one that was fenced off twice |
| `leave` | liveness: every coordinator leaves and frees its lease | chain of 2, 2 generations, every event but lost leases |
| `signals` | no tracked group misses the stop, none that was signalled counts as having run, the stop ends | 2 attempts, one of which ignores SIGTERM, a second signal, a process that keeps the output open |
| `retention` | live runs stay, kept runs are whole, what goes is noted and the note is right | 3 processes, a budget of 1 run and 1 tombstone: one creates, one removes, one sweeps what a dead one left |
| `cache` | a task reported as cached got the bytes of one concluded run; at most one entry has the key and it cites a receipt on disk | 3 processes of which 2 work at a time, 2 outputs (so that a mixture can happen), room for 1 entry and 1 receipt, one entry of another task and one receipt of another run: one stores or evicts while another inspects, restores or prunes; 1 killed, and its run resumed by the third |
| `worktrees` | every step is one that `LeasedDirectories` allows; `ExistingIsSpared` | 2 processes of which one prunes, 1 place, 2 directories, 2 tokens: a directory set aside while a run is between finding and holding it, a worktree removed and made again with a new token, or moved away and back |
| `gate` | `VerifiedReadTheCommit`, `KeyIsWhatWasRead`, `StagedTreeWasRead` | two contracts, the lock that pins one, a source (other bytes, other line ends, executable, absent), a link to it or to nothing, an ignored path the first task makes; 1 edit of each path during a run, and any before it |
| `status` | `PassHidesNoFailure`, `PassWasConcluded` | 2 runs and 1 receipt from elsewhere, 2 times: a failure newer than, older than and as old as a pass, each lost and kept, and each run moved aside, noted and forgotten, at any step of the question |
| `push` | `KeptIsVerified`, `EvidenceIsBounded`, `GateStaysOn` | 2 worktrees that push again and again, a plain commit, a gated one and one that drops the contract, 4 receipts, a budget of 1: both place before either evicts, one is killed in between, one keeps again what the other is about to evict |

An ABA (an edit and its reversal) of one path within a run is past the bound
of `gate`, and a gap of the code: see below.

The instance `MCDurableRun` also evaluates two assumptions on `TaskGraph` for
every graph of three tasks, cyclic ones included: `LevelsAreRight` (a graph is
accepted exactly if its tasks can be ranked below what depends on them, and a
task's level is its lowest rank) and `AffectedIsLeast`.

## Findings

Where the code does not do what its docs say.  Each can be reproduced with a
configuration that is kept beside the runs: TLC finds the property violated.

* `MCDurableRun_Partial.cfg`, `RestsOnPasses`.  `withdraw_before_stop` appends
  one `withdrawn` record per pass (runs.rs 1268).  Killed between two, the
  earlier pass is withdrawn and the later ones stay decided; a resume keeps them
  and concludes with a dependent decided on a withdrawn pass.  runs.rs 30-32:
  "A pass accepted just before a stop reached sykli is `withdrawn` (...), with
  every pass decided after it".
* `MCRetention_Misnoted.cfg`, `NoteTellsTheEnd`.  `sweep_leftovers` ignores
  whether `note_pruned` succeeded and deletes the run all the same (runs.rs
  2042; `remove_run` keeps it).  If the sweep dies half-way through the
  deletion, the next one finds no tombstone and writes one from the records
  that are left: a concluded run is noted as lost or unreadable.
  src/README.md 489-491: "A run removed by the run budget answers that it was
  pruned, with what it was".
* `MCRetention_Aside.cfg`, `KnownIsNotForgotten`, and what it does to a
  commit's status, `MCCommitStatus_Aside.cfg`, `UnconcludedIsNeverCurrent`.
  `remove_run` moves the run aside (runs.rs 2007) and then writes its tombstone
  (runs.rs 2010).  In between, and until a sweep a minute or more later if it is
  killed there or cannot write it, `known` finds neither, and `commit_status`
  judges a receipt as if no run here had written it: one its run never concluded
  with is current, and can alone make the verdict `passed`, although the run is
  noted before the answer is given.  src/README.md 526-528: a receipt "whose run
  this clone keeps (or pruned, or cannot read) but which did not conclude with
  it" is "never current evidence".  `PassWasConcluded` excepts the receipts that
  were judged while their run was unknown (`ask.unknown`), and no others.
* `MCTaskCache_Cited.cfg`, `EntryCanHit`.  `write_receipt` leaves a receipt
  that is there as it is, and as old (main.rs 8374).  A run killed after writing
  it and resumed more than five minutes later is no longer spared while its
  entries are stored: another process prunes the receipt and the entry cites
  nothing.  main.rs 5642-5645 calls that "the one state this design must not
  produce".  `CitedIsOnDisk` promises the receipt to runs that were not resumed.
* `MCWorktreeCache_Raced.cfg`, `HeldStays`.  Of two runs that prune at once, one
  opens the lease of a directory by its path, the other sets that directory
  aside; the first then gets the lease, finds nothing under the id, goes on to
  rename, and by then a third run has made the directory again and holds its
  lease (worktree_cache.rs 566-581).  worktree_cache.rs 548-550: prune sets
  aside the directory of a worktree that is gone, "never one whose lease is
  held".
* `MCGate_Restored.cfg`, `RestoredReadTheCommit`.  `execute` compares a task's
  inputs with what the run recorded, then `cache_key` reads them again, and a
  pass found under that key is restored without another comparison (main.rs
  4275-4281).  An edit in between makes it a pass of other bytes than the
  receipt records, and the receipt verifies for a commit no task read.
  src/README.md 514-516: "A task whose declared inputs change while the run is
  in progress is `errored` (class `input_changed`), never passed: what it read
  is not the tree the run recorded."  `VerifiedReadTheCommit` is about the tasks
  that ran.

Two constants switch on more of the same kind:

* `GoesWhileJudged = TRUE` in `MCCommitStatus.cfg` violates
  `PassHidesNoFailure`: `commit_status` reads a receipt, remembers its digest as
  seen, and `judge` reads the path again.  If the receipt goes in between it is
  "unverifiable"; the run's own copy is then skipped as seen, and a failed
  recorded run is hidden by a pass.  main.rs 2540: "a failure is never hidden by
  a pass".
* `Forces = TRUE` in `MCPushGate.cfg` violates `GateStaysOn`: a forced push from
  a clone that has not fetched the branch's tip asks the tracking branch instead
  (hook.rs 345-351) and takes the gate off.  hook.rs 509-512: "taking the gate
  off takes an explicit `--no-verify`".

More gaps were met and are kept out of the properties:

* `Hidden` in `LostIsOver` and `OneProcessPerTask`: an attempt that closed its
  lease before its start was recorded (main.rs 4629) is not seen to run.
* `MCRetention_Evicted.cfg`, `NoteTellsTheEnd`: a tombstone that is evicted
  while its run is only half deleted (runs.rs 2091) is written again from the
  records that are left, and calls a concluded run lost or unreadable.
  `TombstonesAreTrue` speaks of the time before the notes fill their budget; in
  the run `retention` nothing dies between the eviction and the deletion.
* The event `torn`: a signal handler preempted between its two stores (runs.rs
  1543) leaves a stop without a time, and nothing is withdrawn; `NoTaintedPass`
  fails when the event is added to the run `stop`.
* A group registered after the watcher's SIGKILL round (runs.rs 1616) is sent
  SIGTERM only; `TrackedInTimeEnds` speaks of the groups tracked before.
* A run that ends between the two looks of a status (runs.rs 1660) is called
  lost; `ShownLostIsLeft` says only that its coordinator left it.
* The baseline's execute bits are read when the coordinator begins, after the
  snapshot: a change of mode in between is not seen by `drifted`.  An edit and
  its reversal around a task's reading are not seen by anything, and twice so
  neither by `pre_commit`.
* A failed run that was pruned to a note, and whose receipt is gone, is not
  among `runs_of_tree`: its failure no longer counts.  `PassHidesNoFailure` is
  about the runs that are kept.
* Evidence that a push keeps again is renewed, but another push whose listing
  is older may evict it (hook.rs 840-842, 902-940).

Fairness: threads that can go on do (`MainStep`, `ThreadStep`), a signal that
was sent is delivered (`HandlerRuns`), and a task's command ends (`ProcExit`;
sykli sets it no limit, so nothing could be promised without it).  In
`StopSignals` the watcher and the threads run; a stubborn group need not exit
by itself, only SIGKILL ends it.  Nothing is assumed of crashes, writes or new
processes.

Deadlock is not checked where the system may come to rest: all coordinators,
or all processes, have ended.

## Proofs

Each theorem holds for every value of the constants that satisfies the
assumptions of its module: `BoundsAssumption` (at least one generation, any
number of attempts), `GraphAssumption` (levels that hold every task, each after
those it rests on) and `OnceInLevel` (a task is once in a level), which
`validate` establishes and `MCDurableRun` checks of its levels;
`SignalsAssumption`, `RetentionAssumption`, `StatusAssumption`,
`CacheAssumption` (finitely many processes and outputs; the runs of other
contracts are not among the processes), `WorktreeAssumption` (those who prune
are among the processes) and `GateAssumption` (the ancestors of a commit have their ancestors among them; the
pushes are finitely many).  `Events` in a hypothesis are the environment's:
kills (`crash`), files that cannot be written (`write`), leases lost to a file
system (`lease`), handlers preempted half-way (`torn`), sweeps that go on
without a tombstone (`sweep`).  An event a theorem does not exclude is allowed
at any step.

`DurableRun_proofs` has five parts.

* *The journal*: `TypeCorrect`, then `RetryIsOrdered`, `DecisionsAreEvident`,
  `EndsStand`, `EndedRunsAreQuiet`, `StaleIsRefused`, `ConcludedIsEnd`: every
  property of the run `journal`.  They are not inductive: that a retry follows
  the end of everything before it needs that the attempts of a task form one
  chain ending in its `lineage`, that only the last of it can be open, and that
  decisions name it.  `JournalInv` is the conjunction of these named parts; each
  action preserves each part it can disturb.
* *The refinement*: `RunTypeCorrect` and `RunImplementsJournal` (each step of
  each coordinator, a failed write included, is a step of the journal or leaves
  it alone), from which the journal's properties follow for the run as executed:
  `RunRetriesInOrder`, `ConcludedRunIsFinal`, `StaleCoordinatorIsFenced`.
  `RunInv` adds to the types what they need: the positions and the levels a
  thread is started from.
* *Owners and processes*: `GenerationHasOneOwner`, whatever events there are.
  `OwnerInv` says where a coordinator can be while the journal is at its
  generation or past it (`Places`), and that its threads belong to it
  (`ThreadsRun`).  `LostRunIsOver` and `TaskHasOneProcess` need that leases
  hold (`lease` excluded), without which two coordinators may each dispatch.
  `ProcessInv` is: who is at work holds the run's lease (`Leased`), the attempt
  a thread holds is open and has a process only once it was spawned
  (`HeldOpen`), a process belongs to an attempt (`ProcKnown`), an attempt that
  ended has no process that could be seen, unless the caller said to assume so
  (`EndedOver`), and between reopening a run and its last record of what was
  lost, what is open has none either (`TakenSeen`), which stays so because an
  attempt no thread holds is never launched.
* *What a coordinator believes.*  `PlanInv`: it comes to a
  level when every task before it is decided, or a stop came, and a thread is for
  a task that is not (here `OnceInLevel` is needed).  `WorkInv`: as long as the
  journal is at its generation, each open attempt is with one of its threads,
  every decision it has in mind is the journal's, and every pass it may withdraw
  stands.  With any events, it gives `BlockedRestsOnFailure`.
* *What a status says* (`RunStatus`): `LostAttemptIsOver`,
  with any events, from `SeenIsPast`
  (what the reader has read the journal still has) and `LostIsFree` (an attempt it
  calls lost is with no thread, so nothing will be started for it, and has no
  process that could be seen).  `LostRunIsLeft` needs that leases hold: a run
  whose lease is free has no coordinator only then (`FreeIsLeft`).

`DurableEnd_proofs`: how a run ends, in four layers, each an invariant on top
of those before it.

* `NothingIsRefused`.  `PassInv` (a thread that judged a pass has an attempt
  that was started) and `ReopenedOpen` (a run that was found open to be resumed is
  open still when it is taken over, as its lease is held; hence `lease` is
  excluded).  It is stated short of `MaxAttempts`, as at the model's own bound
  no further dispatch is accepted.
* `RunIsLeftEnded`.  `EndInv`: as long as nothing is killed and every file is
  written, a coordinator has no error that would make it leave early, and one
  that left has stopped or concluded its run.  `crash` and `write` have to be
  excluded: a coordinator that is killed, or cannot record, leaves a run open.
* `PassesRestOnPasses`.  `RestInv`: what rests on a pass of this process is a
  pass of it too, and ended no earlier (`PassOrder`), so a withdrawal, which
  takes all from a cutoff on, takes it as well (`Unwinding`).  A kill between two withdrawals breaks it:
  `MCDurableRun_Partial.cfg`.
* `NoPassIsTainted`.  `TrapInv` and `TaintInv`: a process that a stop made
  exit with 0 was not over when the stop began, so its exit is observed later
  (`LateThread`), and the pass decided on it stays among those that are to be
  withdrawn, until it is (`SeenTaint`).  `torn` has to be excluded too, see the gaps.

`StopSignals_proofs`: `SignalsTypeCorrect`, `StopMissesNone` and
`SignalledIsInterrupted`.  `NoneMissed` is inductive with the types and the fact
that the watcher runs only once a signal was seen: `register` itself signals a
group that comes after the watcher took the table.

`TaskCache_proofs`: `CacheTypeCorrect`, `RestoredBytesAreOneRuns` and
`CitedReceiptsStay`, whoever is killed.  `CacheInv` has four parts.  One
directory at most has the key's name (`DiskOK`): the rename replaces none but a
hollow one, and a reader finds no other under it.  A process stores once, after
its run was concluded (`LocalFits`), so any directory there is was built for a
concluded run.  What was put in place so far is of the run whose entry was read
(`RestoreFits`), as each file is hashed again when it is copied.  And `AgesFit`:
a run's receipt is young while its process is at work, so whatever a pruner found
old is of a run whose entry, if it is ever to be under the key, is there already;
the pruner then reads it, and keeps the receipt.  The entry of a run that was
resumed is left out, as its receipt may be old before it is stored.

`Retention_proofs`: `RetentionTypeCorrect`, `LiveRunIsSpared` and
`NamedRunIsWhole` with any events; `RetentionInv` says what a process made of
its own run (`OwnRun`) and what it may still believe of the run of another
(`TargetsFit`).  `RemovedIsNoted` and `TombstonesAreTrue` exclude sweeps that
ignore a failed tombstone (`MCRetention_Misnoted.cfg`), and the latter speaks
of the time before the tombstones fill their budget
(`MCRetention_Evicted.cfg`).  `NotesInv`: a run is deleted only once it
is noted, it is noted while it is whole, and its journal is final from the
moment it was moved aside.

`PushGate_proofs`: `EvidenceVerified`, as a file that was written over never has
its old bytes again, so what a push compared its copy with is what verified
(`GateInv`).  `GateIsKept`, as the clone is closed under ancestors: if the
commit a push follows on carries a contract, the clone knew it when it was
asked; false with `Forces`.  `EvidenceStaysBounded`: `BoundInv` says, of every
set of pushes that are evicting, that the evidence without what they picked,
and one more for each of them, is at most the budget and the number of pushes
that placed and have not yet evicted.  For one push alone that is not inductive:
another may have evicted what it picked already.

`CommitStatus_proofs`: `StatusTypeCorrect`, `PassesWereConcluded` and
`FailuresAreNotHidden`.  `StatusInv`: what a receipt says never changes once it
is written, and so a result that was judged stays right (`ResultFits`); a run
that had failed when the question was asked and is still kept was held by the
look at its run, so that its own copy is seen at the latest, and what is seen
is judged when it is first seen (`FailureSeen`).  What is current was seen, and
was recorded, brought, or of a run unknown at that look (`CurrentFits`); as a
run concludes once, what was recorded stays what it concluded with, whether it
is then moved aside, noted or forgotten.  That is `PassesWereConcluded`, whose
exception is the finding `MCCommitStatus_Aside`.  The last step is
`GoesWhileJudged`, which is excluded for `FailuresAreNotHidden` and makes it
false.

`WorktreeCache_proofs`: first `LeaseInv`, which holds however many runs prune at
once: one directory at most stands under an id and it is whole (`DirsOK`);
what a process remembers fits its program counter (`Fits`); and what one builds
aside, or holds alone, no other run and no task has (`Apart`), as a shared lease
and one held alone exclude each other.  It gives `WorktreeTypeCorrect`.  What a
pruner holds alone need not stand under the id any more, unless one run prunes
at a time (`OnePruner`, part of `Fits`): that is the hypothesis of the others, and
`MCWorktreeCache_Raced.cfg` shows what becomes of them without it.
`HeldDirectoriesStay` (`HeldStays`: what stops standing is held by nobody) and
`ExistingDirectoriesAreSpared` follow at once.  `DirectoriesAreLeased` is
the refinement: under the mapping (`Stand`, `Use`) each action is one action of
`LeasedDirectories` or none (`Implements`), `CheckPath` being where a run takes
a directory, `Place` where one is made and `SetAside` where it goes.  What the
abstract specification keeps is proved of it there, too: `DirectoriesInUseStand`,
that a directory a run or a task works in is the one that stands for an id.

Only model-checked:

* liveness (`CoordinatorsLeave`, `TrackedInTimeEnds`, `StopIsNotHeldUp`), which
  is out of the prover's reach;
* `Gate` (`VerifiedReadTheCommit`, `KeyIsWhatWasRead`, `StagedTreeWasRead`).  What
  a read gives is `Behind`, a recursive function over the links, and what such a
  function computes for every input is a matter of induction over data.  Nor do
  the three hold of every instance: an edit that is taken back between two
  readings is seen by neither, so they fail when `MaxEdits` is 2, and, for the
  first two, with one edit a file when a link is moved to an undeclared file that is then
  edited into the recorded bytes.  `MCGate` has one link, to a source or to
  nothing, and one edit a file, within which everything is tried;
* the operators of `TaskGraph` (in assumptions of `MCDurableRun`): levels are
  computed recursively, and induction over data cannot be carried out here.

The type invariants `SignalsTypeOK`, `RetentionTypeOK` and `WorktreeTypeOK` and
the properties `NeverRefused` of the run `stop`, `ConcludedIsFinal` of the run
`journal` and `Leased!InUseStands` of the run `worktrees` are stated in the
modules and were checked on the same instances; the runs check what is easier to
get wrong.

Components that build on each other (`RunJournal`, `DurableRun`, `RunStatus`) share proof
modules, and a long argument is cut where its layers end, not at a property.

## Plan

Done: all modules above, and the proofs of the journal, the coordinator, status,
stop signals, retention, the task cache, the worktree caches, the push gate and
the commit status.  What is left:

1. `Gate` for every instance, for which an editor would have to be one whose
   files never come to have the same bytes again, in place of the bound on
   edits, and what `Behind` computes would have to be proved.
2. A third run that prunes in `MCWorktreeCache`, should prune come to set aside
   only the directory whose lease it holds.

## Not modelled

* `cargo_inputs.rs` and the input coverage of main.rs, `init.rs`, `repo.rs`:
  functions of a working tree or of git's answers, with no state and no other
  process.
* The command line, reports and progress lines; the installation of hooks,
  which branches are gated (`default_branches`, `remote_head`), and contracts
  named with `--contract`, of which a push reads one file once.
* The digests of keys, journals and receipts: what a hash identifies is taken as
  what it is.  The inherit key: a file made once (main.rs 5554 is its one race,
  which costs a cache miss).
* Deleting pushes, temporaries that an interrupted copy left, and the choice
  among several candidate receipts, which only adds ways to be accepted by the
  same check.
* In `Gate`: submodules, inputs outside the repository, the kinds of absence,
  receipts of older versions, several tasks at once in a level.
* The scripts of `action/` and `install.sh`.
