----------------------------- MODULE TaskCache -----------------------------
(***************************************************************************)
(* The local task cache and the receipts its entries cite (src/src/main.rs *)
(* `LocalCache`, `write_receipt`, and the parts of `run`, `execute` and    *)
(* `conclude` that use them).  Several sykli processes run the same        *)
(* unchanged task in one worktree: each looks its key up, restores what it *)
(* finds or runs the task, writes a receipt, stores an entry that cites    *)
(* it, evicts entries and prunes receipts.  They coordinate by renames     *)
(* alone, and any may be killed between two steps.                         *)
(*                                                                         *)
(* The bytes a task writes differ from run to run, so they are named after *)
(* the run that wrote them; so is the run's receipt.  An entry's directory *)
(* is named after the process that builds it.                              *)
(***************************************************************************)
EXTENDS Integers, FiniteSets

CONSTANTS
    Processes,      \* sykli processes; a run is named after its first one
    NoRun,          \* no run, no process
    OtherEntries,   \* entries of other tasks there may be in the cache
    OtherRuns,      \* runs of other contracts, which only leave a receipt here
    Outputs,        \* the outputs the task declares
    Budget,         \* entries the cache may hold (SYKLI_CACHE_BUDGET_BYTES)
    ReceiptBudget,  \* SYKLI_RECEIPT_BUDGET
    MaxLive,        \* bound: processes at work at a time
    MaxKilled       \* bound: processes ever killed

ASSUME CacheAssumption ==
    /\ IsFiniteSet(Processes)
    /\ NoRun \notin Processes
    /\ OtherRuns \cap (Processes \cup {NoRun}) = {}
    /\ IsFiniteSet(Outputs)
    /\ OtherEntries \in Nat
    /\ MaxLive \in Nat
    /\ MaxKilled \in Nat
    /\ Budget \in Nat \ {0}
    /\ ReceiptBudget \in Nat \ {0}

VARIABLES
    place,          \* place[d]: where the directory that d built is
    entry,          \* the directories that hold an entry.json
    artifacts,      \* artifacts[d]: the outputs whose copy is in d
    output,         \* output[o]: the run whose bytes o has in the worktree
    receipts,       \* the receipts on disk
    older,          \* the pairs of them of which the first was written before
    fresh,          \* those written less than IN_FLIGHT ago
    proc            \* proc[p]: where process p is, and what it remembers

vars == <<place, entry, artifacts, output, receipts, older, fresh, proc>>
cache == <<place, entry, artifacts>>
kept == <<receipts, older, fresh>>

-----------------------------------------------------------------------------
\* A path of the cache directory: the key, or a private name.
KeyPath == <<"key", NoRun>>
PathOf(d) == IF place[d] = "key" THEN KeyPath ELSE <<place[d], d>>
Present == {d \in Processes : place[d] \in {"staging", "key", "aside"}}
AtPath(path) == {d \in Present : PathOf(d) = path}
AtKey == AtPath(KeyPath)

\* run: the run p executes; ran: its task is decided; stores: and can be
\* cached; told: the run is concluded; source, got: the run whose entry it
\* restores, and whose bytes it put in place; todo: what a loop has left;
\* total: the entries it counts; victim: the directory it removes, the path it
\* found it at, and where it goes on then (back); cited, aged, doomed: receipts it found cited,
\* old enough, and will remove.
New(p) == [pc |-> "new", run |-> p, ran |-> FALSE, stores |-> FALSE, told |-> FALSE,
           source |-> NoRun, got |-> [o \in Outputs |-> NoRun],
           todo |-> {}, total |-> 0, victim |-> NoRun, path |-> KeyPath, back |-> "none",
           cited |-> {}, aged |-> {}, doomed |-> {}]

At(p, pc) == proc[p].pc = pc
Goes(p, pc) == proc' = [proc EXCEPT ![p].pc = pc]
Live(p) == proc[p].pc \notin {"new", "resumed", "done", "dead"}

\* What is left of a process: its run, and what the journal says of it.
Leaves(p, pc) ==
    LET told == proc[p].told
    IN  proc' = [proc EXCEPT ![p] = [New(p) EXCEPT !.pc = pc, !.run = proc[p].run, !.told = told,
                               !.ran = proc[p].ran /\ ~told, !.stores = proc[p].stores /\ ~told]]

RunOf(d) == proc[d].run
Receipt(r) == r \in receipts

\* `inspect` up to the artifacts, and all of it.
Cited(d) == d \in entry /\ Receipt(RunOf(d))
Valid(d) == Cited(d) /\ artifacts[d] = Outputs

\* No file is left in it; a directory in it may be.
Hollow(d) == d \notin entry /\ artifacts[d] = {}

-----------------------------------------------------------------------------
\* `evict`, when a run begins and after each entry it stores.  Every directory
\* counts, those being built included, and the entries of other tasks that
\* stay; which goes first is left open.
Lists(p, keep) ==
    \E others \in 0 .. OtherEntries :
        LET total == Cardinality(Present) + others
        IN  IF total <= Budget THEN Goes(p, "prune")
            ELSE proc' = [proc EXCEPT ![p].pc = "evicting", ![p].total = total,
                                      ![p].todo = {PathOf(d) : d \in Present} \ keep]

Begin(p) ==
    /\ proc[p].pc \in {"new", "resumed"}
    /\ Cardinality({q \in Processes : Live(q)}) < MaxLive
    /\ Lists(p, {})
    /\ UNCHANGED <<cache, output, kept>>

\* A path that is gone counts on; what is there now is removed.
Evict(p) ==
    /\ At(p, "evicting")
    /\ proc[p].total > Budget
    /\ \E path \in proc[p].todo :
         IF AtPath(path) = {}
         THEN proc' = [proc EXCEPT ![p].todo = @ \ {path}]
         ELSE \E d \in AtPath(path) :
                proc' = [proc EXCEPT ![p].todo = @ \ {path}, ![p].pc = "removing",
                                     ![p].victim = d, ![p].path = path,
                                     ![p].back = "evicting"]
    /\ UNCHANGED <<cache, output, kept>>

\* `remove_dir_all`: file by file, in any order and wherever the directory was
\* moved meanwhile; then the directory, at the path it had and only if nothing
\* is in it.
RemoveFile(p) ==
    /\ At(p, "removing")
    /\ LET d == proc[p].victim
       IN  \/ /\ d \in entry
              /\ entry' = entry \ {d}
              /\ UNCHANGED artifacts
           \/ /\ \E o \in artifacts[d] : artifacts' = [artifacts EXCEPT ![d] = @ \ {o}]
              /\ UNCHANGED entry
    /\ UNCHANGED <<place, output, kept, proc>>

RemoveDirectory(p) ==
    /\ At(p, "removing")
    /\ LET d == proc[p].victim
           back == proc[p].back
           removed == PathOf(d) = proc[p].path /\ Hollow(d)
       IN  /\ Hollow(d) \/ place[d] = "staging"
           /\ place' = IF removed THEN [place EXCEPT ![d] = "gone"] ELSE place
           /\ proc' = [proc EXCEPT ![p].pc = back, ![p].victim = NoRun, ![p].back = "none",
                         ![p].path = KeyPath,
                         ![p].total = IF removed /\ back = "evicting" THEN @ - 1 ELSE @]
    /\ UNCHANGED <<entry, artifacts, output, kept>>

EvictEnds(p) == At(p, "evicting") /\ (proc[p].total <= Budget \/ proc[p].todo = {})

-----------------------------------------------------------------------------
\* `prune_receipts`: first the references of every entry, one by one, then
\* the receipts.  IN_FLIGHT is longer than this takes and than a run takes
\* from its receipt to its entries: only what is old already is old then.
ScanReferences(p) ==
    /\ At(p, "prune") \/ EvictEnds(p)
    /\ proc' = [proc EXCEPT ![p].pc = "references", ![p].total = 0,
                            ![p].aged = receipts \ fresh,
                            ![p].todo = {PathOf(d) : d \in Present}]
    /\ UNCHANGED <<cache, output, kept>>

ReadReference(p) ==
    /\ At(p, "references")
    /\ \E path \in proc[p].todo :
         proc' = [proc EXCEPT ![p].todo = @ \ {path},
                    ![p].cited = @ \cup {RunOf(d) : d \in AtPath(path) \cap entry}]
    /\ UNCHANGED <<cache, output, kept>>

\* The first pruning is over: on to what is undecided.  After the second the
\* process returns.
Pruned(p) ==
    IF proc[p].told
    THEN Leaves(p, "done") /\ fresh' = fresh \ {proc[p].run}
    ELSE /\ proc' = [proc EXCEPT ![p].pc = IF proc[p].ran THEN "receipt" ELSE "lookup",
                                 ![p].aged = {}, ![p].cited = {}]
         /\ UNCHANGED fresh

\* The `over` oldest of these.
Oldest(over, rs) == {r \in rs : Cardinality({s \in rs : <<s, r>> \in older}) < over}

\* The oldest candidates go, as many as are over the budget together with the
\* referenced receipts on disk; a receipt spared for its age does not count.
Dooms(p, old) ==
    LET candidates == (old \cap receipts) \ proc[p].cited
        cited == proc[p].cited \cap receipts
        doomed == Oldest(Cardinality(candidates) + Cardinality(cited) - ReceiptBudget, candidates)
    IN  /\ IF doomed = {} THEN Pruned(p)
           ELSE /\ proc' = [proc EXCEPT ![p].pc = "unlink", ![p].aged = {}, ![p].cited = {},
                                        ![p].doomed = doomed]
                /\ UNCHANGED fresh
        /\ UNCHANGED <<cache, output, receipts, older>>

\* Mutant: a receipt may be as young as can be.
ListReceiptsOfAnyAge(p) ==
    /\ At(p, "references")
    /\ proc[p].todo = {}
    /\ Dooms(p, receipts)

ListReceipts(p) ==
    /\ At(p, "references")
    /\ proc[p].todo = {}
    /\ Dooms(p, proc[p].aged)

\* One that another removed meanwhile is passed over.
Unlink(p) ==
    /\ At(p, "unlink")
    /\ \E r \in proc[p].doomed :
         /\ \A s \in proc[p].doomed : <<s, r>> \notin older
         /\ receipts' = receipts \ {r}
         /\ older' = {o \in older : r \notin {o[1], o[2]}}
         /\ proc' = [proc EXCEPT ![p].doomed = @ \ {r}]
    /\ UNCHANGED <<cache, output, fresh>>

EndPrune(p) ==
    /\ At(p, "unlink")
    /\ proc[p].doomed = {}
    /\ Pruned(p)
    /\ UNCHANGED <<cache, output, receipts, older>>

-----------------------------------------------------------------------------
\* `restore`: `inspect` reads the entry and the receipt it cites, hashes the
\* artifacts one by one, and then each is copied, hashed again and put in
\* place.  Every one of these opens its path anew.
Misses(p) == proc' = [proc EXCEPT ![p].pc = "run", ![p].todo = {}, ![p].source = NoRun,
                                  ![p].got = [o \in Outputs |-> NoRun]]

ReadEntry(p) ==
    /\ At(p, "lookup")
    /\ \/ \E d \in AtKey : Cited(d)
             /\ proc' = [proc EXCEPT ![p].pc = "inspect", ![p].source = RunOf(d),
                                     ![p].todo = Outputs]
       \/ (~\E d \in AtKey : Cited(d)) /\ Misses(p)
    /\ UNCHANGED <<cache, output, kept>>

\* The bytes of output o now under the key are those the entry read names.
Matches(p, o) == \E d \in AtKey : o \in artifacts[d] /\ RunOf(d) = proc[p].source

HashArtifact(p) ==
    /\ At(p, "inspect")
    /\ \E o \in proc[p].todo :
         IF ~Matches(p, o) THEN Misses(p)
         ELSE IF proc[p].todo = {o}
         THEN proc' = [proc EXCEPT ![p].pc = "restore", ![p].todo = Outputs]
         ELSE proc' = [proc EXCEPT ![p].todo = @ \ {o}]
    /\ UNCHANGED <<cache, output, kept>>

\* Mutant: what was inspected is copied without another look.
RestoreUnhashed(p) ==
    /\ At(p, "restore")
    /\ \E o \in proc[p].todo :
         \/ \E d \in AtKey :
              /\ o \in artifacts[d]
              /\ output' = [output EXCEPT ![o] = RunOf(d)]
              /\ proc' = [proc EXCEPT ![p].todo = @ \ {o}, ![p].got[o] = RunOf(d),
                            ![p].pc = IF proc[p].todo = {o} THEN "restored" ELSE "restore"]
         \/ (~\E d \in AtKey : o \in artifacts[d]) /\ Misses(p) /\ UNCHANGED output
    /\ UNCHANGED <<cache, kept>>

RestoreFile(p) ==
    /\ At(p, "restore")
    /\ \E o \in proc[p].todo :
         IF ~Matches(p, o) THEN Misses(p) /\ UNCHANGED output
         ELSE /\ output' = [output EXCEPT ![o] = proc[p].source]
              /\ proc' = [proc EXCEPT ![p].todo = @ \ {o}, ![p].got[o] = proc[p].source,
                            ![p].pc = IF proc[p].todo = {o} THEN "restored" ELSE "restore"]
    /\ UNCHANGED <<cache, kept>>

\* A hit: the run's receipt is written, nothing is stored.
Reuse(p) ==
    /\ At(p, "restored")
    /\ proc' = [proc EXCEPT ![p].pc = "receipt", ![p].ran = TRUE, ![p].source = NoRun,
                            ![p].got = [o \in Outputs |-> NoRun]]
    /\ UNCHANGED <<cache, output, kept>>

\* A miss: the task writes its outputs, which are hashed when it has passed.
\* One that does not pass is not cacheable.
Run(p) ==
    /\ At(p, "run")
    /\ output' = [o \in Outputs |-> proc[p].run]
    /\ \E passed \in BOOLEAN :
         proc' = [proc EXCEPT ![p].pc = "receipt", ![p].ran = TRUE, ![p].stores = passed]
    /\ UNCHANGED <<cache, kept>>

\* A receipt that was not there.
Written(r) == receipts' = receipts \cup {r} /\ older' = older \cup receipts \X {r}

\* `write_receipt`: one that is there already is left as it is, and as old.
WriteReceipt(p) ==
    /\ At(p, "receipt")
    /\ LET r == proc[p].run
       IN  IF Receipt(r) THEN UNCHANGED kept
           ELSE Written(r) /\ fresh' = fresh \cup {r}
    /\ Goes(p, "conclude")
    /\ UNCHANGED <<cache, output>>

\* The run's conclusion is in its journal; what can be cached is stored next.
Conclude(p) ==
    /\ At(p, "conclude")
    /\ proc' = [proc EXCEPT ![p].told = TRUE,
                            ![p].pc = IF proc[p].stores THEN "store" ELSE "prune"]
    /\ UNCHANGED <<cache, output, kept>>

-----------------------------------------------------------------------------
\* `store`: the entry is built aside.  Each output is copied and must still be
\* what the task left; the entry is written last.
Stage(p) ==
    /\ At(p, "store")
    /\ place' = [place EXCEPT ![p] = "staging"]
    /\ proc' = [proc EXCEPT ![p].pc = "copy", ![p].todo = Outputs]
    /\ UNCHANGED <<entry, artifacts, output, kept>>

CopyOutput(p) ==
    /\ At(p, "copy")
    /\ place[p] = "staging"
    /\ \E o \in proc[p].todo :
         /\ output[o] = proc[p].run
         /\ artifacts' = [artifacts EXCEPT ![p] = @ \cup {o}]
         /\ proc' = [proc EXCEPT ![p].todo = @ \ {o}]
    /\ UNCHANGED <<place, entry, output, kept>>

WriteEntry(p) ==
    /\ At(p, "copy")
    /\ place[p] = "staging"
    /\ proc[p].todo = {}
    /\ entry' = entry \cup {p}
    /\ Goes(p, "place")
    /\ UNCHANGED <<place, artifacts, output, kept>>

\* Any of it may fail; the copies go, as far as they are still there.
Discarded(p) ==
    IF place[p] # "staging" THEN UNCHANGED cache
    ELSE /\ place' = [place EXCEPT ![p] = "gone"]
         /\ entry' = entry \ {p}
         /\ artifacts' = [artifacts EXCEPT ![p] = {}]
GivesUp(p) == proc' = [proc EXCEPT ![p].pc = "prune", ![p].todo = {}]

BuildFails(p) ==
    /\ At(p, "copy")
    /\ Discarded(p)
    /\ GivesUp(p)
    /\ UNCHANGED <<output, kept>>

\* Mutant: the rename is taken to replace what has the key.
PlaceOver(p) ==
    /\ proc[p].pc \in {"place", "retry"}
    /\ IF place[p] = "staging"
       THEN /\ place' = [place EXCEPT ![p] = "key"]
            /\ proc' = [proc EXCEPT ![p].pc = "stored"]
       ELSE GivesUp(p) /\ UNCHANGED place
    /\ UNCHANGED <<entry, artifacts, output, kept>>

\* The rename: it replaces a directory with nothing in it, and fails when the
\* key is taken otherwise, or the directory was evicted.
Place(p) ==
    /\ proc[p].pc \in {"place", "retry"}
    /\ \/ /\ place[p] = "staging"
          /\ \A d \in AtKey : Hollow(d)
          /\ place' = [d \in Processes |-> IF d = p THEN "key"
                                           ELSE IF d \in AtKey THEN "gone" ELSE place[d]]
          /\ proc' = [proc EXCEPT ![p].pc = "stored"]
       \/ place[p] # "staging" /\ AtKey = {} /\ GivesUp(p) /\ UNCHANGED place
       \/ AtKey # {} /\ Goes(p, "taken") /\ UNCHANGED place
    /\ UNCHANGED <<entry, artifacts, output, kept>>

\* What is under the key is as good, if it still verifies.
KeepTheirs(p) ==
    /\ At(p, "taken")
    /\ \E d \in AtKey : Valid(d)
    /\ Discarded(p)
    /\ GivesUp(p)
    /\ UNCHANGED <<output, kept>>

Distrust(p) ==
    /\ At(p, "taken")
    /\ ~\E d \in AtKey : Valid(d)
    /\ Goes(p, "aside")
    /\ UNCHANGED <<cache, output, kept>>

\* Whatever is there now is moved aside and removed, and the rename tried
\* again; after three tries `store` gives up.  How many it made is left open.
MoveAside(p) ==
    /\ At(p, "aside")
    /\ \/ \E d \in AtKey :
            /\ place' = [place EXCEPT ![d] = "aside"]
            /\ proc' = [proc EXCEPT ![p].pc = "removing", ![p].victim = d,
                                    ![p].path = <<"aside", d>>, ![p].back = "retry"]
       \/ AtKey = {} /\ Goes(p, "retry") /\ UNCHANGED place
    /\ UNCHANGED <<entry, artifacts, output, kept>>

Discard(p) ==
    /\ At(p, "retry")
    /\ Discarded(p)
    /\ GivesUp(p)
    /\ UNCHANGED <<output, kept>>

EvictForStored(p) ==
    /\ At(p, "stored")
    /\ Lists(p, {KeyPath})
    /\ UNCHANGED <<cache, output, kept>>

-----------------------------------------------------------------------------
\* A killed process leaves its directories; its receipt grows old.
Crash(p) ==
    /\ Cardinality({q \in Processes : At(q, "dead")}) < MaxKilled
    /\ Live(p)
    /\ Leaves(p, "dead")
    /\ fresh' = fresh \ {proc[p].run}
    /\ UNCHANGED <<cache, output, receipts, older>>

\* A run that was not concluded goes on from what its journal says; once its
\* tasks are decided its receipt will be the same, byte for byte.  Bound: a
\* run is resumed once.
Resume(p, q) ==
    /\ At(p, "new")
    /\ At(q, "dead")
    /\ ~proc[q].told
    /\ \A s \in Processes \ {q} : proc[s].run # proc[q].run
    /\ proc' = [proc EXCEPT ![p].pc = "resumed", ![p].run = proc[q].run,
                            ![p].ran = proc[q].ran, ![p].stores = proc[q].stores]
    /\ UNCHANGED <<cache, output, kept>>

\* A run of another contract wrote its receipt, and that is old by now: so is
\* everything else.
OtherRun(r) ==
    /\ ~Receipt(r)
    /\ fresh = {}
    /\ Written(r)
    /\ UNCHANGED <<cache, output, fresh, proc>>

Init ==
    /\ place = [d \in Processes |-> "none"]
    /\ entry = {}
    /\ artifacts = [d \in Processes |-> {}]
    /\ output = [o \in Outputs |-> NoRun]
    /\ receipts = {}
    /\ older = {}
    /\ fresh = {}
    /\ proc = [p \in Processes |-> New(p)]

CacheStep(p) ==
    \/ Evict(p) \/ RemoveFile(p) \/ RemoveDirectory(p)
    \/ ReadEntry(p) \/ HashArtifact(p) \/ RestoreFile(p) \/ Reuse(p)
    \/ Stage(p) \/ CopyOutput(p) \/ WriteEntry(p) \/ BuildFails(p)
    \/ Place(p) \/ KeepTheirs(p) \/ Distrust(p) \/ MoveAside(p) \/ Discard(p)
    \/ EvictForStored(p)

ReceiptStep(p) ==
    \/ ScanReferences(p) \/ ReadReference(p) \/ ListReceipts(p) \/ Unlink(p) \/ EndPrune(p)
    \/ WriteReceipt(p) \/ Conclude(p)

Next ==
    \/ \E p \in Processes :
        \/ Begin(p) \/ Run(p) \/ CacheStep(p) \/ ReceiptStep(p)
        \/ Crash(p) \/ \E q \in Processes : Resume(p, q)
    \/ \E r \in OtherRuns : OtherRun(r)

Spec == Init /\ [][Next]_vars

-----------------------------------------------------------------------------
\* Directories, receipts and processes have the shape the code gives them; one
\* directory at most has the key's name, and receipts are told apart by age.
CacheTypeOK ==
    /\ place \in [Processes -> {"none", "staging", "key", "aside", "gone"}]
    /\ Cardinality(AtKey) <= 1
    /\ entry \subseteq Present
    /\ artifacts \in [Processes -> SUBSET Outputs]
    /\ output \in [Outputs -> Processes \cup {NoRun}]
    /\ receipts \subseteq Processes \cup OtherRuns
    /\ older \subseteq receipts \X receipts
    /\ \A r, s \in receipts : r = s \/ <<r, s>> \in older \/ <<s, r>> \in older
    /\ \A r, s, t \in receipts :
         /\ <<r, r>> \notin older
         /\ <<r, s>> \in older /\ <<s, t>> \in older => <<r, t>> \in older
    /\ fresh \subseteq Processes
    /\ \A p \in Processes :
         /\ proc[p].run \in Processes
         /\ proc[p].source \in Processes \cup {NoRun}
         /\ proc[p].got \in [Outputs -> Processes \cup {NoRun}]

\* The run's conclusion is recorded.
IsConcluded(r) == \E p \in Processes : proc[p].run = r /\ proc[p].told

\* A task reported as cached was given the bytes of one concluded run, the one
\* whose receipt it cites: never some of one entry and some of another,
\* whatever was stored, evicted or moved while they were copied.
RestoredIsOneRun ==
    \A p \in Processes : At(p, "restored") =>
        /\ IsConcluded(proc[p].source)
        /\ \A o \in Outputs : proc[p].got[o] = proc[p].source

\* An entry cites a receipt that is on disk: pruning never takes one that an
\* entry cites, or is about to, unless the run was resumed with its receipt
\* already written.
CitedIsOnDisk ==
    \A d \in AtKey : d \in entry /\ RunOf(d) = d => Receipt(RunOf(d))

\* The same of every run, as the comment on `prune_receipts` has it.
EntryCanHit ==
    \A d \in AtKey : d \in entry => Receipt(RunOf(d))
=============================================================================
