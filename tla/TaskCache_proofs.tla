-------------------------- MODULE TaskCache_proofs --------------------------
(***************************************************************************)
(* Proofs about TaskCache, for every set of processes and outputs and      *)
(* every budget: what is restored is what one concluded run wrote, and an  *)
(* entry under its key cites a receipt that is on disk, however lookups,   *)
(* stores, evictions, prunings and kills interleave.                       *)
(***************************************************************************)
EXTENDS TaskCache, FiniteSetTheorems, TLAPS

Steps ==
    {"new", "resumed", "done", "dead", "prune", "evicting", "removing", "references", "unlink",
     "lookup", "inspect", "restore", "restored", "run", "receipt", "conclude",
     "store", "copy", "place", "retry", "taken", "aside", "stored"}

\* Before a run is concluded, and while its entry is stored.
Early ==
    {"new", "resumed", "lookup", "inspect", "restore", "restored", "run", "receipt", "conclude"}
Storing == {"store", "copy", "place", "retry", "taken", "aside", "stored"}

AnyRun == Processes \cup OtherRuns
Paths == {KeyPath} \cup {"staging", "aside"} \X Processes

CacheProcess ==
    [pc : Steps, run : Processes, ran : BOOLEAN, stores : BOOLEAN, told : BOOLEAN,
     source : Processes \cup {NoRun}, got : [Outputs -> Processes \cup {NoRun}],
     todo : SUBSET (Outputs \cup Paths), total : Int, victim : Processes \cup {NoRun},
     path : Paths, back : {"none", "evicting", "retry"},
     cited : SUBSET AnyRun, aged : SUBSET AnyRun, doomed : SUBSET AnyRun]

DiskOK ==
    /\ place \in [Processes -> {"none", "staging", "key", "aside", "gone"}]
    /\ \A d, e \in Processes : place[d] = "key" /\ place[e] = "key" => d = e
    /\ entry \subseteq Processes
    /\ \A d \in entry : place[d] \in {"staging", "key", "aside"}
    /\ artifacts \in [Processes -> SUBSET Outputs]
    /\ output \in [Outputs -> Processes \cup {NoRun}]

ReceiptsOK ==
    /\ receipts \subseteq AnyRun
    /\ older \subseteq receipts \X receipts
    /\ \A r, s \in receipts : r = s \/ <<r, s>> \in older \/ <<s, r>> \in older
    /\ \A r, s, t \in receipts :
         /\ <<r, r>> \notin older
         /\ <<r, s>> \in older /\ <<s, t>> \in older => <<r, t>> \in older
    /\ fresh \subseteq Processes

\* A process concludes its run before it stores, and stores once.
LocalFits(p) ==
    /\ At(p, "new") => proc[p] = New(p)
    /\ At(p, "removing") => proc[p].victim \in Processes /\ proc[p].back \in {"evicting", "retry"}
    /\ proc[p].told => proc[p].pc \notin Early
    /\ proc[p].pc \in Storing \/ (At(p, "removing") /\ proc[p].back = "retry") => proc[p].told
    /\ place[p] # "none" => proc[p].told /\ ~At(p, "store")
    /\ p \in entry => proc[p].told
    /\ proc[p].aged # {} => At(p, "references")

\* What is restored is of one concluded run, as far as it got.
RestoreFits(n) ==
    /\ n.pc \in {"inspect", "restore", "restored"} => IsConcluded(n.source)
    /\ n.pc \in {"inspect", "restore", "copy"} => n.todo \subseteq Outputs
    /\ n.pc = "restore" => \A o \in Outputs \ n.todo : n.got[o] = n.source
    /\ n.pc = "restored" => \A o \in Outputs : n.got[o] = n.source

Ended(p) == proc[p].pc \in {"done", "dead"}
Wrote(p) == At(p, "conclude") \/ proc[p].told

\* The entry of a run that was not resumed, under the key, its process gone.
Lasting(d) == place[d] = "key" /\ d \in entry /\ proc[d].run = d /\ Ended(d)

Threatens(p, d) ==
    \/ d \in proc[p].doomed
    \/ d \in proc[p].aged /\ KeyPath \notin proc[p].todo /\ d \notin proc[p].cited

\* A run's receipt is young as long as its process lives, and old ones are
\* only of runs whose process is gone: so what a pruner found old it also
\* finds cited, if there is an entry that cites it.
AgesFit ==
    /\ \A d \in Processes :
         proc[d].run = d /\ Wrote(d) /\ ~Ended(d) => d \in receipts /\ d \in fresh
    /\ \A p, d \in Processes : p # d /\ proc[p].run = d => Ended(d)
    /\ \A d \in Processes : d \in receipts => Ended(d) \/ (proc[d].run = d /\ Wrote(d))
    /\ \A p, d \in Processes : d \in proc[p].aged \cup proc[p].doomed => Ended(d)
    /\ \A d \in Processes : Lasting(d) => d \in receipts /\ \A p \in Processes : ~Threatens(p, d)

CacheInv ==
    /\ DiskOK
    /\ ReceiptsOK
    /\ proc \in [Processes -> CacheProcess]
    /\ \A p \in Processes : LocalFits(p) /\ RestoreFits(proc[p])
    /\ AgesFit

-----------------------------------------------------------------------------
\* The key is a path of its own.
LEMMA KeyIsAPath ==
    ASSUME place \in [Processes -> {"none", "staging", "key", "aside", "gone"}]
    PROVE  /\ AtKey = {d \in Processes : place[d] = "key"}
           /\ \A d \in Present : PathOf(d) \in Paths
           /\ KeyPath \in Paths
           /\ \A d \in Processes : <<"aside", d>> \in Paths
           /\ Present \in SUBSET Processes
BY DEF AtKey, AtPath, Present, PathOf, KeyPath, Paths

LEMMA NewIsProcess ==
    ASSUME NEW p \in Processes
    PROVE  /\ New(p) \in CacheProcess /\ New(p).pc = "new" /\ New(p).run = p
           /\ New(p).told = FALSE /\ New(p).aged = {} /\ New(p).doomed = {}
BY DEF New, CacheProcess, Steps, Paths

LEMMA CacheInit == Init => CacheInv
<1> SUFFICES ASSUME Init PROVE CacheInv
  OBVIOUS
<1>1. \A p \in Processes : proc[p] = New(p)
  BY DEF Init
<1>2. proc \in [Processes -> CacheProcess]
  BY NewIsProcess DEF Init
<1>3. DiskOK /\ ReceiptsOK
  BY DEF Init, DiskOK, ReceiptsOK
<1>4. ASSUME NEW p \in Processes PROVE LocalFits(p)
  BY <1>1, NewIsProcess DEF Init, LocalFits, At, Storing
<1>5. ASSUME NEW p \in Processes PROVE RestoreFits(proc[p])
  BY <1>1, NewIsProcess DEF RestoreFits
<1>6. AgesFit
  BY <1>1, NewIsProcess DEF Init, AgesFit, Lasting, Threatens, Wrote, Ended, At
<1>7. QED
  BY <1>2, <1>3, <1>4, <1>5, <1>6 DEF CacheInv

-----------------------------------------------------------------------------
\* A run's conclusion is never taken back.
LEMMA StaysConcluded ==
    ASSUME proc \in [Processes -> CacheProcess], NEW p \in Processes, NEW n,
           proc' = [proc EXCEPT ![p] = n], n.run = proc[p].run, proc[p].told => n.told,
           NEW r, IsConcluded(r)
    PROVE  IsConcluded(r)'
<1>1. PICK q \in Processes : proc[q].run = r /\ proc[q].told
  BY DEF IsConcluded
<1>2. proc'[q].run = r /\ proc'[q].told
  BY <1>1
<1>3. QED
  BY <1>2 DEF IsConcluded

\* One process moves: the others fit as before, if it built no directory for
\* them and what it left of theirs was there.
LEMMA OthersFit ==
    ASSUME CacheInv, NEW p \in Processes, NEW n,
           proc' = [proc EXCEPT ![p] = n], n.run = proc[p].run, proc[p].told => n.told,
           \A d \in Processes \ {p} : /\ place'[d] # "none" => place[d] # "none"
                                      /\ d \in entry' => d \in entry,
           NEW q \in Processes, q # p
    PROVE  LocalFits(q)' /\ RestoreFits(proc[q])'
<1>1. proc'[q] = proc[q]
  BY DEF CacheInv
<1>2. LocalFits(q) /\ RestoreFits(proc[q])
  BY DEF CacheInv
<1>3. LocalFits(q)'
  BY <1>1, <1>2 DEF LocalFits, At, New
<1>4. \A r : IsConcluded(r) => IsConcluded(r)'
  BY StaysConcluded DEF CacheInv
<1>5. RestoreFits(proc[q])'
  BY <1>1, <1>2, <1>4 DEF RestoreFits
<1>6. QED
  BY <1>3, <1>5

\* A process at work goes on without touching a receipt, and looks for none
\* to prune.
LEMMA Works ==
    ASSUME CacheInv, NEW p \in Processes, NEW n \in CacheProcess,
           proc' = [proc EXCEPT ![p] = n], UNCHANGED kept,
           ~Ended(p), n.pc \notin {"done", "dead"},
           n.run = proc[p].run, proc[p].told => n.told,
           n.pc = "conclude" \/ n.told <=> Wrote(p),
           n.aged = {}, n.doomed \subseteq proc[p].doomed,
           DiskOK', LocalFits(p)', RestoreFits(n),
           \A d \in Processes \ {p} : /\ place'[d] # "none" => place[d] # "none"
                                      /\ place'[d] = "key" => place[d] = "key"
                                      /\ d \in entry' => d \in entry
    PROVE  CacheInv'
<1>1. proc' \in [Processes -> CacheProcess] /\ proc'[p] = n
  BY DEF CacheInv
<1>2. \A q \in Processes \ {p} : proc'[q] = proc[q]
  BY DEF CacheInv
<1>3. ReceiptsOK'
  BY DEF CacheInv, ReceiptsOK, kept
<1>4. \A q \in Processes \ {p} : LocalFits(q)' /\ RestoreFits(proc[q])'
  BY OthersFit
<1>5. RestoreFits(proc[p])'
  <2>1. \A r : IsConcluded(r) => IsConcluded(r)'
    BY StaysConcluded DEF CacheInv
  <2>2. QED
    BY <1>1, <2>1 DEF RestoreFits
<1>6. \A q \in Processes : /\ Ended(q)' <=> Ended(q)
                           /\ Wrote(q)' <=> Wrote(q)
                           /\ proc'[q].run = proc[q].run
  BY <1>1, <1>2 DEF Ended, Wrote, At
<1>7. \A q \in Processes : /\ proc'[q].aged \subseteq proc[q].aged
                           /\ proc'[q].doomed \subseteq proc[q].doomed
                           /\ \A d : Threatens(q, d)' => Threatens(q, d)
  BY <1>1, <1>2 DEF Threatens
<1>8. \A d \in Processes : Lasting(d)' => Lasting(d)
  BY <1>6 DEF Lasting
<1>9. AgesFit'
  BY <1>6, <1>7, <1>8 DEF CacheInv, AgesFit, kept
<1>10. QED
  BY <1>1, <1>3, <1>4, <1>5, <1>9 DEF CacheInv

\* The same, of a step that leaves the cache and the worktree alone.
LEMMA WorksOn ==
    ASSUME CacheInv, NEW p \in Processes, NEW n \in CacheProcess,
           proc' = [proc EXCEPT ![p] = n], UNCHANGED <<cache, output, kept>>,
           ~Ended(p), n.pc \notin {"new", "done", "dead"},
           n.run = proc[p].run, proc[p].told => n.told,
           n.pc = "conclude" \/ n.told <=> Wrote(p),
           n.aged = {}, n.doomed \subseteq proc[p].doomed,
           n.pc = "removing" => n.victim \in Processes /\ n.back \in {"evicting", "retry"},
           n.told => n.pc \notin Early,
           n.pc \in Storing \/ (n.pc = "removing" /\ n.back = "retry") => n.told,
           n.pc = "store" => ~proc[p].told,
           RestoreFits(n)
    PROVE  CacheInv'
<1>1. DiskOK'
  BY DEF CacheInv, DiskOK, cache
<1>2. proc'[p] = n
  BY DEF CacheInv
<1>3. LocalFits(p)'
  BY <1>2 DEF CacheInv, LocalFits, At, cache
<1>4. QED
  BY <1>1, <1>3, Works DEF cache

-----------------------------------------------------------------------------
\* What each action of a process needs to know of it.
LEMMA Before ==
    ASSUME CacheInv, NEW p \in Processes
    PROVE  /\ proc[p] \in CacheProcess /\ LocalFits(p) /\ RestoreFits(proc[p])
           /\ ~At(p, "references") => proc[p].aged = {}
           /\ Ended(p) <=> proc[p].pc \in {"done", "dead"}
           /\ Wrote(p) <=> At(p, "conclude") \/ proc[p].told
BY DEF CacheInv, LocalFits, Ended, Wrote

LEMMA TotalIsInt ==
    ASSUME CacheInv, NEW others \in 0 .. OtherEntries
    PROVE  Cardinality(Present) + others \in Int
<1>1. Present \in SUBSET Processes
  BY KeyIsAPath DEF CacheInv, DiskOK
<1>2. Cardinality(Present) \in Nat
  BY <1>1, CacheAssumption, FS_Subset, FS_CardinalityType
<1>3. QED
  BY <1>2, CacheAssumption

LEMMA ListsKeeps ==
    ASSUME CacheInv, NEW p \in Processes, NEW keep, Lists(p, keep),
           proc[p].pc \in {"new", "resumed", "stored"}, UNCHANGED <<cache, output, kept>>
    PROVE  CacheInv'
<1>1. PICK others \in 0 .. OtherEntries :
        LET total == Cardinality(Present) + others
        IN  IF total <= Budget THEN Goes(p, "prune")
            ELSE proc' = [proc EXCEPT ![p].pc = "evicting", ![p].total = total,
                                      ![p].todo = {PathOf(d) : d \in Present} \ keep]
  BY DEF Lists
<1> DEFINE total == Cardinality(Present) + others
           m == [proc[p] EXCEPT !.pc = "prune"]
           n == [proc[p] EXCEPT !.pc = "evicting", !.total = total,
                                !.todo = {PathOf(d) : d \in Present} \ keep]
<1>2. total \in Int
  BY TotalIsInt
<1>3. {PathOf(d) : d \in Present} \ keep \in SUBSET (Outputs \cup Paths)
  BY KeyIsAPath DEF CacheInv, DiskOK
<1>4. proc' = [proc EXCEPT ![p] = m] \/ proc' = [proc EXCEPT ![p] = n]
  BY <1>1 DEF Goes
<1>5. PICK k \in {m, n} : proc' = [proc EXCEPT ![p] = k]
  BY <1>4
<1>6. proc[p] \in CacheProcess
  BY Before
<1>7. /\ k \in CacheProcess /\ k.pc \in {"prune", "evicting"} /\ k.run = proc[p].run
      /\ k.told = proc[p].told /\ k.aged = proc[p].aged /\ k.doomed = proc[p].doomed
  <2>1. m \in CacheProcess /\ m.pc = "prune" /\ m.run = proc[p].run
        /\ m.told = proc[p].told /\ m.aged = proc[p].aged /\ m.doomed = proc[p].doomed
    BY <1>6 DEF CacheProcess, Steps
  <2> HIDE DEF total
  <2>2. n \in CacheProcess /\ n.pc = "evicting" /\ n.run = proc[p].run
        /\ n.told = proc[p].told /\ n.aged = proc[p].aged /\ n.doomed = proc[p].doomed
    BY <1>2, <1>3, <1>6 DEF CacheProcess, Steps
  <2>3. QED
    BY <2>1, <2>2
<1> HIDE DEF m, n, total
<1>8. RestoreFits(k) /\ ~Ended(p) /\ (k.told <=> Wrote(p)) /\ k.aged = {}
  BY <1>7, Before DEF At, RestoreFits
<1>9. QED
  BY <1>5, <1>7, <1>8, WorksOn DEF Storing, Early

LEMMA BeginKeeps == ASSUME CacheInv, NEW p \in Processes, Begin(p) PROVE CacheInv'
BY ListsKeeps DEF Begin

LEMMA EvictForStoredKeeps ==
    ASSUME CacheInv, NEW p \in Processes, EvictForStored(p) PROVE CacheInv'
BY ListsKeeps DEF EvictForStored, At

LEMMA EvictKeeps == ASSUME CacheInv, NEW p \in Processes, Evict(p) PROVE CacheInv'
<1>1. PICK path \in proc[p].todo :
         IF AtPath(path) = {}
         THEN proc' = [proc EXCEPT ![p].todo = @ \ {path}]
         ELSE \E d \in AtPath(path) :
                proc' = [proc EXCEPT ![p].todo = @ \ {path}, ![p].pc = "removing",
                                     ![p].victim = d, ![p].path = path,
                                     ![p].back = "evicting"]
  BY DEF Evict
<1>2. At(p, "evicting") /\ UNCHANGED <<cache, output, kept>>
  BY DEF Evict
<1>3. proc[p] \in CacheProcess
  BY Before
<1>4. CASE AtPath(path) = {}
  <2> DEFINE n == [proc[p] EXCEPT !.todo = @ \ {path}]
  <2>1. proc' = [proc EXCEPT ![p] = n]
    BY <1>1, <1>4
  <2>2. n \in CacheProcess
    BY <1>3 DEF CacheProcess
  <2>3. /\ n.pc = "evicting" /\ n.run = proc[p].run
        /\ n.told = proc[p].told /\ n.aged = proc[p].aged /\ n.doomed = proc[p].doomed
    BY <1>2, <1>3 DEF CacheProcess, At
  <2> HIDE DEF n
  <2>4. RestoreFits(n) /\ ~Ended(p) /\ (n.told <=> Wrote(p)) /\ n.aged = {}
    BY <1>2, <2>3, Before DEF At, RestoreFits
  <2>5. QED
    BY <1>2, <2>1, <2>2, <2>3, <2>4, WorksOn DEF Storing, Early
<1>5. CASE AtPath(path) # {}
  <2>1. PICK d \in AtPath(path) :
                proc' = [proc EXCEPT ![p].todo = @ \ {path}, ![p].pc = "removing",
                                     ![p].victim = d, ![p].path = path,
                                     ![p].back = "evicting"]
    BY <1>1, <1>5
  <2>2. d \in Processes /\ path \in Paths
    BY KeyIsAPath DEF CacheInv, DiskOK, AtPath, Present
  <2> DEFINE n == [proc[p] EXCEPT !.todo = @ \ {path}, !.pc = "removing",
                                  !.victim = d, !.path = path, !.back = "evicting"]
  <2>3. proc' = [proc EXCEPT ![p] = n]
    BY <2>1
  <2>4. n \in CacheProcess
    BY <1>3, <2>2 DEF CacheProcess, Steps
  <2>5. /\ n.pc = "removing" /\ n.run = proc[p].run /\ n.victim = d /\ n.back = "evicting"
        /\ n.told = proc[p].told /\ n.aged = proc[p].aged /\ n.doomed = proc[p].doomed
    BY <1>3 DEF CacheProcess
  <2> HIDE DEF n
  <2>6. RestoreFits(n) /\ ~Ended(p) /\ (n.told <=> Wrote(p)) /\ n.aged = {}
    BY <1>2, <2>5, Before DEF At, RestoreFits
  <2>7. QED
    BY <1>2, <2>2, <2>3, <2>4, <2>5, <2>6, WorksOn DEF Storing, Early
<1>6. QED
  BY <1>4, <1>5

LEMMA RemoveFileKeeps == ASSUME CacheInv, NEW p \in Processes, RemoveFile(p) PROVE CacheInv'
<1>1. UNCHANGED <<place, output, kept, proc>>
  BY DEF RemoveFile
<1>2. entry' \subseteq entry
  BY DEF RemoveFile
<1>3. artifacts' \in [Processes -> SUBSET Outputs]
  BY DEF RemoveFile, CacheInv, DiskOK
<1>4. DiskOK' /\ ReceiptsOK'
  BY <1>1, <1>2, <1>3 DEF CacheInv, DiskOK, ReceiptsOK, kept
<1>5. ASSUME NEW q \in Processes PROVE LocalFits(q)' /\ RestoreFits(proc[q])'
  BY <1>1, <1>2 DEF CacheInv, LocalFits, RestoreFits, IsConcluded, At, New
<1>6. \A d \in Processes : Lasting(d)' => Lasting(d)
  BY <1>1, <1>2 DEF Lasting, Ended
<1>7. AgesFit'
  BY <1>1, <1>6 DEF CacheInv, AgesFit, Ended, Wrote, At, Threatens, kept
<1>8. QED
  BY <1>1, <1>4, <1>5, <1>7 DEF CacheInv

LEMMA RemoveDirectoryKeeps ==
    ASSUME CacheInv, NEW p \in Processes, RemoveDirectory(p) PROVE CacheInv'
<1> DEFINE d == proc[p].victim
           back == proc[p].back
           removed == PathOf(d) = proc[p].path /\ Hollow(d)
           n == [proc[p] EXCEPT !.pc = back, !.victim = NoRun, !.back = "none",
                         !.path = KeyPath,
                         !.total = IF removed /\ back = "evicting" THEN @ - 1 ELSE @]
<1>1. /\ At(p, "removing") /\ UNCHANGED <<entry, artifacts, output, kept>>
      /\ place' = IF removed THEN [place EXCEPT ![d] = "gone"] ELSE place
      /\ proc' = [proc EXCEPT ![p] = n]
  BY DEF RemoveDirectory
<1>2. d \in Processes /\ back \in {"evicting", "retry"} /\ (back = "retry" => proc[p].told)
  BY <1>1, Before DEF LocalFits, At
<1>3. proc[p] \in CacheProcess
  BY Before
<1>4. /\ n \in CacheProcess /\ n.pc = back /\ n.run = proc[p].run
      /\ n.told = proc[p].told /\ n.aged = proc[p].aged /\ n.doomed = proc[p].doomed
  <2>1. KeyPath \in Paths
    BY DEF Paths
  <2>2. IF removed /\ back = "evicting" THEN proc[p].total - 1 \in Int ELSE proc[p].total \in Int
    BY <1>3 DEF CacheProcess
  <2> DEFINE total == IF removed /\ back = "evicting" THEN proc[p].total - 1 ELSE proc[p].total
             m == [proc[p] EXCEPT !.pc = back, !.victim = NoRun, !.back = "none",
                                  !.path = KeyPath, !.total = total]
  <2>3. total \in Int /\ back \in Steps /\ m = n
    BY <1>2, <2>2 DEF Steps
  <2> HIDE DEF total, n
  <2>4. m \in CacheProcess
    BY <1>3, <2>1, <2>3 DEF CacheProcess
  <2>5. /\ m.pc = back /\ m.run = proc[p].run
        /\ m.told = proc[p].told /\ m.aged = proc[p].aged /\ m.doomed = proc[p].doomed
    BY <1>3 DEF CacheProcess
  <2> HIDE DEF m
  <2>6. QED
    BY <2>3, <2>4, <2>5
<1> HIDE DEF n
<1>5. removed => place[d] \notin {"none", "gone"} /\ d \notin entry
  <2>1. proc[p].path \in Paths
    BY <1>3 DEF CacheProcess
  <2>2. \A x : <<"none", x>> \notin Paths /\ <<"gone", x>> \notin Paths
    BY DEF Paths, KeyPath
  <2>3. QED
    BY <2>1, <2>2 DEF PathOf, Hollow
<1>6. place \in [Processes -> {"none", "staging", "key", "aside", "gone"}]
  BY DEF CacheInv, DiskOK
<1>7. \A e \in Processes : place'[e] = place[e] \/ (e = d /\ removed /\ place'[e] = "gone")
  BY <1>1, <1>2, <1>6
<1>8. place' \in [Processes -> {"none", "staging", "key", "aside", "gone"}]
  BY <1>1, <1>2, <1>6
<1> HIDE DEF removed
<1>9. DiskOK'
  BY <1>1, <1>5, <1>7, <1>8 DEF CacheInv, DiskOK
<1>10. proc'[p] = n
  BY <1>1 DEF CacheInv
<1>11. LocalFits(p)'
  BY <1>1, <1>2, <1>4, <1>5, <1>7, <1>10, Before DEF LocalFits, At, Storing, Early
<1>12. RestoreFits(n) /\ ~Ended(p) /\ (n.told <=> Wrote(p)) /\ n.aged = {}
  BY <1>1, <1>2, <1>4, Before DEF At, RestoreFits
<1>13. QED
  BY <1>1, <1>2, <1>4, <1>5, <1>7, <1>9, <1>11, <1>12, Works

-----------------------------------------------------------------------------
\* Looking a key up and restoring.
LEMMA MissesKeeps ==
    ASSUME CacheInv, NEW p \in Processes, proc[p].pc \in {"lookup", "inspect", "restore"},
           Misses(p), UNCHANGED <<cache, output, kept>>
    PROVE  CacheInv'
<1> DEFINE n == [proc[p] EXCEPT !.pc = "run", !.todo = {}, !.source = NoRun,
                                !.got = [o \in Outputs |-> NoRun]]
<1>1. proc' = [proc EXCEPT ![p] = n]
  BY DEF Misses
<1>2. n \in CacheProcess
  <2>1. proc[p] \in CacheProcess
    BY Before
  <2>2. [o \in Outputs |-> NoRun] \in [Outputs -> Processes \cup {NoRun}]
    OBVIOUS
  <2>3. {} \in SUBSET (Outputs \cup Paths)
    OBVIOUS
  <2>4. QED
    BY <2>1, <2>2, <2>3 DEF CacheProcess, Steps
<1>3. /\ n.pc = "run" /\ n.run = proc[p].run
      /\ n.told = proc[p].told /\ n.aged = proc[p].aged /\ n.doomed = proc[p].doomed
  BY Before DEF CacheProcess
<1> HIDE DEF n
<1>4. RestoreFits(n) /\ ~Ended(p) /\ ~proc[p].told /\ ~Wrote(p) /\ n.aged = {}
  BY <1>3, Before DEF At, RestoreFits, LocalFits, Early
<1>5. QED
  BY <1>1, <1>2, <1>3, <1>4, WorksOn DEF Storing, Early

\* An entry that is there is of a run that was concluded.
LEMMA EntriesAreConcluded ==
    ASSUME CacheInv, NEW d \in Processes, place[d] # "none"
    PROVE  IsConcluded(RunOf(d)) /\ RunOf(d) \in Processes
BY DEF CacheInv, LocalFits, IsConcluded, RunOf, CacheProcess

LEMMA ReadEntryKeeps == ASSUME CacheInv, NEW p \in Processes, ReadEntry(p) PROVE CacheInv'
<1>1. At(p, "lookup") /\ UNCHANGED <<cache, output, kept>>
  BY DEF ReadEntry
<1>2. CASE Misses(p)
  BY <1>1, <1>2, MissesKeeps DEF At
<1>3. CASE \E d \in AtKey : proc' = [proc EXCEPT ![p].pc = "inspect", ![p].source = RunOf(d),
                                                 ![p].todo = Outputs]
  <2>1. PICK d \in AtKey : proc' = [proc EXCEPT ![p].pc = "inspect", ![p].source = RunOf(d),
                                                ![p].todo = Outputs]
    BY <1>3
  <2>2. d \in Processes /\ place[d] = "key"
    BY KeyIsAPath DEF CacheInv, DiskOK
  <2>3. IsConcluded(RunOf(d)) /\ RunOf(d) \in Processes
    BY <2>2, EntriesAreConcluded
  <2> DEFINE n == [proc[p] EXCEPT !.pc = "inspect", !.source = RunOf(d), !.todo = Outputs]
  <2>4. proc' = [proc EXCEPT ![p] = n]
    BY <2>1
  <2>5. n \in CacheProcess
    <3>1. proc[p] \in CacheProcess
      BY Before
    <3>2. Outputs \in SUBSET (Outputs \cup Paths)
      OBVIOUS
    <3>3. QED
      BY <2>3, <3>1, <3>2 DEF CacheProcess, Steps
  <2>6. /\ n.pc = "inspect" /\ n.run = proc[p].run /\ n.source = RunOf(d) /\ n.todo = Outputs
        /\ n.told = proc[p].told /\ n.aged = proc[p].aged /\ n.doomed = proc[p].doomed
    BY Before DEF CacheProcess
  <2> HIDE DEF n
  <2>7. RestoreFits(n) /\ ~Ended(p) /\ ~proc[p].told /\ ~Wrote(p) /\ n.aged = {}
    BY <1>1, <2>3, <2>6, Before DEF At, RestoreFits, LocalFits, Early
  <2>8. QED
    BY <1>1, <2>4, <2>5, <2>6, <2>7, WorksOn DEF Storing, Early
<1>4. QED
  BY <1>2, <1>3 DEF ReadEntry

LEMMA HashArtifactKeeps ==
    ASSUME CacheInv, NEW p \in Processes, HashArtifact(p) PROVE CacheInv'
<1>1. At(p, "inspect") /\ UNCHANGED <<cache, output, kept>>
  BY DEF HashArtifact
<1>2. PICK o \in proc[p].todo :
         IF ~Matches(p, o) THEN Misses(p)
         ELSE IF proc[p].todo = {o}
         THEN proc' = [proc EXCEPT ![p].pc = "restore", ![p].todo = Outputs]
         ELSE proc' = [proc EXCEPT ![p].todo = @ \ {o}]
  BY DEF HashArtifact
<1> DEFINE m == [proc[p] EXCEPT !.pc = "restore", !.todo = Outputs]
           n == [proc[p] EXCEPT !.todo = @ \ {o}]
<1>3. CASE Misses(p)
  BY <1>1, <1>3, MissesKeeps DEF At
<1>4. CASE proc' = [proc EXCEPT ![p] = m]
  <2>1. m \in CacheProcess
    <3>1. proc[p] \in CacheProcess
      BY Before
    <3>2. Outputs \in SUBSET (Outputs \cup Paths)
      OBVIOUS
    <3>3. QED
      BY <3>1, <3>2 DEF CacheProcess, Steps
  <2>2. /\ m.pc = "restore" /\ m.run = proc[p].run /\ m.source = proc[p].source
        /\ m.todo = Outputs /\ m.told = proc[p].told /\ m.aged = proc[p].aged
        /\ m.doomed = proc[p].doomed
    BY Before DEF CacheProcess
  <2> HIDE DEF m
  <2>3. RestoreFits(m) /\ ~Ended(p) /\ ~proc[p].told /\ ~Wrote(p) /\ m.aged = {}
    BY <1>1, <2>2, Before DEF At, RestoreFits, LocalFits, Early
  <2>4. QED
    BY <1>1, <1>4, <2>1, <2>2, <2>3, WorksOn DEF Storing, Early
<1>5. CASE proc' = [proc EXCEPT ![p] = n]
  <2>1. n \in CacheProcess
    BY Before DEF CacheProcess
  <2>2. /\ n.pc = proc[p].pc /\ n.run = proc[p].run /\ n.source = proc[p].source
        /\ n.todo \subseteq proc[p].todo /\ n.told = proc[p].told /\ n.aged = proc[p].aged
        /\ n.doomed = proc[p].doomed
    BY Before DEF CacheProcess
  <2> HIDE DEF n
  <2>3. RestoreFits(n) /\ ~Ended(p) /\ ~proc[p].told /\ ~Wrote(p) /\ n.aged = {}
    BY <1>1, <2>2, Before DEF At, RestoreFits, LocalFits, Early
  <2>4. QED
    BY <1>1, <1>5, <2>1, <2>2, <2>3, WorksOn DEF Storing, Early, At
<1>6. QED
  BY <1>2, <1>3, <1>4, <1>5

LEMMA RestoreFileKeeps ==
    ASSUME CacheInv, NEW p \in Processes, RestoreFile(p) PROVE CacheInv'
<1>1. At(p, "restore") /\ UNCHANGED <<cache, kept>>
  BY DEF RestoreFile
<1>2. PICK o \in proc[p].todo :
         IF ~Matches(p, o) THEN Misses(p) /\ UNCHANGED output
         ELSE /\ output' = [output EXCEPT ![o] = proc[p].source]
              /\ proc' = [proc EXCEPT ![p].todo = @ \ {o}, ![p].got[o] = proc[p].source,
                            ![p].pc = IF proc[p].todo = {o} THEN "restored" ELSE "restore"]
  BY DEF RestoreFile
<1>3. CASE Misses(p) /\ UNCHANGED output
  BY <1>1, <1>3, MissesKeeps DEF At
<1>4. CASE /\ output' = [output EXCEPT ![o] = proc[p].source]
           /\ proc' = [proc EXCEPT ![p].todo = @ \ {o}, ![p].got[o] = proc[p].source,
                            ![p].pc = IF proc[p].todo = {o} THEN "restored" ELSE "restore"]
  <2> DEFINE n == [proc[p] EXCEPT !.todo = @ \ {o}, !.got[o] = proc[p].source,
                            !.pc = IF proc[p].todo = {o} THEN "restored" ELSE "restore"]
  <2>1. proc[p] \in CacheProcess /\ RestoreFits(proc[p]) /\ o \in Outputs
    BY <1>1, Before DEF RestoreFits, At
  <2>2. proc' = [proc EXCEPT ![p] = n]
    BY <1>4
  <2> DEFINE g == [proc[p].got EXCEPT ![o] = proc[p].source]
             s == IF proc[p].todo = {o} THEN "restored" ELSE "restore"
  <2>3. /\ g \in [Outputs -> Processes \cup {NoRun}] /\ g[o] = proc[p].source
        /\ \A x \in Outputs \ {o} : g[x] = proc[p].got[x]
        /\ s \in {"restored", "restore"} /\ (s = "restored" => proc[p].todo = {o})
    BY <2>1 DEF CacheProcess
  <2>4. n = [proc[p] EXCEPT !.todo = @ \ {o}, !.got = g, !.pc = s]
    BY <2>1 DEF CacheProcess
  <2> HIDE DEF n, g, s
  <2>5. n \in CacheProcess
    BY <2>1, <2>3, <2>4 DEF CacheProcess, Steps
  <2>6. /\ n.pc = s /\ n.got = g /\ n.run = proc[p].run /\ n.source = proc[p].source
        /\ n.todo = proc[p].todo \ {o} /\ n.told = proc[p].told /\ n.aged = proc[p].aged
        /\ n.doomed = proc[p].doomed
    BY <2>1, <2>4 DEF CacheProcess
  <2>7. ~Ended(p) /\ ~proc[p].told /\ ~Wrote(p) /\ n.aged = {}
    BY <1>1, <2>6, Before DEF At, LocalFits, Early
  <2>8. RestoreFits(n)
    <3>1. \A x \in Outputs \ n.todo : n.got[x] = n.source
      BY <1>1, <2>1, <2>3, <2>6 DEF RestoreFits, At
    <3>2. n.todo \subseteq Outputs /\ IsConcluded(n.source)
      BY <1>1, <2>1, <2>6 DEF RestoreFits, At
    <3>3. n.pc = "restored" => n.todo = {}
      BY <2>3, <2>6
    <3>4. QED
      BY <3>1, <3>2, <3>3 DEF RestoreFits
  <2>9. DiskOK'
    <3>1. output' \in [Outputs -> Processes \cup {NoRun}]
      BY <1>4, <2>1 DEF CacheInv, DiskOK, CacheProcess
    <3>2. QED
      BY <1>1, <3>1 DEF CacheInv, DiskOK, cache
  <2>10. LocalFits(p)'
    <3>1. proc'[p] = n
      BY <2>2 DEF CacheInv
    <3>2. LocalFits(p)
      BY Before
    <3>3. QED
      BY <1>1, <2>3, <2>6, <2>7, <3>1, <3>2 DEF LocalFits, At, Storing, cache
  <2>11. QED
    BY <1>1, <2>2, <2>3, <2>5, <2>6, <2>7, <2>8, <2>9, <2>10, Works DEF cache
<1>5. QED
  BY <1>2, <1>3, <1>4

LEMMA ReuseKeeps == ASSUME CacheInv, NEW p \in Processes, Reuse(p) PROVE CacheInv'
<1> DEFINE n == [proc[p] EXCEPT !.pc = "receipt", !.ran = TRUE, !.source = NoRun,
                                !.got = [o \in Outputs |-> NoRun]]
<1>1. At(p, "restored") /\ proc' = [proc EXCEPT ![p] = n] /\ UNCHANGED <<cache, output, kept>>
  BY DEF Reuse
<1>2. proc[p] \in CacheProcess
  BY Before
<1>3. [o \in Outputs |-> NoRun] \in [Outputs -> Processes \cup {NoRun}]
  OBVIOUS
<1>4. n \in CacheProcess
  BY <1>2, <1>3 DEF CacheProcess, Steps
<1>5. /\ n.pc = "receipt" /\ n.run = proc[p].run
      /\ n.told = proc[p].told /\ n.aged = proc[p].aged /\ n.doomed = proc[p].doomed
  BY <1>2 DEF CacheProcess
<1> HIDE DEF n
<1>6. RestoreFits(n) /\ ~Ended(p) /\ ~proc[p].told /\ ~Wrote(p) /\ n.aged = {}
  BY <1>1, <1>5, Before DEF At, RestoreFits, LocalFits, Early
<1>7. QED
  BY <1>1, <1>4, <1>5, <1>6, WorksOn DEF Storing, Early

-----------------------------------------------------------------------------
\* Running, and what the run leaves.
LEMMA RunKeeps == ASSUME CacheInv, NEW p \in Processes, Run(p) PROVE CacheInv'
<1>1. /\ At(p, "run") /\ UNCHANGED <<cache, kept>>
      /\ output' = [o \in Outputs |-> proc[p].run]
  BY DEF Run
<1>2. PICK passed \in BOOLEAN :
         proc' = [proc EXCEPT ![p].pc = "receipt", ![p].ran = TRUE, ![p].stores = passed]
  BY DEF Run
<1> DEFINE n == [proc[p] EXCEPT !.pc = "receipt", !.ran = TRUE, !.stores = passed]
<1>3. proc[p] \in CacheProcess /\ proc' = [proc EXCEPT ![p] = n]
  BY <1>2, Before
<1>4. n \in CacheProcess
  BY <1>3 DEF CacheProcess, Steps
<1>5. /\ n.pc = "receipt" /\ n.run = proc[p].run
      /\ n.told = proc[p].told /\ n.aged = proc[p].aged /\ n.doomed = proc[p].doomed
  BY <1>3 DEF CacheProcess
<1> HIDE DEF n
<1>6. RestoreFits(n) /\ ~Ended(p) /\ ~proc[p].told /\ ~Wrote(p) /\ n.aged = {}
  BY <1>1, <1>5, Before DEF At, RestoreFits, LocalFits, Early
<1>7. DiskOK'
  <2>1. output' \in [Outputs -> Processes \cup {NoRun}]
    BY <1>1, <1>3 DEF CacheProcess
  <2>2. QED
    BY <1>1, <2>1 DEF CacheInv, DiskOK, cache
<1>8. LocalFits(p)'
  <2>1. proc'[p] = n
    BY <1>3 DEF CacheInv
  <2>2. LocalFits(p)
    BY Before
  <2>3. QED
    BY <1>1, <1>5, <1>6, <2>1, <2>2 DEF LocalFits, At, Storing, cache
<1>9. QED
  BY <1>1, <1>3, <1>4, <1>5, <1>6, <1>7, <1>8, Works DEF cache

LEMMA ConcludeKeeps == ASSUME CacheInv, NEW p \in Processes, Conclude(p) PROVE CacheInv'
<1> DEFINE next == IF proc[p].stores THEN "store" ELSE "prune"
           n == [proc[p] EXCEPT !.told = TRUE, !.pc = next]
<1>1. At(p, "conclude") /\ proc' = [proc EXCEPT ![p] = n] /\ UNCHANGED <<cache, output, kept>>
  BY DEF Conclude
<1>2. proc[p] \in CacheProcess /\ next \in {"store", "prune"}
  BY Before
<1> HIDE DEF next
<1>3. n \in CacheProcess
  <2>1. next \in Steps
    BY <1>2 DEF Steps
  <2>2. QED
    BY <1>2, <2>1 DEF CacheProcess
<1>4. /\ n.pc \in {"store", "prune"} /\ n.run = proc[p].run
      /\ n.told = TRUE /\ n.aged = proc[p].aged /\ n.doomed = proc[p].doomed
  BY <1>2 DEF CacheProcess
<1> HIDE DEF n
<1>5. RestoreFits(n) /\ ~Ended(p) /\ ~proc[p].told /\ Wrote(p) /\ n.aged = {}
  BY <1>1, <1>4, Before DEF At, RestoreFits, LocalFits, Early
<1>6. QED
  BY <1>1, <1>3, <1>4, <1>5, WorksOn DEF Storing, Early

-----------------------------------------------------------------------------
\* Storing.
LEMMA StageKeeps == ASSUME CacheInv, NEW p \in Processes, Stage(p) PROVE CacheInv'
<1> DEFINE n == [proc[p] EXCEPT !.pc = "copy", !.todo = Outputs]
<1>1. /\ At(p, "store") /\ proc' = [proc EXCEPT ![p] = n]
      /\ place' = [place EXCEPT ![p] = "staging"]
      /\ UNCHANGED <<entry, artifacts, output, kept>>
  BY DEF Stage
<1>2. proc[p] \in CacheProcess /\ LocalFits(p)
  BY Before
<1>3. n \in CacheProcess
  <2>1. Outputs \in SUBSET (Outputs \cup Paths)
    OBVIOUS
  <2>2. QED
    BY <1>2, <2>1 DEF CacheProcess, Steps
<1>4. /\ n.pc = "copy" /\ n.todo = Outputs /\ n.run = proc[p].run
      /\ n.told = proc[p].told /\ n.aged = proc[p].aged /\ n.doomed = proc[p].doomed
  BY <1>2 DEF CacheProcess
<1> HIDE DEF n
<1>5. RestoreFits(n) /\ ~Ended(p) /\ proc[p].told /\ Wrote(p) /\ n.aged = {}
  BY <1>1, <1>2, <1>4, Before DEF At, RestoreFits, LocalFits, Storing
<1>6. \A d \in Processes \ {p} : place'[d] = place[d]
  BY <1>1 DEF CacheInv, DiskOK
<1>7. place' \in [Processes -> {"none", "staging", "key", "aside", "gone"}] /\ place'[p] = "staging"
  BY <1>1 DEF CacheInv, DiskOK
<1>8. DiskOK'
  BY <1>1, <1>6, <1>7 DEF CacheInv, DiskOK
<1>9. LocalFits(p)'
  <2>1. proc'[p] = n
    BY <1>1 DEF CacheInv
  <2>2. QED
    BY <1>1, <1>2, <1>4, <1>5, <2>1 DEF LocalFits, At, Storing, Early
<1>10. QED
  BY <1>1, <1>3, <1>4, <1>5, <1>6, <1>8, <1>9, Works

LEMMA CopyOutputKeeps == ASSUME CacheInv, NEW p \in Processes, CopyOutput(p) PROVE CacheInv'
<1>1. At(p, "copy") /\ UNCHANGED <<place, entry, output, kept>>
  BY DEF CopyOutput
<1>2. PICK o \in proc[p].todo :
         /\ artifacts' = [artifacts EXCEPT ![p] = @ \cup {o}]
         /\ proc' = [proc EXCEPT ![p].todo = @ \ {o}]
  BY DEF CopyOutput
<1> DEFINE n == [proc[p] EXCEPT !.todo = @ \ {o}]
<1>3. proc[p] \in CacheProcess /\ LocalFits(p) /\ proc' = [proc EXCEPT ![p] = n]
  BY <1>2, Before
<1>4. n \in CacheProcess
  BY <1>3 DEF CacheProcess
<1>5. /\ n.pc = proc[p].pc /\ n.todo \subseteq proc[p].todo /\ n.run = proc[p].run
      /\ n.told = proc[p].told /\ n.aged = proc[p].aged /\ n.doomed = proc[p].doomed
  BY <1>3 DEF CacheProcess
<1> HIDE DEF n
<1>6. RestoreFits(n) /\ ~Ended(p) /\ proc[p].told /\ Wrote(p) /\ n.aged = {}
  BY <1>1, <1>3, <1>5, Before DEF At, RestoreFits, LocalFits, Storing
<1>7. DiskOK'
  <2>1. o \in Outputs
    BY <1>1, Before DEF RestoreFits, At
  <2>2. artifacts' \in [Processes -> SUBSET Outputs]
    BY <1>2, <2>1 DEF CacheInv, DiskOK
  <2>3. QED
    BY <1>1, <2>2 DEF CacheInv, DiskOK
<1>8. LocalFits(p)'
  <2>1. proc'[p] = n
    BY <1>3 DEF CacheInv
  <2>2. QED
    BY <1>1, <1>3, <1>5, <1>6, <2>1 DEF LocalFits, At, Storing, Early
<1>9. QED
  BY <1>1, <1>3, <1>4, <1>5, <1>6, <1>7, <1>8, Works DEF At

LEMMA WriteEntryKeeps == ASSUME CacheInv, NEW p \in Processes, WriteEntry(p) PROVE CacheInv'
<1> DEFINE n == [proc[p] EXCEPT !.pc = "place"]
<1>1. /\ At(p, "copy") /\ place[p] = "staging" /\ entry' = entry \cup {p}
      /\ proc' = [proc EXCEPT ![p] = n] /\ UNCHANGED <<place, artifacts, output, kept>>
  BY DEF WriteEntry, Goes
<1>2. proc[p] \in CacheProcess /\ LocalFits(p)
  BY Before
<1>3. n \in CacheProcess
  BY <1>2 DEF CacheProcess, Steps
<1>4. /\ n.pc = "place" /\ n.run = proc[p].run
      /\ n.told = proc[p].told /\ n.aged = proc[p].aged /\ n.doomed = proc[p].doomed
  BY <1>2 DEF CacheProcess
<1> HIDE DEF n
<1>5. RestoreFits(n) /\ ~Ended(p) /\ proc[p].told /\ Wrote(p) /\ n.aged = {}
  BY <1>1, <1>2, <1>4, Before DEF At, RestoreFits, LocalFits, Storing
<1>6. DiskOK'
  BY <1>1 DEF CacheInv, DiskOK
<1>7. LocalFits(p)'
  <2>1. proc'[p] = n
    BY <1>1 DEF CacheInv
  <2>2. QED
    BY <1>1, <1>2, <1>4, <1>5, <2>1 DEF LocalFits, At, Storing, Early
<1>8. QED
  BY <1>1, <1>3, <1>4, <1>5, <1>6, <1>7, Works

\* On to another step of `store`.
LEMMA GoesOn ==
    ASSUME CacheInv, NEW p \in Processes, NEW pc \in {"taken", "aside", "retry"}, Goes(p, pc),
           proc[p].pc \in Storing, UNCHANGED <<cache, output, kept>>
    PROVE  CacheInv'
<1> DEFINE n == [proc[p] EXCEPT !.pc = pc]
<1>1. proc' = [proc EXCEPT ![p] = n]
  BY DEF Goes
<1>2. proc[p] \in CacheProcess /\ LocalFits(p)
  BY Before
<1>3. n \in CacheProcess
  BY <1>2 DEF CacheProcess, Steps
<1>4. /\ n.pc = pc /\ n.run = proc[p].run
      /\ n.told = proc[p].told /\ n.aged = proc[p].aged /\ n.doomed = proc[p].doomed
  BY <1>2 DEF CacheProcess
<1> HIDE DEF n
<1>5. RestoreFits(n) /\ ~Ended(p) /\ proc[p].told /\ Wrote(p) /\ n.aged = {}
  BY <1>2, <1>4, Before DEF At, RestoreFits, LocalFits, Storing
<1>6. QED
  BY <1>1, <1>3, <1>4, <1>5, WorksOn DEF Storing, Early

\* `store` ends without an entry, whatever it leaves of what it built.
LEMMA GivesUpKeeps ==
    ASSUME CacheInv, NEW p \in Processes, GivesUp(p), Discarded(p) \/ UNCHANGED cache,
           proc[p].pc \in Storing, UNCHANGED <<output, kept>>
    PROVE  CacheInv'
<1> DEFINE n == [proc[p] EXCEPT !.pc = "prune", !.todo = {}]
<1>1. proc' = [proc EXCEPT ![p] = n]
  BY DEF GivesUp
<1>2. proc[p] \in CacheProcess /\ LocalFits(p)
  BY Before
<1>3. n \in CacheProcess
  <2>1. {} \in SUBSET (Outputs \cup Paths)
    OBVIOUS
  <2>2. QED
    BY <1>2, <2>1 DEF CacheProcess, Steps
<1>4. /\ n.pc = "prune" /\ n.run = proc[p].run
      /\ n.told = proc[p].told /\ n.aged = proc[p].aged /\ n.doomed = proc[p].doomed
  BY <1>2 DEF CacheProcess
<1> HIDE DEF n
<1>5. RestoreFits(n) /\ ~Ended(p) /\ proc[p].told /\ Wrote(p) /\ n.aged = {}
  BY <1>2, <1>4, Before DEF At, RestoreFits, LocalFits, Storing
<1>6. CASE UNCHANGED cache
  BY <1>1, <1>3, <1>4, <1>5, <1>6, WorksOn DEF Storing, Early
<1>7. CASE /\ place' = [place EXCEPT ![p] = "gone"]
           /\ entry' = entry \ {p}
           /\ artifacts' = [artifacts EXCEPT ![p] = {}]
  <2>1. \A d \in Processes \ {p} : place'[d] = place[d]
    BY <1>7 DEF CacheInv, DiskOK
  <2>2. /\ place' \in [Processes -> {"none", "staging", "key", "aside", "gone"}]
        /\ place'[p] = "gone" /\ artifacts' \in [Processes -> SUBSET Outputs]
    BY <1>7 DEF CacheInv, DiskOK
  <2>3. DiskOK'
    BY <1>7, <2>1, <2>2 DEF CacheInv, DiskOK
  <2>4. LocalFits(p)'
    <3>1. proc'[p] = n
      BY <1>1 DEF CacheInv
    <3>2. QED
      BY <1>2, <1>4, <1>5, <3>1 DEF LocalFits, At, Storing, Early
  <2>5. QED
    BY <1>1, <1>3, <1>4, <1>5, <1>7, <2>1, <2>3, <2>4, Works
<1>8. QED
  BY <1>6, <1>7 DEF Discarded

LEMMA BuildFailsKeeps == ASSUME CacheInv, NEW p \in Processes, BuildFails(p) PROVE CacheInv'
BY GivesUpKeeps DEF BuildFails, At, Storing

LEMMA KeepTheirsKeeps == ASSUME CacheInv, NEW p \in Processes, KeepTheirs(p) PROVE CacheInv'
BY GivesUpKeeps DEF KeepTheirs, At, Storing

LEMMA DiscardKeeps == ASSUME CacheInv, NEW p \in Processes, Discard(p) PROVE CacheInv'
BY GivesUpKeeps DEF Discard, At, Storing

LEMMA DistrustKeeps == ASSUME CacheInv, NEW p \in Processes, Distrust(p) PROVE CacheInv'
BY GoesOn DEF Distrust, At, Storing

LEMMA PlaceKeeps == ASSUME CacheInv, NEW p \in Processes, Place(p) PROVE CacheInv'
<1>1. proc[p].pc \in {"place", "retry"} /\ UNCHANGED <<entry, artifacts, output, kept>>
  BY DEF Place
<1>2. CASE GivesUp(p) /\ UNCHANGED place
  BY <1>1, <1>2, GivesUpKeeps DEF cache, Storing
<1>3. CASE Goes(p, "taken") /\ UNCHANGED place
  BY <1>1, <1>3, GoesOn DEF cache, Storing
<1>4. CASE /\ place[p] = "staging"
           /\ \A d \in AtKey : Hollow(d)
           /\ place' = [d \in Processes |-> IF d = p THEN "key"
                                            ELSE IF d \in AtKey THEN "gone" ELSE place[d]]
           /\ proc' = [proc EXCEPT ![p].pc = "stored"]
  <2> DEFINE n == [proc[p] EXCEPT !.pc = "stored"]
  <2>1. proc[p] \in CacheProcess /\ LocalFits(p) /\ proc' = [proc EXCEPT ![p] = n]
    BY <1>4, Before
  <2>2. n \in CacheProcess
    BY <2>1 DEF CacheProcess, Steps
  <2>3. /\ n.pc = "stored" /\ n.run = proc[p].run
        /\ n.told = proc[p].told /\ n.aged = proc[p].aged /\ n.doomed = proc[p].doomed
    BY <2>1 DEF CacheProcess
  <2> HIDE DEF n
  <2>4. RestoreFits(n) /\ ~Ended(p) /\ proc[p].told /\ Wrote(p) /\ n.aged = {}
    BY <1>1, <2>1, <2>3, Before DEF At, RestoreFits, LocalFits, Storing
  <2>5. AtKey = {d \in Processes : place[d] = "key"}
    BY KeyIsAPath DEF CacheInv, DiskOK
  <2>6. /\ place' \in [Processes -> {"none", "staging", "key", "aside", "gone"}]
        /\ place'[p] = "key"
        /\ \A d \in Processes \ {p} : \/ place[d] = "key" /\ place'[d] = "gone" /\ d \notin entry
                                      \/ place[d] # "key" /\ place'[d] = place[d]
    BY <1>4, <2>5 DEF CacheInv, DiskOK, Hollow
  <2>7. DiskOK'
    BY <1>1, <2>6 DEF CacheInv, DiskOK
  <2>8. LocalFits(p)'
    <3>1. proc'[p] = n
      BY <2>1 DEF CacheInv
    <3>2. QED
      BY <1>1, <2>1, <2>3, <2>4, <3>1 DEF LocalFits, At, Storing, Early
  <2>9. QED
    BY <1>1, <2>1, <2>2, <2>3, <2>4, <2>6, <2>7, <2>8, Works
<1>5. QED
  BY <1>2, <1>3, <1>4 DEF Place

LEMMA MoveAsideKeeps == ASSUME CacheInv, NEW p \in Processes, MoveAside(p) PROVE CacheInv'
<1>1. At(p, "aside") /\ UNCHANGED <<entry, artifacts, output, kept>>
  BY DEF MoveAside
<1>2. CASE Goes(p, "retry") /\ UNCHANGED place
  BY <1>1, <1>2, GoesOn DEF cache, Storing, At
<1>3. CASE \E d \in AtKey :
            /\ place' = [place EXCEPT ![d] = "aside"]
            /\ proc' = [proc EXCEPT ![p].pc = "removing", ![p].victim = d,
                                    ![p].path = <<"aside", d>>, ![p].back = "retry"]
  <2>1. PICK d \in AtKey :
            /\ place' = [place EXCEPT ![d] = "aside"]
            /\ proc' = [proc EXCEPT ![p].pc = "removing", ![p].victim = d,
                                    ![p].path = <<"aside", d>>, ![p].back = "retry"]
    BY <1>3
  <2>2. d \in Processes /\ place[d] = "key" /\ <<"aside", d>> \in Paths
    BY KeyIsAPath DEF CacheInv, DiskOK
  <2> DEFINE n == [proc[p] EXCEPT !.pc = "removing", !.victim = d,
                                  !.path = <<"aside", d>>, !.back = "retry"]
  <2>3. proc[p] \in CacheProcess /\ LocalFits(p) /\ proc' = [proc EXCEPT ![p] = n]
    BY <2>1, Before
  <2>4. n \in CacheProcess
    BY <2>2, <2>3 DEF CacheProcess, Steps
  <2>5. /\ n.pc = "removing" /\ n.run = proc[p].run /\ n.victim = d /\ n.back = "retry"
        /\ n.told = proc[p].told /\ n.aged = proc[p].aged /\ n.doomed = proc[p].doomed
    BY <2>3 DEF CacheProcess
  <2> HIDE DEF n
  <2>6. RestoreFits(n) /\ ~Ended(p) /\ proc[p].told /\ Wrote(p) /\ n.aged = {}
    BY <1>1, <2>3, <2>5, Before DEF At, RestoreFits, LocalFits, Storing
  <2>7. /\ place' \in [Processes -> {"none", "staging", "key", "aside", "gone"}]
        /\ place'[d] = "aside" /\ \A e \in Processes \ {d} : place'[e] = place[e]
    BY <2>1, <2>2 DEF CacheInv, DiskOK
  <2>8. DiskOK'
    BY <1>1, <2>2, <2>7 DEF CacheInv, DiskOK
  <2>9. LocalFits(p)'
    <3>1. proc'[p] = n
      BY <2>3 DEF CacheInv
    <3>2. QED
      BY <1>1, <2>2, <2>3, <2>5, <2>6, <3>1 DEF LocalFits, At, Storing, Early
  <2>10. QED
    BY <1>1, <2>2, <2>3, <2>4, <2>5, <2>6, <2>7, <2>8, <2>9, Works
<1>4. QED
  BY <1>2, <1>3 DEF MoveAside

-----------------------------------------------------------------------------
\* Receipts stay in the order in which they were written.
LEMMA WrittenIsLast ==
    ASSUME ReceiptsOK, NEW x \in AnyRun, x \notin receipts, Written(x), fresh' \subseteq Processes
    PROVE  ReceiptsOK'
<1>1. receipts' = receipts \cup {x} /\ older' = older \cup receipts \X {x}
  BY DEF Written
<1>2. older' \subseteq receipts' \X receipts'
  BY <1>1 DEF ReceiptsOK
<1>3. \A r, s : <<r, s>> \in older' <=> <<r, s>> \in older \/ (r \in receipts /\ s = x)
  BY <1>1
<1>4. \A r, s : <<r, s>> \in older => r \in receipts /\ s \in receipts
  BY DEF ReceiptsOK
<1>5. \A r, s \in receipts' : r = s \/ <<r, s>> \in older' \/ <<s, r>> \in older'
  BY <1>1, <1>3 DEF ReceiptsOK
<1>6. \A r, s, t \in receipts' :
         /\ <<r, r>> \notin older'
         /\ <<r, s>> \in older' /\ <<s, t>> \in older' => <<r, t>> \in older'
  <2>1. \A r, s, t : <<r, s>> \in older /\ <<s, t>> \in older => <<r, t>> \in older
    BY <1>4 DEF ReceiptsOK
  <2>2. \A r : <<r, r>> \notin older'
    BY <1>3, <1>4 DEF ReceiptsOK
  <2>3. QED
    BY <1>3, <1>4, <2>1, <2>2
<1>7. QED
  BY <1>1, <1>2, <1>5, <1>6 DEF ReceiptsOK

LEMMA UnlinkedIsGone ==
    ASSUME ReceiptsOK, NEW x, receipts' = receipts \ {x},
           older' = {o \in older : x \notin {o[1], o[2]}}, fresh' = fresh
    PROVE  ReceiptsOK'
<1>1. \A r, s : <<r, s>> \in older' <=> <<r, s>> \in older /\ r # x /\ s # x
  OBVIOUS
<1>2. older' \subseteq receipts' \X receipts'
  BY DEF ReceiptsOK
<1>3. \A r, s \in receipts' : r = s \/ <<r, s>> \in older' \/ <<s, r>> \in older'
  BY <1>1 DEF ReceiptsOK
<1>4. \A r, s, t \in receipts' :
         /\ <<r, r>> \notin older'
         /\ <<r, s>> \in older' /\ <<s, t>> \in older' => <<r, t>> \in older'
  <2>1. \A r, s : <<r, s>> \in older => r \in receipts /\ s \in receipts
    BY DEF ReceiptsOK
  <2>2. \A r, s, t : <<r, s>> \in older /\ <<s, t>> \in older => <<r, t>> \in older
    BY <2>1 DEF ReceiptsOK
  <2>3. \A r : <<r, r>> \notin older
    BY <2>1 DEF ReceiptsOK
  <2>4. QED
    BY <1>1, <2>2, <2>3
<1>5. QED
  BY <1>2, <1>3, <1>4 DEF ReceiptsOK

\* A process moves and the directories stay: the part of the invariant that is
\* not about receipts.
LEMMA LocalStays ==
    ASSUME CacheInv, NEW p \in Processes, NEW n \in CacheProcess,
           proc' = [proc EXCEPT ![p] = n], UNCHANGED <<cache, output>>,
           n.run = proc[p].run, n.told = proc[p].told,
           n.pc \in {"done", "dead", "conclude", "references", "unlink"},
           n.pc = "conclude" => ~n.told,
           n.aged # {} => n.pc = "references"
    PROVE  /\ DiskOK' /\ proc' \in [Processes -> CacheProcess] /\ proc'[p] = n
           /\ \A q \in Processes \ {p} : proc'[q] = proc[q]
           /\ \A q \in Processes : LocalFits(q)' /\ RestoreFits(proc[q])'
<1>1. DiskOK'
  BY DEF CacheInv, DiskOK, cache
<1>2. /\ proc' \in [Processes -> CacheProcess] /\ proc'[p] = n
      /\ \A q \in Processes \ {p} : proc'[q] = proc[q]
  BY DEF CacheInv
<1>3. \A q \in Processes \ {p} : LocalFits(q)' /\ RestoreFits(proc[q])'
  BY OthersFit DEF cache
<1>4. LocalFits(p)
  BY Before
<1>5. LocalFits(p)'
  BY <1>2, <1>4 DEF LocalFits, At, Storing, Early, cache
<1>6. RestoreFits(proc[p])'
  BY <1>2 DEF RestoreFits
<1>7. QED
  BY <1>1, <1>2, <1>3, <1>5, <1>6

LEMMA WriteReceiptKeeps ==
    ASSUME CacheInv, NEW p \in Processes, WriteReceipt(p) PROVE CacheInv'
<1> DEFINE n == [proc[p] EXCEPT !.pc = "conclude"]
           r == proc[p].run
<1>1. /\ At(p, "receipt") /\ proc' = [proc EXCEPT ![p] = n] /\ UNCHANGED <<cache, output>>
      /\ \/ r \in receipts /\ UNCHANGED kept
         \/ r \notin receipts /\ Written(r) /\ fresh' = fresh \cup {r}
  BY DEF WriteReceipt, Goes, Receipt
<1>2. proc[p] \in CacheProcess /\ LocalFits(p)
  BY Before
<1>3. n \in CacheProcess
  BY <1>2 DEF CacheProcess, Steps
<1>4. /\ n.pc = "conclude" /\ n.run = r /\ r \in Processes
      /\ n.told = proc[p].told /\ n.aged = proc[p].aged /\ n.doomed = proc[p].doomed
      /\ n.todo = proc[p].todo /\ n.cited = proc[p].cited
  BY <1>2 DEF CacheProcess
<1> HIDE DEF n, r
<1>5. ~proc[p].told /\ ~Ended(p) /\ ~Wrote(p) /\ proc[p].aged = {}
  BY <1>1, <1>2, Before DEF LocalFits, At, Early
<1>6. /\ DiskOK' /\ proc' \in [Processes -> CacheProcess] /\ proc'[p] = n
      /\ \A q \in Processes \ {p} : proc'[q] = proc[q]
      /\ \A q \in Processes : LocalFits(q)' /\ RestoreFits(proc[q])'
  BY <1>1, <1>3, <1>4, <1>5, LocalStays DEF r
<1>7. ReceiptsOK' /\ receipts' = receipts \cup {r} /\ fresh \subseteq fresh'
      /\ (r \notin receipts => r \in fresh')
  <2>1. CASE r \in receipts /\ UNCHANGED kept
    BY <2>1 DEF CacheInv, ReceiptsOK, kept
  <2>2. CASE r \notin receipts /\ Written(r) /\ fresh' = fresh \cup {r}
    <3>1. ReceiptsOK /\ r \in AnyRun /\ fresh' \subseteq Processes
      BY <1>4, <2>2 DEF CacheInv, ReceiptsOK, AnyRun
    <3>2. QED
      BY <2>2, <3>1, WrittenIsLast DEF Written
  <2>3. QED
    BY <1>1, <2>1, <2>2
<1>8. /\ Wrote(p)' /\ \A q \in Processes : proc'[q].run = proc[q].run /\ (Ended(q)' <=> Ended(q))
      /\ \A q \in Processes \ {p} : Wrote(q)' <=> Wrote(q)
      /\ \A q \in Processes : /\ proc'[q].aged = proc[q].aged /\ proc'[q].doomed = proc[q].doomed
                              /\ \A d : Threatens(q, d)' <=> Threatens(q, d)
  BY <1>4, <1>5, <1>6 DEF Wrote, Ended, At, Threatens, r
<1>9. \A d \in Processes : Lasting(d)' <=> Lasting(d)
  BY <1>1, <1>8 DEF Lasting, cache
<1>10. AgesFit
  BY DEF CacheInv
<1>11. p \notin receipts /\ (r # p => Ended(r))
  BY <1>4, <1>5, <1>10 DEF AgesFit, r
<1>12. AgesFit'
  <2>1. \A d \in Processes :
          proc'[d].run = d /\ Wrote(d)' /\ ~Ended(d)' => d \in receipts' /\ d \in fresh'
    BY <1>7, <1>8, <1>10, <1>11 DEF AgesFit, r
  <2>2. \A d \in Processes : d \in receipts' => Ended(d)' \/ (proc'[d].run = d /\ Wrote(d)')
    BY <1>7, <1>8, <1>10, <1>11 DEF AgesFit, r
  <2>3. QED
    BY <1>7, <1>8, <1>9, <1>10, <2>1, <2>2 DEF AgesFit
<1>13. QED
  BY <1>6, <1>7, <1>12 DEF CacheInv

\* A process ends, by itself or killed: its receipt may be old from now on.
LEMMA LeavesKeeps ==
    ASSUME CacheInv, NEW p \in Processes, NEW pc \in {"done", "dead"}, ~Ended(p), Leaves(p, pc),
           fresh' = fresh \ {proc[p].run}, UNCHANGED <<cache, output, receipts, older>>
    PROVE  CacheInv'
<1> DEFINE told == proc[p].told
           n == [New(p) EXCEPT !.pc = pc, !.run = proc[p].run, !.told = told,
                               !.ran = proc[p].ran /\ ~told, !.stores = proc[p].stores /\ ~told]
<1>1. proc' = [proc EXCEPT ![p] = n]
  BY DEF Leaves
<1>2. proc[p] \in CacheProcess /\ LocalFits(p) /\ AgesFit
  BY Before DEF CacheInv
<1>3. PICK ran \in BOOLEAN, stores \in BOOLEAN :
        n = [New(p) EXCEPT !.pc = pc, !.run = proc[p].run, !.told = told,
                           !.ran = ran, !.stores = stores]
  OBVIOUS
<1>4. New(p) \in CacheProcess /\ New(p).aged = {} /\ New(p).doomed = {}
  BY NewIsProcess
<1> HIDE DEF n
<1>5. /\ n \in CacheProcess /\ n.pc = pc /\ n.run = proc[p].run /\ n.told = proc[p].told
      /\ n.aged = {} /\ n.doomed = {}
  <2>1. pc \in Steps
    BY DEF Steps
  <2>2. proc[p].run \in Processes /\ told \in BOOLEAN
    BY <1>2 DEF CacheProcess
  <2> HIDE DEF told
  <2>3. n \in CacheProcess
    BY <1>3, <1>4, <2>1, <2>2 DEF CacheProcess
  <2>4. n.pc = pc /\ n.run = proc[p].run /\ n.told = told /\ n.aged = {} /\ n.doomed = {}
    BY <1>3, <1>4 DEF CacheProcess
  <2>5. QED
    BY <2>3, <2>4 DEF told
<1> HIDE DEF told
<1>6. /\ DiskOK' /\ proc' \in [Processes -> CacheProcess] /\ proc'[p] = n
      /\ \A q \in Processes \ {p} : proc'[q] = proc[q]
      /\ \A q \in Processes : LocalFits(q)' /\ RestoreFits(proc[q])'
  BY <1>1, <1>5, LocalStays
<1>7. ReceiptsOK'
  BY DEF CacheInv, ReceiptsOK
<1>8. /\ Ended(p)' /\ \A q \in Processes : proc'[q].run = proc[q].run
      /\ \A q \in Processes \ {p} : (Ended(q)' <=> Ended(q)) /\ (Wrote(q)' <=> Wrote(q))
      /\ \A q \in Processes : /\ proc'[q].aged \subseteq proc[q].aged
                              /\ proc'[q].doomed \subseteq proc[q].doomed
                              /\ \A d : Threatens(q, d)' => Threatens(q, d)
  BY <1>5, <1>6 DEF Wrote, Ended, At, Threatens
<1>9. \A d \in Processes : Lasting(d)' => Lasting(d) \/ (d = p /\ proc[p].run = p /\ Wrote(p))
  BY <1>2, <1>8 DEF Lasting, cache, LocalFits, Wrote
<1>10. AgesFit'
  <2>1. \A d \in Processes :
          proc'[d].run = d /\ Wrote(d)' /\ ~Ended(d)' => d \in receipts' /\ d \in fresh'
    BY <1>2, <1>8 DEF AgesFit
  <2>2. \A d \in Processes : Lasting(d)' => d \in receipts' /\ \A q \in Processes : ~Threatens(q, d)'
    <3>1. \A q, d \in Processes : Threatens(q, d) => Ended(d)
      BY <1>2 DEF AgesFit, Threatens
    <3>2. QED
      BY <1>2, <1>8, <1>9, <3>1 DEF AgesFit
  <2>3. QED
    BY <1>2, <1>8, <2>1, <2>2 DEF AgesFit
<1>11. QED
  BY <1>6, <1>7, <1>10 DEF CacheInv

LEMMA CrashKeeps == ASSUME CacheInv, NEW p \in Processes, Crash(p) PROVE CacheInv'
BY LeavesKeeps DEF Crash, Live, Ended

-----------------------------------------------------------------------------
\* Pruning receipts: what is doomed was old, and not cited where it was read.
LEMMA ScanReferencesKeeps ==
    ASSUME CacheInv, NEW p \in Processes, ScanReferences(p) PROVE CacheInv'
<1> DEFINE paths == {PathOf(d) : d \in Present}
           n == [proc[p] EXCEPT !.pc = "references", !.total = 0,
                                !.aged = receipts \ fresh, !.todo = paths]
<1>1. /\ proc[p].pc \in {"prune", "evicting"} /\ proc' = [proc EXCEPT ![p] = n]
      /\ UNCHANGED <<cache, output, kept>>
  BY DEF ScanReferences, EvictEnds, At
<1>2. proc[p] \in CacheProcess /\ LocalFits(p) /\ AgesFit
  BY Before DEF CacheInv
<1>3. paths \in SUBSET (Outputs \cup Paths) /\ receipts \ fresh \in SUBSET AnyRun
  BY KeyIsAPath DEF CacheInv, DiskOK, ReceiptsOK
<1>4. \A d \in Processes : place[d] = "key" => KeyPath \in paths
  BY DEF Present, PathOf
<1> HIDE DEF paths
<1>5. n \in CacheProcess
  <2>1. PICK old \in SUBSET AnyRun : old = receipts \ fresh
    BY <1>3
  <2>2. n = [proc[p] EXCEPT !.pc = "references", !.total = 0, !.aged = old, !.todo = paths]
    BY <2>1
  <2> HIDE DEF n
  <2>3. 0 \in Int
    OBVIOUS
  <2>4. QED
    BY <1>2, <1>3, <2>2, <2>3 DEF CacheProcess, Steps
<1>6. /\ n.pc = "references" /\ n.run = proc[p].run /\ n.told = proc[p].told
      /\ n.aged = receipts \ fresh /\ n.doomed = proc[p].doomed /\ n.todo = paths
  BY <1>2 DEF CacheProcess
<1> HIDE DEF n
<1>7. /\ DiskOK' /\ proc' \in [Processes -> CacheProcess] /\ proc'[p] = n
      /\ \A q \in Processes \ {p} : proc'[q] = proc[q]
      /\ \A q \in Processes : LocalFits(q)' /\ RestoreFits(proc[q])'
  BY <1>1, <1>5, <1>6, LocalStays
<1>8. ReceiptsOK'
  BY <1>1 DEF CacheInv, ReceiptsOK, kept
<1>9. /\ \A q \in Processes : /\ proc'[q].run = proc[q].run
                              /\ (Ended(q)' <=> Ended(q)) /\ (Wrote(q)' <=> Wrote(q))
                              /\ proc'[q].doomed = proc[q].doomed
      /\ \A q \in Processes \ {p} : /\ proc'[q].aged = proc[q].aged
                                    /\ \A d : Threatens(q, d)' <=> Threatens(q, d)
  BY <1>1, <1>6, <1>7 DEF Wrote, Ended, At, Threatens
<1>10. \A d \in Processes : Lasting(d)' => Lasting(d) /\ KeyPath \in paths
  BY <1>1, <1>4, <1>9 DEF Lasting, cache
<1>11. \A d \in Processes : KeyPath \in paths /\ Threatens(p, d)' => d \in proc[p].doomed
  BY <1>6, <1>7 DEF Threatens
<1>12. AgesFit'
  <2>1. \A d \in Processes : d \in receipts \ fresh => Ended(d)
    BY <1>2 DEF AgesFit
  <2>2. \A q, d \in Processes : d \in proc'[q].aged \cup proc'[q].doomed => Ended(d)'
    BY <1>2, <1>6, <1>7, <1>9, <2>1 DEF AgesFit
  <2>3. \A d \in Processes : Lasting(d)' => d \in receipts' /\ \A q \in Processes : ~Threatens(q, d)'
    BY <1>1, <1>2, <1>9, <1>10, <1>11 DEF AgesFit, Threatens, kept
  <2>4. UNCHANGED kept
    BY <1>1
  <2>5. QED
    BY <1>2, <1>9, <2>2, <2>3, <2>4 DEF AgesFit, kept
<1>13. QED
  BY <1>7, <1>8, <1>12 DEF CacheInv

LEMMA ReadReferenceKeeps ==
    ASSUME CacheInv, NEW p \in Processes, ReadReference(p) PROVE CacheInv'
<1>1. At(p, "references") /\ UNCHANGED <<cache, output, kept>>
  BY DEF ReadReference
<1>2. PICK path \in proc[p].todo :
         proc' = [proc EXCEPT ![p].todo = @ \ {path},
                    ![p].cited = @ \cup {RunOf(d) : d \in AtPath(path) \cap entry}]
  BY DEF ReadReference
<1> DEFINE runs == {RunOf(d) : d \in AtPath(path) \cap entry}
           n == [proc[p] EXCEPT !.todo = @ \ {path}, !.cited = @ \cup runs]
<1>3. proc' = [proc EXCEPT ![p] = n]
  BY <1>2
<1>4. proc[p] \in CacheProcess /\ LocalFits(p) /\ AgesFit
  BY Before DEF CacheInv
<1>5. runs \in SUBSET AnyRun
  BY DEF CacheInv, AtPath, Present, RunOf, CacheProcess, AnyRun
<1>6. \A d \in Processes : Lasting(d) /\ path = KeyPath => d \in runs
  BY DEF Lasting, AtPath, Present, PathOf, RunOf
<1> HIDE DEF runs
<1>7. n \in CacheProcess
  BY <1>4, <1>5 DEF CacheProcess
<1>8. /\ n.pc = proc[p].pc /\ n.run = proc[p].run /\ n.told = proc[p].told
      /\ n.aged = proc[p].aged /\ n.doomed = proc[p].doomed
      /\ n.todo = proc[p].todo \ {path} /\ n.cited = proc[p].cited \cup runs
  BY <1>4 DEF CacheProcess
<1> HIDE DEF n
<1>9. /\ DiskOK' /\ proc' \in [Processes -> CacheProcess] /\ proc'[p] = n
      /\ \A q \in Processes \ {p} : proc'[q] = proc[q]
      /\ \A q \in Processes : LocalFits(q)' /\ RestoreFits(proc[q])'
  BY <1>1, <1>3, <1>7, <1>8, LocalStays DEF At
<1>10. ReceiptsOK'
  BY <1>1 DEF CacheInv, ReceiptsOK, kept
<1>11. \A q \in Processes : /\ proc'[q].run = proc[q].run
                            /\ (Ended(q)' <=> Ended(q)) /\ (Wrote(q)' <=> Wrote(q))
                            /\ proc'[q].doomed = proc[q].doomed /\ proc'[q].aged = proc[q].aged
  BY <1>8, <1>9 DEF Wrote, Ended, At
<1>12. \A d \in Processes : Lasting(d)' => Lasting(d)
  BY <1>1, <1>11 DEF Lasting, cache
<1>13. \A q, d \in Processes : Lasting(d) /\ Threatens(q, d)' => Threatens(q, d)
  BY <1>6, <1>8, <1>9 DEF Threatens
<1>14. AgesFit'
  BY <1>1, <1>4, <1>11, <1>12, <1>13 DEF AgesFit, kept
<1>15. QED
  BY <1>9, <1>10, <1>14 DEF CacheInv

\* After the first pruning on to what the run has left, after the second out.
LEMMA PrunedKeeps ==
    ASSUME CacheInv, NEW p \in Processes, Pruned(p), proc[p].pc \in {"references", "unlink"},
           UNCHANGED <<cache, output, receipts, older>>
    PROVE  CacheInv'
<1>1. CASE proc[p].told
  BY <1>1, LeavesKeeps DEF Pruned, Ended
<1>2. CASE ~proc[p].told
  <2> DEFINE next == IF proc[p].ran THEN "receipt" ELSE "lookup"
             n == [proc[p] EXCEPT !.pc = next, !.aged = {}, !.cited = {}]
  <2>1. proc' = [proc EXCEPT ![p] = n] /\ UNCHANGED <<cache, output, kept>>
    BY <1>2 DEF Pruned, kept
  <2>2. proc[p] \in CacheProcess /\ next \in {"receipt", "lookup"}
    BY Before
  <2> HIDE DEF next
  <2>3. n \in CacheProcess
    BY <2>2 DEF CacheProcess, Steps
  <2>4. /\ n.pc = next /\ n.run = proc[p].run /\ n.told = proc[p].told
        /\ n.aged = {} /\ n.doomed = proc[p].doomed
    BY <2>2 DEF CacheProcess
  <2> HIDE DEF n
  <2>5. RestoreFits(n) /\ ~Ended(p) /\ ~Wrote(p)
    BY <1>2, <2>2, <2>4, Before DEF At, RestoreFits
  <2>6. QED
    BY <1>2, <2>1, <2>2, <2>3, <2>4, <2>5, WorksOn DEF Storing, Early
<1>3. QED
  BY <1>1, <1>2

LEMMA ListReceiptsKeeps ==
    ASSUME CacheInv, NEW p \in Processes, ListReceipts(p) PROVE CacheInv'
<1>1. At(p, "references") /\ proc[p].todo = {} /\ Dooms(p, proc[p].aged)
  BY DEF ListReceipts
<1>2. UNCHANGED <<cache, output, receipts, older>>
  BY <1>1 DEF Dooms
<1>3. PICK gone \in SUBSET ((proc[p].aged \cap receipts) \ proc[p].cited) :
        IF gone = {} THEN Pruned(p)
        ELSE /\ proc' = [proc EXCEPT ![p].pc = "unlink", ![p].aged = {}, ![p].cited = {},
                                     ![p].doomed = gone]
             /\ UNCHANGED fresh
  BY <1>1 DEF Dooms, Oldest
<1>4. CASE gone = {}
  BY <1>1, <1>2, <1>3, <1>4, PrunedKeeps DEF At
<1>5. CASE gone # {}
  <2> DEFINE n == [proc[p] EXCEPT !.pc = "unlink", !.aged = {}, !.cited = {}, !.doomed = gone]
  <2>1. proc' = [proc EXCEPT ![p] = n] /\ UNCHANGED kept
    BY <1>2, <1>3, <1>5 DEF kept
  <2>2. proc[p] \in CacheProcess /\ LocalFits(p) /\ AgesFit
    BY Before DEF CacheInv
  <2>3. n \in CacheProcess
    <3>1. gone \in SUBSET AnyRun
      BY <2>2 DEF CacheProcess
    <3>2. QED
      BY <2>2, <3>1 DEF CacheProcess, Steps
  <2>4. /\ n.pc = "unlink" /\ n.run = proc[p].run /\ n.told = proc[p].told
        /\ n.aged = {} /\ n.doomed = gone
    BY <2>2 DEF CacheProcess
  <2> HIDE DEF n
  <2>5. /\ DiskOK' /\ proc' \in [Processes -> CacheProcess] /\ proc'[p] = n
        /\ \A q \in Processes \ {p} : proc'[q] = proc[q]
        /\ \A q \in Processes : LocalFits(q)' /\ RestoreFits(proc[q])'
    BY <1>2, <2>1, <2>3, <2>4, LocalStays
  <2>6. ReceiptsOK'
    BY <2>1 DEF CacheInv, ReceiptsOK, kept
  <2>7. \A q \in Processes : /\ proc'[q].run = proc[q].run
                             /\ (Ended(q)' <=> Ended(q)) /\ (Wrote(q)' <=> Wrote(q))
                             /\ proc'[q].aged \subseteq proc[q].aged
    BY <1>1, <2>4, <2>5 DEF Wrote, Ended, At
  <2>8. \A d \in Processes : Lasting(d)' => Lasting(d)
    BY <1>2, <2>7 DEF Lasting, cache
  <2>9. \A q, d : Threatens(q, d)' /\ q \in Processes => Threatens(q, d)
    BY <1>1, <2>4, <2>5 DEF Threatens
  <2>10. \A d : d \in gone => d \in proc[p].aged
    OBVIOUS
  <2>11. \A q, d \in Processes : d \in proc'[q].aged \cup proc'[q].doomed => Ended(d)'
    BY <2>2, <2>4, <2>5, <2>7, <2>10 DEF AgesFit
  <2>12. AgesFit'
    BY <2>1, <2>2, <2>7, <2>8, <2>9, <2>11 DEF AgesFit, kept
  <2>13. QED
    BY <2>5, <2>6, <2>12 DEF CacheInv
<1>6. QED
  BY <1>4, <1>5

LEMMA UnlinkKeeps == ASSUME CacheInv, NEW p \in Processes, Unlink(p) PROVE CacheInv'
<1>1. At(p, "unlink") /\ UNCHANGED <<cache, output, fresh>>
  BY DEF Unlink
<1>2. PICK r \in proc[p].doomed :
         /\ receipts' = receipts \ {r}
         /\ older' = {o \in older : r \notin {o[1], o[2]}}
         /\ proc' = [proc EXCEPT ![p].doomed = @ \ {r}]
  BY DEF Unlink
<1> DEFINE n == [proc[p] EXCEPT !.doomed = @ \ {r}]
<1>3. proc[p] \in CacheProcess /\ LocalFits(p) /\ AgesFit /\ proc' = [proc EXCEPT ![p] = n]
  BY <1>2, Before DEF CacheInv
<1>4. n \in CacheProcess
  BY <1>3 DEF CacheProcess
<1>5. /\ n.pc = proc[p].pc /\ n.run = proc[p].run /\ n.told = proc[p].told
      /\ n.aged = proc[p].aged /\ n.doomed \subseteq proc[p].doomed
      /\ n.todo = proc[p].todo /\ n.cited = proc[p].cited
  BY <1>3 DEF CacheProcess
<1> HIDE DEF n
<1>6. /\ DiskOK' /\ proc' \in [Processes -> CacheProcess] /\ proc'[p] = n
      /\ \A q \in Processes \ {p} : proc'[q] = proc[q]
      /\ \A q \in Processes : LocalFits(q)' /\ RestoreFits(proc[q])'
  <2>1. n.aged = {}
    BY <1>1, <1>3, <1>5 DEF LocalFits, At
  <2>2. QED
    BY <1>1, <1>3, <1>4, <1>5, <2>1, LocalStays DEF At
<1>7. ReceiptsOK'
  BY <1>1, <1>2, UnlinkedIsGone DEF CacheInv
<1>8. \A q \in Processes : /\ proc'[q].run = proc[q].run
                           /\ (Ended(q)' <=> Ended(q)) /\ (Wrote(q)' <=> Wrote(q))
                           /\ proc'[q].doomed \subseteq proc[q].doomed
                           /\ proc'[q].aged = proc[q].aged
                           /\ \A d : Threatens(q, d)' => Threatens(q, d)
  BY <1>5, <1>6 DEF Wrote, Ended, At, Threatens
<1>9. \A d \in Processes : Lasting(d)' => Lasting(d)
  BY <1>1, <1>8 DEF Lasting, cache
<1>10. \A d \in Processes : ~Ended(d) \/ Lasting(d) => d # r
  BY <1>3 DEF AgesFit, Threatens
<1>11. AgesFit'
  <2>1. \A d \in Processes :
          proc'[d].run = d /\ Wrote(d)' /\ ~Ended(d)' => d \in receipts' /\ d \in fresh'
    BY <1>1, <1>2, <1>3, <1>8, <1>10 DEF AgesFit
  <2>2. \A d \in Processes : Lasting(d)' => d \in receipts' /\ \A q \in Processes : ~Threatens(q, d)'
    BY <1>2, <1>3, <1>8, <1>9, <1>10 DEF AgesFit
  <2>3. QED
    BY <1>2, <1>3, <1>8, <2>1, <2>2 DEF AgesFit
<1>12. QED
  BY <1>6, <1>7, <1>11 DEF CacheInv

LEMMA EndPruneKeeps == ASSUME CacheInv, NEW p \in Processes, EndPrune(p) PROVE CacheInv'
BY PrunedKeeps DEF EndPrune, At

-----------------------------------------------------------------------------
\* A run is taken over only from a process that is gone.
LEMMA ResumeKeeps ==
    ASSUME CacheInv, NEW p \in Processes, NEW q \in Processes, Resume(p, q) PROVE CacheInv'
<1> DEFINE n == [proc[p] EXCEPT !.pc = "resumed", !.run = proc[q].run,
                                !.ran = proc[q].ran, !.stores = proc[q].stores]
<1>1. /\ At(p, "new") /\ At(q, "dead") /\ \A s \in Processes \ {q} : proc[s].run # proc[q].run
      /\ proc' = [proc EXCEPT ![p] = n] /\ UNCHANGED <<cache, output, kept>>
  BY DEF Resume
<1>2. proc[p] \in CacheProcess /\ proc[q] \in CacheProcess /\ LocalFits(p) /\ AgesFit
  BY Before DEF CacheInv
<1>3. n \in CacheProcess
  BY <1>2 DEF CacheProcess, Steps
<1>4. /\ n.pc = "resumed" /\ n.run = proc[q].run /\ n.told = proc[p].told
      /\ n.aged = proc[p].aged /\ n.doomed = proc[p].doomed
  BY <1>2 DEF CacheProcess
<1> HIDE DEF n
<1>5. ~proc[p].told /\ proc[p].aged = {} /\ proc[p].doomed = {} /\ proc[p].run = p /\ place[p] = "none"
      /\ p \notin entry
  <2>1. proc[p] = New(p)
    BY <1>1, <1>2 DEF LocalFits
  <2>2. ~proc[p].told /\ proc[p].aged = {} /\ proc[p].doomed = {} /\ proc[p].run = p
    BY <2>1, NewIsProcess
  <2>3. QED
    BY <1>2, <2>2 DEF LocalFits
<1>6. /\ proc' \in [Processes -> CacheProcess] /\ proc'[p] = n
      /\ \A s \in Processes \ {p} : proc'[s] = proc[s]
  BY <1>1, <1>3 DEF CacheInv
<1>7. DiskOK' /\ ReceiptsOK'
  BY <1>1 DEF CacheInv, DiskOK, ReceiptsOK, cache, kept
<1>8. \A r : IsConcluded(r) => IsConcluded(r)'
  BY <1>5, <1>6 DEF IsConcluded
<1>9. ASSUME NEW s \in Processes PROVE LocalFits(s)' /\ RestoreFits(proc[s])'
  <2>1. LocalFits(s) /\ RestoreFits(proc[s])
    BY DEF CacheInv
  <2>2. CASE s = p
    BY <1>1, <1>4, <1>5, <1>6, <2>2 DEF LocalFits, RestoreFits, At, Storing, Early, cache
  <2>3. CASE s # p
    BY <1>1, <1>6, <1>8, <2>1, <2>3 DEF LocalFits, RestoreFits, At, New, cache
  <2>4. QED
    BY <2>2, <2>3
<1>10. /\ ~Ended(p) /\ ~Ended(p)' /\ ~Wrote(p) /\ ~Wrote(p)' /\ Ended(q)
       /\ \A s \in Processes \ {p} : /\ proc'[s].run = proc[s].run
                                     /\ (Ended(s)' <=> Ended(s)) /\ (Wrote(s)' <=> Wrote(s))
  BY <1>1, <1>4, <1>5, <1>6 DEF Ended, Wrote, At
<1>11. \A s \in Processes : /\ proc'[s].aged = proc[s].aged /\ proc'[s].doomed = proc[s].doomed
                            /\ \A d : Threatens(s, d)' => Threatens(s, d)
  BY <1>4, <1>5, <1>6 DEF Threatens
<1>12. \A d \in Processes : Lasting(d)' => Lasting(d)
  BY <1>1, <1>10 DEF Lasting, cache
<1>13. \A d \in Processes : proc[q].run = d => Ended(d)
  BY <1>10, <1>2 DEF AgesFit
<1>14. p \notin receipts
  BY <1>2, <1>10 DEF AgesFit
<1>15. AgesFit'
  <2>1. \A s, d \in Processes : s # d /\ proc'[s].run = d => Ended(d)'
    BY <1>2, <1>4, <1>6, <1>10, <1>13 DEF AgesFit
  <2>2. \A d \in Processes :
          proc'[d].run = d /\ Wrote(d)' /\ ~Ended(d)' => d \in receipts' /\ d \in fresh'
    BY <1>1, <1>2, <1>10 DEF AgesFit, kept
  <2>3. \A d \in Processes : d \in receipts' => Ended(d)' \/ (proc'[d].run = d /\ Wrote(d)')
    BY <1>1, <1>2, <1>10, <1>14 DEF AgesFit, kept
  <2>4. \A s, d \in Processes : d \in proc'[s].aged \cup proc'[s].doomed => Ended(d)'
    BY <1>2, <1>10, <1>11 DEF AgesFit
  <2>5. \A d \in Processes : Lasting(d)' => d \in receipts' /\ \A s \in Processes : ~Threatens(s, d)'
    BY <1>1, <1>2, <1>11, <1>12 DEF AgesFit, kept
  <2>6. QED
    BY <2>1, <2>2, <2>3, <2>4, <2>5 DEF AgesFit
<1>16. QED
  BY <1>6, <1>7, <1>9, <1>15 DEF CacheInv

LEMMA OtherRunKeeps == ASSUME CacheInv, NEW r \in OtherRuns, OtherRun(r) PROVE CacheInv'
<1>1. /\ r \notin receipts /\ Written(r) /\ receipts' = receipts \cup {r}
      /\ UNCHANGED <<cache, output, fresh, proc>>
  BY DEF OtherRun, Receipt, Written
<1>2. r \notin Processes /\ r \in AnyRun
  BY CacheAssumption DEF AnyRun
<1>3. ReceiptsOK'
  BY <1>1, <1>2, WrittenIsLast DEF CacheInv, ReceiptsOK
<1>4. DiskOK'
  BY <1>1 DEF CacheInv, DiskOK, cache
<1>5. ASSUME NEW q \in Processes PROVE LocalFits(q)' /\ RestoreFits(proc[q])'
  BY <1>1 DEF CacheInv, LocalFits, RestoreFits, IsConcluded, At, New, cache
<1>6. \A d \in Processes : Lasting(d)' => Lasting(d)
  BY <1>1 DEF Lasting, Ended, cache
<1>7. AgesFit'
  BY <1>1, <1>2, <1>6 DEF CacheInv, AgesFit, Ended, Wrote, At, Threatens
<1>8. QED
  BY <1>1, <1>3, <1>4, <1>5, <1>7 DEF CacheInv

LEMMA CacheNext == CacheInv /\ [Next]_vars => CacheInv'
<1> SUFFICES ASSUME CacheInv, [Next]_vars PROVE CacheInv'
  OBVIOUS
<1>1. ASSUME NEW p \in Processes, CacheStep(p) PROVE CacheInv'
  BY <1>1, EvictKeeps, RemoveFileKeeps, RemoveDirectoryKeeps, ReadEntryKeeps, HashArtifactKeeps,
     RestoreFileKeeps, ReuseKeeps, StageKeeps, CopyOutputKeeps, WriteEntryKeeps, BuildFailsKeeps,
     PlaceKeeps, KeepTheirsKeeps, DistrustKeeps, MoveAsideKeeps, DiscardKeeps,
     EvictForStoredKeeps DEF CacheStep
<1>2. ASSUME NEW p \in Processes, ReceiptStep(p) PROVE CacheInv'
  BY <1>2, ScanReferencesKeeps, ReadReferenceKeeps, ListReceiptsKeeps, UnlinkKeeps, EndPruneKeeps,
     WriteReceiptKeeps, ConcludeKeeps DEF ReceiptStep
<1>3. ASSUME NEW p \in Processes, \/ Begin(p) \/ Run(p) \/ Crash(p)
                                  \/ \E q \in Processes : Resume(p, q)
      PROVE CacheInv'
  BY <1>3, BeginKeeps, RunKeeps, CrashKeeps, ResumeKeeps
<1>4. ASSUME NEW r \in OtherRuns, OtherRun(r) PROVE CacheInv'
  BY <1>4, OtherRunKeeps
<1>5. CASE UNCHANGED vars
  <2>1. UNCHANGED <<place, entry, artifacts, output, receipts, older, fresh, proc>>
    BY <1>5 DEF vars
  <2>2. DiskOK' /\ ReceiptsOK'
    BY <2>1 DEF CacheInv, DiskOK, ReceiptsOK
  <2>3. ASSUME NEW q \in Processes PROVE LocalFits(q)' /\ RestoreFits(proc[q])'
    BY <2>1 DEF CacheInv, LocalFits, RestoreFits, IsConcluded, At, New
  <2>4. AgesFit'
    BY <2>1 DEF CacheInv, AgesFit, Ended, Wrote, At, Threatens, Lasting
  <2>5. QED
    BY <2>1, <2>2, <2>3, <2>4 DEF CacheInv
<1>6. QED
  BY <1>1, <1>2, <1>3, <1>4, <1>5 DEF Next

LEMMA CacheInvariant == Spec => []CacheInv
<1>1. Init => CacheInv
  BY CacheInit
<1>2. CacheInv /\ [Next]_vars => CacheInv'
  BY CacheNext
<1>3. QED
  BY <1>1, <1>2, PTL DEF Spec

-----------------------------------------------------------------------------
\* The directories, receipts and processes keep the shape the code gives them:
\* one directory at most has the key's name, however many processes rename
\* theirs to it or move it aside at once, and receipts are ordered by age.
THEOREM CacheTypeCorrect == Spec => []CacheTypeOK
<1>1. CacheInv => CacheTypeOK
  <2> SUFFICES ASSUME CacheInv PROVE CacheTypeOK
    OBVIOUS
  <2>1. DiskOK /\ ReceiptsOK
    BY DEF CacheInv
  <2>2. AtKey = {d \in Processes : place[d] = "key"}
    BY <2>1, KeyIsAPath DEF DiskOK
  <2>3. Cardinality(AtKey) <= 1
    <3>1. CASE AtKey = {}
      BY <3>1, FS_EmptySet
    <3>2. CASE AtKey # {}
      <4>1. PICK d : d \in AtKey
        BY <3>2
      <4>2. AtKey = {d}
        BY <2>1, <2>2, <4>1 DEF DiskOK
      <4>3. QED
        BY <4>2, FS_Singleton
    <3>3. QED
      BY <3>1, <3>2
  <2>4. entry \subseteq Present
    BY <2>1 DEF DiskOK, Present
  <2>5. \A p \in Processes :
           /\ proc[p].run \in Processes
           /\ proc[p].source \in Processes \cup {NoRun}
           /\ proc[p].got \in [Outputs -> Processes \cup {NoRun}]
    BY DEF CacheInv, CacheProcess
  <2>6. QED
    BY <2>1, <2>3, <2>4, <2>5 DEF CacheTypeOK, DiskOK, ReceiptsOK, AnyRun
<1>2. QED
  BY <1>1, CacheInvariant, PTL

\* A task that `execute` reports as cached got, for every output, the bytes of
\* the one concluded run whose receipt it cites, whatever other processes
\* stored, evicted or moved aside between inspecting and copying.
THEOREM RestoredBytesAreOneRuns == Spec => []RestoredIsOneRun
<1>1. CacheInv => RestoredIsOneRun
  BY DEF CacheInv, RestoreFits, RestoredIsOneRun, At
<1>2. QED
  BY <1>1, CacheInvariant, PTL

\* `prune_receipts` never takes the receipt that the entry under the key cites,
\* as long as the run that stored it was not resumed: what was old enough to go
\* when the references were read had its entry already, or never gets one.
THEOREM CitedReceiptsStay == Spec => []CitedIsOnDisk
<1>1. CacheInv => CitedIsOnDisk
  <2> SUFFICES ASSUME CacheInv, NEW d \in AtKey, d \in entry, proc[d].run = d
               PROVE  d \in receipts
    BY DEF CitedIsOnDisk, RunOf, Receipt
  <2>1. d \in Processes /\ place[d] = "key"
    BY KeyIsAPath DEF CacheInv, DiskOK
  <2>2. Wrote(d)
    BY <2>1 DEF CacheInv, LocalFits, Wrote
  <2>3. AgesFit
    BY DEF CacheInv
  <2>4. CASE Ended(d)
    BY <2>1, <2>3, <2>4 DEF AgesFit, Lasting
  <2>5. CASE ~Ended(d)
    BY <2>1, <2>2, <2>3, <2>5 DEF AgesFit
  <2>6. QED
    BY <2>4, <2>5
<1>2. QED
  BY <1>1, CacheInvariant, PTL

===============================================================================
