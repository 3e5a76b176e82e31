------------------------ MODULE WorktreeCache_proofs ------------------------
(***************************************************************************)
(* Proofs about WorktreeCache, for every set of processes, places and      *)
(* directories: it keeps the promise of LeasedDirectories, and spares the  *)
(* directory of a worktree that exists, as long as one run prunes at a     *)
(* time.                                                                   *)
(***************************************************************************)
EXTENDS WorktreeCache, FiniteSetTheorems, TLAPS

OnePruner == \A p, q \in Pruners : p = q

Naming == {"token", "publish", "reread"}
Making == {"there", "stage", "fill", "place", "open"}
Pruning == {"list", "look", "acquire", "alone", "again", "aside"}
Steps == {"idle", "lock", "check", "work", "end"} \cup Naming \cup Making \cup Pruning

CacheRun ==
    [pc : Steps, place : Places \cup {Away}, id : Ids \cup {NoId},
     staged : Dirs \cup {NoDir}, fd : Dirs \cup {NoDir}, mode : {"none", "shared"},
     tries : 0 .. 2, ids : SUBSET Ids, seen : Ids \cup {NoId},
     alone : Dirs \cup {NoDir}, locks : BOOLEAN, gone : BOOLEAN]

Worktrees ==
    [linked : BOOLEAN, at : Places \cup {Away}, locked : BOOLEAN, token : 0 .. MaxToken]

\* One directory at most stands under an id, and it is whole.
DirsOK ==
    /\ dir \in [Dirs -> [where : {"none", "staging", "placed", "aside"},
                         id : Ids \cup {NoId}, whole : BOOLEAN]]
    /\ \A d \in Dirs : dir[d].where = "placed" => dir[d].whole /\ dir[d].id \in Ids
    /\ \A d, e \in Dirs : /\ dir[d].where = "placed" /\ dir[e].where = "placed"
                          /\ dir[d].id = dir[e].id
                          => d = e

\* What a process at work knows is so: n is what it remembers.
Fits(p, n) ==
    /\ n.pc \in Naming => n.place \in Places
    /\ n.pc \in Making \cup {"lock", "check"} => n.id \in Ids
    /\ n.pc \in {"idle"} \cup Naming \cup Making => n.fd = NoDir /\ n.mode = "none"
    /\ n.pc = "lock" => n.mode = "none" /\ n.fd \in Dirs
    /\ n.pc = "check" \/ n.mode = "shared" => n.mode = "shared" /\ n.fd \in Dirs
    /\ IF n.pc \in {"fill", "place"}
       THEN /\ n.staged \in Dirs
            /\ dir[n.staged].where = "staging"
            /\ dir[n.staged].id = n.id
            /\ n.pc = "place" => dir[n.staged].whole
       ELSE n.staged = NoDir
    /\ n.pc \in Pruning => p \in Pruners
    /\ n.pc \in {"acquire", "alone", "again", "aside"} => n.seen \in Ids
    /\ n.locks <=> n.pc \in {"again", "aside"}
    /\ n.pc \in {"alone", "again", "aside"} =>
        /\ n.alone \in Dirs
        /\ OnePruner => dir[n.alone].where = "placed" /\ dir[n.alone].id = n.seen
    /\ n.locks /\ ~Alive(worktree, n.seen) => n.gone
    /\ n.pc = "aside" /\ OnePruner => n.gone

\* What m builds, and what m holds alone, nobody else has: n is a process and
\* t its tasks' directory.
Apart(m, n, t) ==
    /\ m.staged # NoDir => n.fd # m.staged /\ t # m.staged
    /\ m.locks => ~(n.mode = "shared" /\ n.fd = m.alone) /\ t # m.alone

LeaseInv ==
    /\ worktree \in Worktrees
    /\ made \in 0 .. MaxToken
    /\ DirsOK
    /\ proc \in [Processes -> CacheRun]
    /\ task \in [Processes -> Dirs \cup {NoDir}]
    /\ \A p \in Processes : Fits(p, proc[p])
    /\ \A p, q \in Processes : Apart(proc[p], proc[q], task[q])
    /\ \A p, q \in Processes : p # q /\ proc[p].staged # NoDir => proc[q].staged # proc[p].staged

-----------------------------------------------------------------------------
LEMMA IdsAreNotNoId ==
    /\ NoId \notin Ids
    /\ \A i \in Ids : i = <<i[1], i[2]>> /\ i[1] \in Places /\ i[2] \in Tokens
BY WorktreeAssumption DEF NoId, Ids

LEMMA IdleFits ==
    ASSUME NEW p \in Processes
    PROVE  /\ Idle \in CacheRun /\ Fits(p, Idle) /\ Idle.pc = "idle" /\ Idle.staged = NoDir
           /\ Idle.fd = NoDir /\ Idle.mode = "none" /\ Idle.locks = FALSE
<1>1. Idle \in CacheRun
  BY DEF Idle, CacheRun, Steps, Ids
<1>2. /\ Idle.pc = "idle" /\ Idle.staged = NoDir
      /\ Idle.fd = NoDir /\ Idle.mode = "none" /\ Idle.locks = FALSE
  BY DEF Idle
<1>3. Fits(p, Idle)
  BY <1>2 DEF Fits, Naming, Making, Pruning
<1>4. QED
  BY <1>1, <1>2, <1>3

LEMMA LeaseInit == Init => LeaseInv
<1> SUFFICES ASSUME Init PROVE LeaseInv
  OBVIOUS
<1>1. \A p \in Processes : proc[p] = Idle
  BY DEF Init
<1>2. proc \in [Processes -> CacheRun]
  BY IdleFits DEF Init
<1>3. worktree \in Worktrees /\ made \in 0 .. MaxToken
  BY WorktreeAssumption DEF Init, Unlinked, Worktrees
<1>4. DirsOK
  BY DEF Init, DirsOK, Nothing
<1>5. task \in [Processes -> Dirs \cup {NoDir}]
  BY DEF Init
<1>6. \A p \in Processes : Fits(p, proc[p])
  BY <1>1, IdleFits
<1>7. /\ \A p, q \in Processes : Apart(proc[p], proc[q], task[q])
      /\ \A p \in Processes : proc[p].staged = NoDir
  BY <1>1, IdleFits DEF Apart
<1>8. QED
  BY <1>2, <1>3, <1>4, <1>5, <1>6, <1>7 DEF LeaseInv

-----------------------------------------------------------------------------
\* One process moves, and nothing else changes.
LEMMA Moves ==
    ASSUME LeaseInv, NEW p \in Processes, NEW n \in CacheRun,
           proc' = [proc EXCEPT ![p] = n], UNCHANGED <<worktree, made, dir, task>>,
           Fits(p, n), n.staged \in {NoDir, proc[p].staged},
           \A q \in Processes : q # p =>
                Apart(n, proc[q], task[q]) /\ Apart(proc[q], n, task[p]),
           Apart(n, n, task[p])
    PROVE  LeaseInv'
<1>1. proc' \in [Processes -> CacheRun] /\ proc'[p] = n
  BY DEF LeaseInv
<1>2. \A q \in Processes : q # p => proc'[q] = proc[q]
  BY DEF LeaseInv
<1>3. DirsOK'
  BY DEF LeaseInv, DirsOK
<1>4. \A q \in Processes : Fits(q, proc[q])'
  BY <1>1, <1>2 DEF LeaseInv, Fits
<1>5. \A q, r \in Processes : Apart(proc[q], proc[r], task[r])'
  BY <1>1, <1>2 DEF LeaseInv, Apart
<1>6. \A q, r \in Processes : q # r /\ proc'[q].staged # NoDir => proc'[r].staged # proc'[q].staged
  BY <1>1, <1>2 DEF LeaseInv
<1>7. QED
  BY <1>1, <1>3, <1>4, <1>5, <1>6 DEF LeaseInv

\* And it holds nothing that it did not hold.
LEMMA MovesOn ==
    ASSUME LeaseInv, NEW p \in Processes, NEW n \in CacheRun,
           proc' = [proc EXCEPT ![p] = n], UNCHANGED <<worktree, made, dir, task>>,
           Fits(p, n), n.staged \in {NoDir, proc[p].staged},
           n.fd \in {NoDir, proc[p].fd}, n.mode \in {"none", proc[p].mode},
           n.locks => proc[p].locks /\ n.alone = proc[p].alone /\ n.alone # NoDir
    PROVE  LeaseInv'
<1>1. \A q \in Processes : /\ Apart(proc[p], proc[q], task[q]) /\ Apart(proc[q], proc[p], task[p])
                           /\ Apart(proc[q], proc[q], task[q])
  BY DEF LeaseInv
<1>2. \A q \in Processes : proc[q].locks => proc[q].alone # NoDir
  BY WorktreeAssumption DEF LeaseInv, Fits
<1>3. \A q \in Processes : q # p => Apart(n, proc[q], task[q]) /\ Apart(proc[q], n, task[p])
  BY <1>1, <1>2 DEF Apart
<1>4. Apart(n, n, task[p])
  BY <1>1, <1>2 DEF Apart
<1>5. QED
  BY <1>3, <1>4, Moves

-----------------------------------------------------------------------------
\* The run.
LEMMA BeginKeeps == ASSUME LeaseInv, NEW p \in Processes, Begin(p) PROVE LeaseInv'
<1> DEFINE n == [Idle EXCEPT !.pc = "token", !.place = worktree.at]
<1>1. /\ proc[p].pc = "idle" /\ worktree.at # Away /\ proc' = [proc EXCEPT ![p] = n]
      /\ UNCHANGED <<worktree, made, dir, task>>
  BY DEF Begin
<1>2. worktree.at \in Places
  BY <1>1 DEF LeaseInv, Worktrees
<1>3. /\ n \in CacheRun /\ n.pc = "token" /\ n.place \in Places /\ n.staged = NoDir
      /\ n.fd = NoDir /\ n.mode = "none" /\ n.locks = FALSE
  BY <1>2, IdleFits DEF CacheRun, Steps, Naming
<1> HIDE DEF n
<1>4. Fits(p, n)
  BY <1>3 DEF Fits, Naming, Making, Pruning
<1>5. QED
  BY <1>1, <1>3, <1>4, MovesOn

LEMMA BeginPlainKeeps == ASSUME LeaseInv, NEW p \in Processes, BeginPlain(p) PROVE LeaseInv'
<1> DEFINE n == [proc[p] EXCEPT !.pc = "list"]
<1>1. /\ proc[p].pc = "idle" /\ p \in Pruners /\ proc' = [proc EXCEPT ![p] = n]
      /\ UNCHANGED <<worktree, made, dir, task>>
  BY DEF BeginPlain, Goes
<1>2. proc[p] \in CacheRun /\ Fits(p, proc[p])
  BY DEF LeaseInv
<1>3. /\ n \in CacheRun /\ n.pc = "list" /\ n.staged = proc[p].staged
      /\ n.fd = proc[p].fd /\ n.mode = proc[p].mode /\ n.locks = proc[p].locks
  BY <1>2 DEF CacheRun, Steps, Pruning
<1> HIDE DEF n
<1>4. Fits(p, n) /\ ~n.locks
  BY <1>1, <1>2, <1>3 DEF Fits, Naming, Making, Pruning
<1>5. QED
  BY <1>1, <1>3, <1>4, MovesOn

\* A step of the naming or making leaves the run in another one.
LEMMA Prepares ==
    ASSUME LeaseInv, NEW p \in Processes, NEW n \in CacheRun,
           proc' = [proc EXCEPT ![p] = n], UNCHANGED <<worktree, made, dir, task>>,
           n.pc \in Naming => n.place \in Places,
           n.pc \in Making => n.id \in Ids,
           n.pc \in {"idle"} \cup Naming \cup (Making \ {"fill", "place"}),
           n.staged = NoDir, n.fd = NoDir, n.mode = "none", ~n.locks
    PROVE  LeaseInv'
<1>1. Fits(p, n)
  BY DEF Fits, Naming, Making, Pruning
<1>2. QED
  BY <1>1, MovesOn

LEMMA BeforeNaming ==
    ASSUME LeaseInv, NEW p \in Processes,
           proc[p].pc \in Naming \cup (Making \ {"fill", "place"})
    PROVE  /\ proc[p].staged = NoDir /\ proc[p].fd = NoDir /\ proc[p].mode = "none"
           /\ ~proc[p].locks /\ proc[p] \in CacheRun
           /\ proc[p].pc \in Naming => proc[p].place \in Places
           /\ proc[p].pc \in Making => proc[p].id \in Ids
<1>1. proc[p] \in CacheRun /\ Fits(p, proc[p])
  BY DEF LeaseInv
<1>2. QED
  BY <1>1 DEF Fits, Naming, Making

LEMMA NamedKeeps ==
    ASSUME LeaseInv, NEW p \in Processes, proc[p].pc \in Naming, worktree.token # 0,
           proc' = [proc EXCEPT ![p] = Named(p)], UNCHANGED <<worktree, made, dir, task>>
    PROVE  LeaseInv'
<1> DEFINE i == <<proc[p].place, worktree.token>>
           n == [proc[p] EXCEPT !.pc = "there", !.id = i]
<1>1. proc' = [proc EXCEPT ![p] = n]
  BY DEF Named
<1>2. i \in Ids
  BY BeforeNaming, WorktreeAssumption DEF LeaseInv, Worktrees, Ids, Tokens
<1> HIDE DEF i
<1>3. /\ proc[p] \in CacheRun /\ proc[p].staged = NoDir /\ proc[p].fd = NoDir
      /\ proc[p].mode = "none" /\ ~proc[p].locks
  BY BeforeNaming
<1>4. /\ n \in CacheRun /\ n.pc = "there" /\ n.id \in Ids /\ n.staged = NoDir
      /\ n.fd = NoDir /\ n.mode = "none" /\ ~n.locks
  BY <1>2, <1>3 DEF CacheRun, Steps, Making
<1> HIDE DEF n
<1>5. QED
  BY <1>1, <1>4, Prepares DEF Naming, Making

LEMMA ReadTokenKeeps == ASSUME LeaseInv, NEW p \in Processes, ReadToken(p) PROVE LeaseInv'
<1>1. /\ proc[p].pc = "token" /\ UNCHANGED <<worktree, made, dir, task>>
      /\ \/ worktree.token # 0 /\ proc' = [proc EXCEPT ![p] = Named(p)]
         \/ proc' = [proc EXCEPT ![p] = [proc[p] EXCEPT !.pc = "publish"]]
  BY DEF ReadToken
<1>2. CASE worktree.token # 0 /\ proc' = [proc EXCEPT ![p] = Named(p)]
  BY <1>1, <1>2, NamedKeeps DEF Naming
<1>3. CASE proc' = [proc EXCEPT ![p] = [proc[p] EXCEPT !.pc = "publish"]]
  <2> DEFINE n == [proc[p] EXCEPT !.pc = "publish"]
  <2>1. /\ proc[p] \in CacheRun /\ proc[p].place \in Places /\ proc[p].staged = NoDir
        /\ proc[p].fd = NoDir /\ proc[p].mode = "none" /\ ~proc[p].locks
    BY <1>1, BeforeNaming DEF Naming
  <2>2. /\ n \in CacheRun /\ n.pc = "publish" /\ n.place \in Places /\ n.staged = NoDir
        /\ n.fd = NoDir /\ n.mode = "none" /\ ~n.locks
    BY <2>1 DEF CacheRun, Steps, Naming
  <2>3. proc' = [proc EXCEPT ![p] = n]
    BY <1>3
  <2> HIDE DEF n
  <2>4. QED
    BY <1>1, <2>2, <2>3, Prepares DEF Naming, Making
<1>4. QED
  BY <1>1, <1>2, <1>3

LEMMA RereadKeeps == ASSUME LeaseInv, NEW p \in Processes, Reread(p) PROVE LeaseInv'
<1>1. /\ proc[p].pc = "reread" /\ UNCHANGED <<worktree, made, dir, task>>
      /\ \/ worktree.token # 0 /\ proc' = [proc EXCEPT ![p] = Named(p)]
         \/ proc' = [proc EXCEPT ![p] = Idle]
  BY DEF Reread
<1>2. QED
  BY <1>1, NamedKeeps, IdleFits, Prepares DEF Naming, Making

\* The token is written: the worktree is no less alive.
LEMMA PublishKeeps == ASSUME LeaseInv, NEW p \in Processes, Publish(p) PROVE LeaseInv'
<1> DEFINE n == [proc[p] EXCEPT !.pc = "reread"]
<1>1. /\ proc[p].pc = "publish" /\ proc' = [proc EXCEPT ![p] = n] /\ UNCHANGED <<dir, task>>
      /\ \/ /\ worktree.token = 0 /\ made < MaxToken /\ made' = made + 1
            /\ worktree' = [worktree EXCEPT !.token = made']
         \/ UNCHANGED <<worktree, made>>
  BY DEF Publish, Goes
<1>2. /\ proc[p] \in CacheRun /\ proc[p].place \in Places /\ proc[p].staged = NoDir
      /\ proc[p].fd = NoDir /\ proc[p].mode = "none" /\ ~proc[p].locks
  BY <1>1, BeforeNaming DEF Naming
<1>3. /\ n \in CacheRun /\ n.pc = "reread" /\ n.place \in Places /\ n.staged = NoDir
      /\ n.fd = NoDir /\ n.mode = "none" /\ ~n.locks
  BY <1>2 DEF CacheRun, Steps, Naming
<1> HIDE DEF n
<1>4. worktree' \in Worktrees /\ made' \in 0 .. MaxToken
  BY <1>1, WorktreeAssumption DEF LeaseInv, Worktrees
<1>5. \A i \in Ids : Alive(worktree, i) => Alive(worktree', i)
  BY <1>1, IdsAreNotNoId DEF Alive, Tokens, LeaseInv, Worktrees
<1>6. /\ proc' \in [Processes -> CacheRun] /\ proc'[p] = n
      /\ \A q \in Processes : q # p => proc'[q] = proc[q]
  BY <1>1, <1>3 DEF LeaseInv
<1>7. DirsOK'
  BY <1>1 DEF LeaseInv, DirsOK
<1>8. ASSUME NEW q \in Processes PROVE Fits(q, proc[q])'
  <2>1. CASE q = p
    BY <1>3, <1>6, <2>1 DEF Fits, Naming, Making, Pruning
  <2>2. CASE q # p
    <3>1. Fits(q, proc[q]) /\ proc'[q] = proc[q]
      BY <1>6, <2>2 DEF LeaseInv
    <3>2. proc[q].locks => proc[q].seen \in Ids
      BY <3>1 DEF Fits
    <3>3. proc[q].locks /\ ~Alive(worktree', proc[q].seen) => proc[q].gone
      BY <1>5, <3>1, <3>2 DEF Fits
    <3>4. QED
      BY <1>1, <3>1, <3>3 DEF Fits
  <2>3. QED
    BY <2>1, <2>2
<1>9. \A q, r \in Processes : Apart(proc[q], proc[r], task[r])'
  BY <1>1, <1>3, <1>6 DEF LeaseInv, Apart
<1>10. \A q, r \in Processes : q # r /\ proc'[q].staged # NoDir => proc'[r].staged # proc'[q].staged
  BY <1>3, <1>6 DEF LeaseInv
<1>11. QED
  BY <1>1, <1>4, <1>6, <1>7, <1>8, <1>9, <1>10 DEF LeaseInv

LEMMA ThereKeeps == ASSUME LeaseInv, NEW p \in Processes, There(p) PROVE LeaseInv'
<1>1. PICK pc \in {"open", "stage"} : proc' = [proc EXCEPT ![p].pc = pc]
  BY DEF There, Goes
<1>2. proc[p].pc = "there" /\ UNCHANGED <<worktree, made, dir, task>>
  BY DEF There
<1> DEFINE n == [proc[p] EXCEPT !.pc = pc]
<1>3. proc' = [proc EXCEPT ![p] = n]
  BY <1>1
<1>4. /\ proc[p] \in CacheRun /\ proc[p].id \in Ids /\ proc[p].staged = NoDir
      /\ proc[p].fd = NoDir /\ proc[p].mode = "none" /\ ~proc[p].locks
  BY <1>2, BeforeNaming DEF Making
<1>5. /\ n \in CacheRun /\ n.pc = pc /\ n.id \in Ids /\ n.staged = NoDir
      /\ n.fd = NoDir /\ n.mode = "none" /\ ~n.locks
  BY <1>4 DEF CacheRun, Steps, Making
<1> HIDE DEF n
<1>6. QED
  BY <1>2, <1>3, <1>5, Prepares DEF Naming, Making

\* Found moved.
LEMMA AgainKeeps ==
    ASSUME LeaseInv, NEW p \in Processes, proc[p].pc \in {"open", "check"},
           proc' = [proc EXCEPT ![p] = Again(p)], UNCHANGED <<worktree, made, dir, task>>
    PROVE  LeaseInv'
<1>1. CASE proc' = [proc EXCEPT ![p] = Idle]
  BY <1>1, IdleFits, Prepares DEF Naming, Making
<1>2. CASE /\ proc[p].tries # 2
           /\ proc' = [proc EXCEPT ![p] = [proc[p] EXCEPT !.pc = "there", !.fd = NoDir,
                                                          !.mode = "none", !.tries = @ + 1]]
  <2>1. /\ proc[p] \in CacheRun /\ proc[p].id \in Ids /\ proc[p].staged = NoDir /\ ~proc[p].locks
    BY DEF LeaseInv, Fits, Making
  <2>2. proc[p].tries + 1 \in 0 .. 2
    BY <1>2, <2>1 DEF CacheRun
  <2> DEFINE m == [proc[p] EXCEPT !.pc = "there", !.fd = NoDir]
             n == [m EXCEPT !.mode = "none", !.tries = @ + 1]
  <2>3. "there" \in Steps
    BY DEF Steps, Making
  <2>4. /\ m \in CacheRun /\ m.pc = "there" /\ m.id = proc[p].id /\ m.staged = NoDir
        /\ m.fd = NoDir /\ ~m.locks /\ m.tries = proc[p].tries
    BY <2>1, <2>3 DEF CacheRun
  <2>5. proc' = [proc EXCEPT ![p] = n]
    BY <1>2, <2>1 DEF CacheRun
  <2> HIDE DEF m
  <2>6. /\ n \in CacheRun /\ n.pc = "there" /\ n.id \in Ids /\ n.staged = NoDir
        /\ n.fd = NoDir /\ n.mode = "none" /\ ~n.locks
    BY <2>1, <2>2, <2>4 DEF CacheRun
  <2> HIDE DEF n
  <2>7. QED
    BY <2>5, <2>6, Prepares DEF Naming, Making
<1>3. QED
  BY <1>1, <1>2 DEF Again

\* A process moves and its tasks stand; directories change, but not what the
\* other processes build or hold alone.
LEMMA DirMoves ==
    ASSUME LeaseInv, NEW p \in Processes, NEW n \in CacheRun,
           proc' = [proc EXCEPT ![p] = n], UNCHANGED <<worktree, made, task>>,
           DirsOK', Fits(p, n)',
           \A q \in Processes : q # p =>
                /\ proc[q].staged # NoDir => dir'[proc[q].staged] = dir[proc[q].staged]
                /\ OnePruner /\ proc[q].pc \in {"alone", "again", "aside"} =>
                     dir'[proc[q].alone].where = "placed" /\ dir'[proc[q].alone].id = proc[q].seen
                /\ Apart(n, proc[q], task[q]) /\ Apart(proc[q], n, task[p])
                /\ n.staged # NoDir => proc[q].staged # n.staged,
           Apart(n, n, task[p])
    PROVE  LeaseInv'
<1>1. /\ proc' \in [Processes -> CacheRun] /\ proc'[p] = n
      /\ \A q \in Processes : q # p => proc'[q] = proc[q]
  BY DEF LeaseInv
<1>2. ASSUME NEW q \in Processes PROVE Fits(q, proc[q])'
  <2>1. CASE q = p
    BY <1>1, <2>1
  <2>2. CASE q # p
    <3>1. Fits(q, proc[q]) /\ proc'[q] = proc[q]
      BY <1>1, <2>2 DEF LeaseInv
    <3>2. proc[q].pc \in {"fill", "place"} => proc[q].staged # NoDir
      BY <3>1, WorktreeAssumption DEF Fits
    <3>3. proc[q].pc \in {"fill", "place"} => dir'[proc[q].staged] = dir[proc[q].staged]
      BY <2>2, <3>2
    <3>4. OnePruner /\ proc[q].pc \in {"alone", "again", "aside"} =>
            dir'[proc[q].alone].where = "placed" /\ dir'[proc[q].alone].id = proc[q].seen
      BY <2>2
    <3>5. Fits(q, proc[q])'
      BY <3>1, <3>3, <3>4 DEF Fits
    <3>6. QED
      BY <3>5
  <2>3. QED
    BY <2>1, <2>2
<1>3. \A q, r \in Processes : Apart(proc[q], proc[r], task[r])
  BY DEF LeaseInv
<1>4. ASSUME NEW q \in Processes, NEW r \in Processes PROVE Apart(proc[q], proc[r], task[r])'
  <2>1. CASE q = p /\ r = p
    BY <1>1, <2>1 DEF Apart
  <2>2. CASE q = p /\ r # p
    BY <1>1, <2>2 DEF Apart
  <2>3. CASE q # p /\ r = p
    BY <1>1, <2>3 DEF Apart
  <2>4. CASE q # p /\ r # p
    BY <1>1, <1>3, <2>4 DEF Apart
  <2>5. QED
    BY <2>1, <2>2, <2>3, <2>4
<1>5. ASSUME NEW q \in Processes, NEW r \in Processes, q # r, proc'[q].staged # NoDir
      PROVE  proc'[r].staged # proc'[q].staged
  BY <1>1, <1>5 DEF LeaseInv
<1>6. QED
  BY <1>1, <1>2, <1>4, <1>5 DEF LeaseInv

\* What a process builds is its own, and nobody works in it.
LEMMA StagedIsOwn ==
    ASSUME LeaseInv, NEW p \in Processes, proc[p].pc \in {"fill", "place"}
    PROVE  LET d == proc[p].staged
           IN  /\ d \in Dirs /\ d # NoDir /\ dir[d].where = "staging" /\ dir[d].id = proc[p].id
               /\ proc[p].pc = "place" => dir[d].whole
               /\ proc[p].id \in Ids /\ proc[p] \in CacheRun
               /\ proc[p].fd = NoDir /\ proc[p].mode = "none" /\ ~proc[p].locks
               /\ \A q \in Processes : q # p => proc[q].staged # d
               /\ \A q \in Processes : proc[q].fd # d /\ task[q] # d
               /\ OnePruner => \A q \in Processes :
                    proc[q].pc \in {"alone", "again", "aside"} => proc[q].alone # d
<1>1. proc[p] \in CacheRun /\ Fits(p, proc[p])
  BY DEF LeaseInv
<1>2. /\ proc[p].staged \in Dirs /\ dir[proc[p].staged].where = "staging"
      /\ dir[proc[p].staged].id = proc[p].id /\ proc[p].id \in Ids
      /\ proc[p].pc = "place" => dir[proc[p].staged].whole
      /\ proc[p].fd = NoDir /\ proc[p].mode = "none" /\ ~proc[p].locks
  BY <1>1 DEF Fits, Making
<1>3. proc[p].staged # NoDir
  BY <1>2, WorktreeAssumption
<1>4. \A q \in Processes : q # p => proc[q].staged # proc[p].staged
  BY <1>3 DEF LeaseInv
<1>5. \A q \in Processes : proc[q].fd # proc[p].staged /\ task[q] # proc[p].staged
  BY <1>3 DEF LeaseInv, Apart
<1>6. ASSUME OnePruner, NEW q \in Processes, proc[q].pc \in {"alone", "again", "aside"}
      PROVE  proc[q].alone # proc[p].staged
  BY <1>2, <1>6 DEF LeaseInv, Fits
<1>7. QED
  BY <1>1, <1>2, <1>3, <1>4, <1>5, <1>6

LEMMA StageKeeps == ASSUME LeaseInv, NEW p \in Processes, Stage(p) PROVE LeaseInv'
<1> DEFINE s == [where |-> "staging", id |-> proc[p].id, whole |-> FALSE]
<1>1. PICK d \in Free : /\ dir' = [dir EXCEPT ![d] = s]
                        /\ proc' = [proc EXCEPT ![p].pc = "fill", ![p].staged = d]
  BY DEF Stage
<1>2. proc[p].pc = "stage" /\ UNCHANGED <<worktree, made, task>>
  BY DEF Stage
<1> DEFINE m == [proc[p] EXCEPT !.pc = "fill", !.staged = d]
<1>3. proc' = [proc EXCEPT ![p] = m]
  BY <1>1 DEF LeaseInv
<1>4. /\ proc[p] \in CacheRun /\ proc[p].id \in Ids /\ proc[p].staged = NoDir
      /\ proc[p].fd = NoDir /\ proc[p].mode = "none" /\ ~proc[p].locks
  BY <1>2, BeforeNaming DEF Making
<1>5. /\ d \in Dirs /\ d # NoDir /\ dir[d].where = "none"
      /\ \A q \in Processes : /\ proc[q].fd # d /\ proc[q].alone # d
                              /\ proc[q].staged # d /\ task[q] # d
  BY WorktreeAssumption DEF Free
<1>6. /\ m \in CacheRun /\ m.pc = "fill" /\ m.id = proc[p].id /\ m.staged = d
      /\ m.fd = NoDir /\ m.mode = "none" /\ ~m.locks
  <2>1. "fill" \in Steps
    BY DEF Steps, Making
  <2>2. QED
    BY <1>4, <1>5, <2>1 DEF CacheRun
<1> HIDE DEF m
<1>7. PICK n \in CacheRun : n = m
  BY <1>6
<1>8. /\ dir'[d] = s /\ \A e \in Dirs : e # d => dir'[e] = dir[e]
      /\ dir' \in [Dirs -> [where : {"none", "staging", "placed", "aside"},
                            id : Ids \cup {NoId}, whole : BOOLEAN]]
  BY <1>1, <1>4, <1>5 DEF LeaseInv, DirsOK
<1>9. DirsOK'
  BY <1>8 DEF LeaseInv, DirsOK
<1>10. Fits(p, n)'
  BY <1>4, <1>5, <1>6, <1>7, <1>8 DEF Fits, Naming, Making, Pruning
<1>11. ASSUME NEW q \in Processes, q # p
       PROVE  /\ proc[q].staged # NoDir => dir'[proc[q].staged] = dir[proc[q].staged]
              /\ OnePruner /\ proc[q].pc \in {"alone", "again", "aside"} =>
                   dir'[proc[q].alone].where = "placed" /\ dir'[proc[q].alone].id = proc[q].seen
              /\ Apart(n, proc[q], task[q]) /\ Apart(proc[q], n, task[p])
              /\ n.staged # NoDir => proc[q].staged # n.staged
  <2>1. Fits(q, proc[q]) /\ proc[q] \in CacheRun /\ Apart(proc[q], proc[p], task[p])
    BY DEF LeaseInv
  <2>2. proc[q].staged # NoDir => dir'[proc[q].staged] = dir[proc[q].staged]
    BY <1>5, <1>8, <2>1 DEF CacheRun
  <2>3. OnePruner /\ proc[q].pc \in {"alone", "again", "aside"} =>
          dir'[proc[q].alone].where = "placed" /\ dir'[proc[q].alone].id = proc[q].seen
    BY <1>5, <1>8, <2>1 DEF Fits
  <2>4. Apart(n, proc[q], task[q]) /\ Apart(proc[q], n, task[p])
    BY <1>4, <1>5, <1>6, <1>7, <2>1 DEF Apart
  <2>5. QED
    BY <1>5, <1>6, <1>7, <2>2, <2>3, <2>4
<1>12. Apart(n, n, task[p])
  BY <1>5, <1>6, <1>7 DEF Apart
<1>13. QED
  BY <1>2, <1>3, <1>7, <1>9, <1>10, <1>11, <1>12, DirMoves

\* A maker's step with the directory it has made.
LEMMA StagedMoves ==
    ASSUME LeaseInv, NEW p \in Processes, proc[p].pc \in {"fill", "place"}, NEW n \in CacheRun,
           proc' = [proc EXCEPT ![p] = n], UNCHANGED <<worktree, made, task>>,
           NEW r \in [where : {"none", "staging", "placed", "aside"},
                      id : Ids \cup {NoId}, whole : BOOLEAN],
           dir' = [dir EXCEPT ![proc[p].staged] = r],
           r.where = "placed" => r.whole /\ r.id \in Ids /\ At(r.id) = {},
           n.fd = NoDir, n.mode = "none", ~n.locks, n.staged \in {NoDir, proc[p].staged},
           Fits(p, n)'
    PROVE  LeaseInv'
<1>1. PICK d : d = proc[p].staged
  OBVIOUS
<1>2. /\ d \in Dirs /\ d # NoDir
      /\ \A q \in Processes : q # p => proc[q].staged # d
      /\ \A q \in Processes : proc[q].fd # d /\ task[q] # d
      /\ OnePruner => \A q \in Processes :
           proc[q].pc \in {"alone", "again", "aside"} => proc[q].alone # d
  BY <1>1, StagedIsOwn
<1>3. /\ dir'[d] = r /\ \A e \in Dirs : e # d => dir'[e] = dir[e]
      /\ dir' \in [Dirs -> [where : {"none", "staging", "placed", "aside"},
                            id : Ids \cup {NoId}, whole : BOOLEAN]]
  BY <1>1, <1>2 DEF LeaseInv, DirsOK
<1>4. \A e \in Dirs : dir[e].where = "placed" /\ r.where = "placed" => dir[e].id # r.id
  BY DEF At
<1>5. DirsOK'
  BY <1>3, <1>4 DEF LeaseInv, DirsOK
<1>6. ASSUME NEW q \in Processes, q # p
      PROVE  /\ proc[q].staged # NoDir => dir'[proc[q].staged] = dir[proc[q].staged]
             /\ OnePruner /\ proc[q].pc \in {"alone", "again", "aside"} =>
                  dir'[proc[q].alone].where = "placed" /\ dir'[proc[q].alone].id = proc[q].seen
             /\ Apart(n, proc[q], task[q]) /\ Apart(proc[q], n, task[p])
             /\ n.staged # NoDir => proc[q].staged # n.staged
  <2>1. Fits(q, proc[q]) /\ proc[q] \in CacheRun /\ Apart(proc[q], proc[p], task[p])
    BY DEF LeaseInv
  <2>2. proc[q].staged # NoDir => dir'[proc[q].staged] = dir[proc[q].staged]
    BY <1>2, <1>3, <1>6, <2>1 DEF CacheRun
  <2>3. OnePruner /\ proc[q].pc \in {"alone", "again", "aside"} =>
          dir'[proc[q].alone].where = "placed" /\ dir'[proc[q].alone].id = proc[q].seen
    BY <1>2, <1>3, <2>1 DEF Fits
  <2>4. Apart(n, proc[q], task[q])
    BY <1>1, <1>2 DEF Apart
  <2>5. Apart(proc[q], n, task[p])
    BY <2>1, WorktreeAssumption DEF Apart
  <2>6. QED
    BY <1>1, <1>2, <1>6, <2>2, <2>3, <2>4, <2>5
<1>7. Apart(n, n, task[p])
  BY <1>1, <1>2 DEF Apart
<1>8. QED
  BY <1>5, <1>6, <1>7, DirMoves

LEMMA FillKeeps == ASSUME LeaseInv, NEW p \in Processes, Fill(p) PROVE LeaseInv'
<1> DEFINE d == proc[p].staged
<1>1. proc[p].pc = "fill" /\ UNCHANGED <<worktree, made, task>>
  BY DEF Fill
<1>2. /\ d \in Dirs /\ d # NoDir /\ dir[d].where = "staging" /\ dir[d].id = proc[p].id
      /\ proc[p].id \in Ids /\ proc[p] \in CacheRun
      /\ proc[p].fd = NoDir /\ proc[p].mode = "none" /\ ~proc[p].locks
  BY <1>1, StagedIsOwn
<1>3. CASE /\ dir' = [dir EXCEPT ![d].whole = TRUE]
           /\ proc' = [proc EXCEPT ![p] = [proc[p] EXCEPT !.pc = "place"]]
  <2>1. PICK n : n = [proc[p] EXCEPT !.pc = "place"]
    OBVIOUS
  <2>2. "place" \in Steps
    BY DEF Steps, Making
  <2>3. /\ n \in CacheRun /\ n.pc = "place" /\ n.id = proc[p].id /\ n.staged = d
        /\ n.fd = NoDir /\ n.mode = "none" /\ ~n.locks
    BY <1>2, <2>1, <2>2 DEF CacheRun
  <2>4. PICK r : r = [dir[d] EXCEPT !.whole = TRUE]
    OBVIOUS
  <2>5. dir[d] \in [where : {"none", "staging", "placed", "aside"},
                    id : Ids \cup {NoId}, whole : BOOLEAN]
    BY <1>2 DEF LeaseInv, DirsOK
  <2>6. /\ r \in [where : {"none", "staging", "placed", "aside"},
                  id : Ids \cup {NoId}, whole : BOOLEAN]
        /\ r.where = "staging" /\ r.id = proc[p].id /\ r.whole
    BY <1>2, <2>4, <2>5
  <2>7. dir' = [dir EXCEPT ![d] = r] /\ proc' = [proc EXCEPT ![p] = n]
    BY <1>2, <1>3, <2>1, <2>4 DEF LeaseInv, DirsOK
  <2>8. dir'[d] = r
    BY <1>2, <2>7 DEF LeaseInv, DirsOK
  <2>9. Fits(p, n)'
    BY <1>2, <2>3, <2>6, <2>8 DEF Fits, Naming, Making, Pruning
  <2>10. QED
    BY <1>1, <2>3, <2>6, <2>7, <2>9, StagedMoves
<1>4. CASE dir' = [dir EXCEPT ![d] = Nothing] /\ proc' = [proc EXCEPT ![p] = Idle]
  <2>1. PICK n : n = Idle
    OBVIOUS
  <2>2. /\ n \in CacheRun /\ n.pc = "idle" /\ n.staged = NoDir
        /\ n.fd = NoDir /\ n.mode = "none" /\ ~n.locks
    BY <2>1, IdleFits
  <2>3. Fits(p, n)'
    BY <2>2 DEF Fits, Naming, Making, Pruning
  <2>4. /\ Nothing \in [where : {"none", "staging", "placed", "aside"},
                        id : Ids \cup {NoId}, whole : BOOLEAN]
        /\ Nothing.where = "none"
    BY DEF Nothing
  <2>5. proc' = [proc EXCEPT ![p] = n]
    BY <1>4, <2>1
  <2>6. QED
    BY <1>1, <1>4, <2>2, <2>3, <2>4, <2>5, StagedMoves
<1>5. QED
  BY <1>3, <1>4 DEF Fill, Goes

LEMMA PlaceKeeps == ASSUME LeaseInv, NEW p \in Processes, Place(p) PROVE LeaseInv'
<1> DEFINE d == proc[p].staged
           i == proc[p].id
<1>1. proc[p].pc = "place" /\ UNCHANGED <<worktree, made, task>>
  BY DEF Place
<1>2. /\ d \in Dirs /\ d # NoDir /\ dir[d].where = "staging" /\ dir[d].id = i /\ dir[d].whole
      /\ i \in Ids /\ proc[p] \in CacheRun
      /\ proc[p].fd = NoDir /\ proc[p].mode = "none" /\ ~proc[p].locks
  BY <1>1, StagedIsOwn
<1>3. PICK n : n = [proc[p] EXCEPT !.pc = "open", !.staged = NoDir]
  OBVIOUS
<1>4. proc' = [proc EXCEPT ![p] = n]
  BY <1>3 DEF Place, LeaseInv
<1>5. "open" \in Steps
  BY DEF Steps, Making
<1>6. /\ n \in CacheRun /\ n.pc = "open" /\ n.id = i /\ n.staged = NoDir
      /\ n.fd = NoDir /\ n.mode = "none" /\ ~n.locks
  BY <1>2, <1>3, <1>5 DEF CacheRun
<1>7. Fits(p, n)'
  BY <1>2, <1>6 DEF Fits, Naming, Making, Pruning
<1>8. dir[d] \in [where : {"none", "staging", "placed", "aside"},
                  id : Ids \cup {NoId}, whole : BOOLEAN]
  BY <1>2 DEF LeaseInv, DirsOK
<1>9. CASE At(i) = {}
  <2>1. PICK r : r = [dir[d] EXCEPT !.where = "placed"]
    OBVIOUS
  <2>2. /\ r \in [where : {"none", "staging", "placed", "aside"},
                  id : Ids \cup {NoId}, whole : BOOLEAN]
        /\ r.where = "placed" /\ r.id = i /\ r.whole
    BY <1>2, <1>8, <2>1
  <2>3. dir' = [dir EXCEPT ![d] = r]
    BY <1>2, <1>9, <2>1 DEF Place, LeaseInv, DirsOK
  <2>4. QED
    BY <1>1, <1>2, <1>4, <1>6, <1>7, <1>9, <2>2, <2>3, StagedMoves
<1>10. CASE At(i) # {}
  <2>1. /\ Nothing \in [where : {"none", "staging", "placed", "aside"},
                        id : Ids \cup {NoId}, whole : BOOLEAN]
        /\ Nothing.where = "none"
    BY DEF Nothing
  <2>2. dir' = [dir EXCEPT ![d] = Nothing]
    BY <1>10 DEF Place
  <2>3. QED
    BY <1>1, <1>4, <1>6, <1>7, <2>1, <2>2, StagedMoves
<1>11. QED
  BY <1>9, <1>10

\* What stands is not what somebody builds.
LEMMA StandingIsWhole ==
    ASSUME LeaseInv, NEW i \in Ids, NEW d \in At(i)
    PROVE  /\ d \in Dirs /\ d # NoDir /\ dir[d].where = "placed" /\ dir[d].id = i
           /\ At(i) = {d}
           /\ \A q \in Processes : proc[q].staged # d
<1>1. d \in Dirs /\ dir[d].where = "placed" /\ dir[d].id = i /\ d # NoDir
  BY WorktreeAssumption DEF At
<1>2. At(i) = {d}
  BY <1>1 DEF At, LeaseInv, DirsOK
<1>3. \A q \in Processes : proc[q].staged # d
  BY <1>1, WorktreeAssumption DEF LeaseInv, Fits
<1>4. QED
  BY <1>1, <1>2, <1>3

LEMMA OpenLeaseKeeps == ASSUME LeaseInv, NEW p \in Processes, OpenLease(p) PROVE LeaseInv'
<1>1. proc[p].pc = "open" /\ UNCHANGED <<worktree, made, dir, task>>
  BY DEF OpenLease
<1>2. /\ proc[p] \in CacheRun /\ proc[p].id \in Ids /\ proc[p].staged = NoDir
      /\ proc[p].fd = NoDir /\ proc[p].mode = "none" /\ ~proc[p].locks
  BY <1>1, BeforeNaming DEF Making
<1>3. ASSUME NEW d \in At(proc[p].id), proc' = [proc EXCEPT ![p].pc = "lock", ![p].fd = d]
      PROVE  LeaseInv'
  <2> DEFINE n == [proc[p] EXCEPT !.pc = "lock", !.fd = d]
  <2>1. proc' = [proc EXCEPT ![p] = n]
    BY <1>3 DEF LeaseInv
  <2>2. d \in Dirs /\ \A q \in Processes : proc[q].staged # d
    BY <1>2, StandingIsWhole
  <2>3. "lock" \in Steps
    BY DEF Steps
  <2>4. /\ n \in CacheRun /\ n.pc = "lock" /\ n.id \in Ids /\ n.staged = NoDir
        /\ n.fd = d /\ n.mode = "none" /\ ~n.locks
    BY <1>2, <2>2, <2>3 DEF CacheRun
  <2> HIDE DEF n
  <2>5. Fits(p, n)
    BY <2>2, <2>4 DEF Fits, Naming, Making, Pruning
  <2>6. ASSUME NEW q \in Processes PROVE Apart(n, proc[q], task[q]) /\ Apart(proc[q], n, task[p])
    <3>1. Apart(proc[q], proc[p], task[p])
      BY DEF LeaseInv
    <3>2. QED
      BY <2>2, <2>4, <3>1 DEF Apart
  <2>7. Apart(n, n, task[p])
    BY <2>4 DEF Apart
  <2>8. QED
    BY <1>1, <2>1, <2>4, <2>5, <2>6, <2>7, Moves
<1>4. CASE proc' = [proc EXCEPT ![p] = Again(p)]
  BY <1>1, <1>4, AgainKeeps
<1>5. QED
  BY <1>3, <1>4 DEF OpenLease

LEMMA LockSharedKeeps == ASSUME LeaseInv, NEW p \in Processes, LockShared(p) PROVE LeaseInv'
<1>1. /\ proc[p].pc = "lock" /\ Alone(proc[p].fd) = {}
      /\ UNCHANGED <<worktree, made, dir, task>>
  BY DEF LockShared
<1>2. proc[p] \in CacheRun /\ Fits(p, proc[p])
  BY DEF LeaseInv
<1>3. /\ proc[p].id \in Ids /\ proc[p].staged = NoDir
      /\ proc[p].fd \in Dirs /\ ~proc[p].locks
  BY <1>1, <1>2 DEF Fits
<1> DEFINE n == [proc[p] EXCEPT !.pc = "check", !.mode = "shared"]
<1>4. proc' = [proc EXCEPT ![p] = n]
  BY DEF LockShared, LeaseInv
<1>5. "check" \in Steps
  BY DEF Steps
<1>6. /\ n \in CacheRun /\ n.pc = "check" /\ n.id \in Ids /\ n.staged = NoDir
      /\ n.fd = proc[p].fd /\ n.mode = "shared" /\ ~n.locks
  BY <1>2, <1>3, <1>5 DEF CacheRun
<1> HIDE DEF n
<1>7. Fits(p, n)
  BY <1>3, <1>6 DEF Fits, Naming, Making, Pruning
<1>8. \A q \in Processes : proc[q].locks => proc[q].alone # proc[p].fd
  BY <1>1 DEF Alone
<1>9. ASSUME NEW q \in Processes PROVE Apart(n, proc[q], task[q]) /\ Apart(proc[q], n, task[p])
  <2>1. Apart(proc[q], proc[p], task[p])
    BY DEF LeaseInv
  <2>2. QED
    BY <1>6, <1>8, <2>1 DEF Apart
<1>10. Apart(n, n, task[p])
  BY <1>6 DEF Apart
<1>11. QED
  BY <1>1, <1>4, <1>6, <1>7, <1>9, <1>10, Moves

LEMMA CheckPathKeeps == ASSUME LeaseInv, NEW p \in Processes, CheckPath(p) PROVE LeaseInv'
<1>1. proc[p].pc = "check" /\ UNCHANGED <<worktree, made, dir, task>>
  BY DEF CheckPath
<1>2. proc[p] \in CacheRun /\ Fits(p, proc[p])
  BY DEF LeaseInv
<1>3. /\ proc[p].id \in Ids /\ proc[p].staged = NoDir
      /\ proc[p].fd \in Dirs /\ proc[p].mode = "shared" /\ ~proc[p].locks
  BY <1>1, <1>2 DEF Fits
<1>4. CASE proc' = [proc EXCEPT ![p] = [proc[p] EXCEPT !.pc = Works(p), !.place = Away, !.tries = 0]]
  <2>1. PICK pc : pc = Works(p)
    OBVIOUS
  <2>2. pc \in {"list", "work"} /\ pc \in Steps /\ (pc = "list" => p \in Pruners)
    BY <2>1 DEF Works, Steps, Pruning
  <2> DEFINE n == [proc[p] EXCEPT !.pc = pc, !.place = Away, !.tries = 0]
  <2>3. proc' = [proc EXCEPT ![p] = n]
    BY <1>4, <2>1
  <2>4. /\ n \in CacheRun /\ n.pc = pc /\ n.id \in Ids /\ n.staged = NoDir
        /\ n.fd = proc[p].fd /\ n.mode = "shared" /\ ~n.locks
    <3> DEFINE m == [proc[p] EXCEPT !.pc = pc, !.place = Away]
    <3>1. /\ m \in CacheRun /\ m.pc = pc /\ m.id \in Ids /\ m.staged = NoDir
          /\ m.fd = proc[p].fd /\ m.mode = "shared" /\ ~m.locks
      BY <1>2, <1>3, <2>2 DEF CacheRun
    <3>2. n = [m EXCEPT !.tries = 0]
      BY <1>2 DEF CacheRun
    <3> HIDE DEF m, n
    <3>3. QED
      BY <3>1, <3>2 DEF CacheRun
  <2> HIDE DEF n
  <2>5. Fits(p, n)
    BY <1>3, <2>2, <2>4 DEF Fits, Naming, Making, Pruning
  <2>6. QED
    BY <1>1, <1>3, <2>3, <2>4, <2>5, MovesOn
<1>5. CASE proc' = [proc EXCEPT ![p] = Again(p)]
  BY <1>1, <1>5, AgainKeeps
<1>6. QED
  BY <1>4, <1>5 DEF CheckPath

-----------------------------------------------------------------------------
\* The tasks of a process come and go.
LEMMA TaskMoves ==
    ASSUME LeaseInv, NEW p \in Processes, NEW d \in Dirs \cup {NoDir},
           task' = [task EXCEPT ![p] = d], UNCHANGED <<worktree, made, dir, proc>>,
           d # NoDir => proc[p].mode = "shared" /\ proc[p].fd = d
    PROVE  LeaseInv'
<1>1. /\ task' \in [Processes -> Dirs \cup {NoDir}] /\ task'[p] = d
      /\ \A q \in Processes : q # p => task'[q] = task[q]
  BY DEF LeaseInv
<1>2. DirsOK'
  BY DEF LeaseInv, DirsOK
<1>3. \A q \in Processes : Fits(q, proc[q])'
  BY DEF LeaseInv, Fits
<1>4. ASSUME NEW q \in Processes, NEW r \in Processes PROVE Apart(proc[q], proc[r], task[r])'
  <2>1. Apart(proc[q], proc[r], task[r])
    BY DEF LeaseInv
  <2>2. proc[q].locks => proc[q].alone # NoDir
    BY WorktreeAssumption DEF LeaseInv, Fits
  <2>3. CASE r # p
    BY <1>1, <2>1, <2>3 DEF Apart
  <2>4. CASE r = p
    BY <1>1, <2>1, <2>2, <2>4 DEF Apart
  <2>5. QED
    BY <2>3, <2>4
<1>5. QED
  BY <1>1, <1>2, <1>3, <1>4 DEF LeaseInv

LEMMA TasksKeep ==
    ASSUME LeaseInv, NEW p \in Processes, TaskStarts(p) \/ TaskExits(p)
    PROVE  LeaseInv'
<1>1. CASE TaskStarts(p)
  <2>1. Fits(p, proc[p])
    BY DEF LeaseInv
  <2>2. proc[p].mode = "shared" /\ proc[p].fd \in Dirs
    BY <1>1, <2>1 DEF TaskStarts, Holds, Fits
  <2>3. QED
    BY <1>1, <2>2, TaskMoves DEF TaskStarts
<1>2. CASE TaskExits(p)
  BY <1>2, TaskMoves DEF TaskExits
<1>3. QED
  BY <1>1, <1>2

\* A process that is not working is killed, or ends.
LEMMA IdleKeeps ==
    ASSUME LeaseInv, NEW p \in Processes, proc' = [proc EXCEPT ![p] = Idle],
           UNCHANGED <<worktree, made, dir, task>>
    PROVE  LeaseInv'
  BY IdleFits, MovesOn

\* What is staged is being built, and what is held alone is not set aside.
LEMMA StagedStands ==
    ASSUME LeaseInv, NEW q \in Processes
    PROVE  /\ proc[q].staged # NoDir =>
                /\ proc[q].staged \in Dirs /\ dir[proc[q].staged].where = "staging"
           /\ OnePruner /\ proc[q].pc \in {"alone", "again", "aside"} =>
                /\ proc[q].alone \in Dirs /\ dir[proc[q].alone].where = "placed"
                /\ dir[proc[q].alone].id = proc[q].seen
           /\ proc[q].locks => proc[q].pc \in {"again", "aside"} /\ proc[q].alone \in Dirs
           /\ proc[q].pc \in Pruning => q \in Pruners
<1>1. Fits(q, proc[q])
  BY DEF LeaseInv
<1>2. QED
  BY <1>1 DEF Fits

LEMMA RemovePrunedKeeps ==
    ASSUME LeaseInv, NEW p \in Processes, RemovePruned(p) PROVE LeaseInv'
<1>1. proc[p].pc = "work" /\ UNCHANGED <<worktree, made, task>>
  BY DEF RemovePruned
<1>2. proc[p] \in CacheRun /\ Fits(p, proc[p])
  BY DEF LeaseInv
<1>3. PICK n : n = [proc[p] EXCEPT !.pc = "end"]
  OBVIOUS
<1>4. proc' = [proc EXCEPT ![p] = n]
  BY <1>3 DEF RemovePruned, Goes
<1>5. "end" \in Steps
  BY DEF Steps
<1>6. /\ n \in CacheRun /\ n.pc = "end" /\ n.staged = proc[p].staged
      /\ n.fd = proc[p].fd /\ n.mode = proc[p].mode /\ n.locks = proc[p].locks
  BY <1>2, <1>3, <1>5 DEF CacheRun
<1>7. proc[p].staged = NoDir /\ ~proc[p].locks
      /\ (proc[p].mode = "shared" => proc[p].fd \in Dirs)
  BY <1>1, <1>2 DEF Fits
<1>8. Fits(p, n)'
  BY <1>6, <1>7 DEF Fits, Naming, Making, Pruning
<1>9. /\ dir' \in [Dirs -> [where : {"none", "staging", "placed", "aside"},
                            id : Ids \cup {NoId}, whole : BOOLEAN]]
      /\ \A d \in Dirs : dir'[d] = dir[d] \/ dir'[d] = Nothing
      /\ \A d \in Dirs : dir[d].where = "placed" => dir'[d] = dir[d]
      /\ \A q \in Processes : dir[proc[q].staged].where = "staging" /\ proc[q].staged \in Dirs =>
            dir'[proc[q].staged] = dir[proc[q].staged]
  <2>1. PICK mine : mine = {proc[q].staged : q \in Processes}
    OBVIOUS
  <2>2. dir' = [d \in Dirs |-> IF \/ dir[d].where = "aside"
                                  \/ dir[d].where = "staging" /\ d \notin mine
                               THEN Nothing ELSE dir[d]]
    BY <2>1 DEF RemovePruned
  <2>3. dir \in [Dirs -> [where : {"none", "staging", "placed", "aside"},
                          id : Ids \cup {NoId}, whole : BOOLEAN]]
    BY DEF LeaseInv, DirsOK
  <2>4. Nothing \in [where : {"none", "staging", "placed", "aside"},
                     id : Ids \cup {NoId}, whole : BOOLEAN]
    BY DEF Nothing
  <2>5. \A q \in Processes : proc[q].staged \in mine
    BY <2>1
  <2> HIDE <2>1
  <2>6. dir' \in [Dirs -> [where : {"none", "staging", "placed", "aside"},
                           id : Ids \cup {NoId}, whole : BOOLEAN]]
    BY <2>2, <2>3, <2>4
  <2>7. QED
    BY <2>2, <2>5, <2>6
<1>10. DirsOK'
  <2>1. Nothing.where # "placed"
    BY DEF Nothing
  <2>2. \A d \in Dirs : dir'[d].where = "placed" => dir'[d] = dir[d]
    BY <1>9, <2>1
  <2>3. QED
    BY <1>9, <2>2 DEF LeaseInv, DirsOK
<1>11. ASSUME NEW q \in Processes, q # p
       PROVE  /\ proc[q].staged # NoDir => dir'[proc[q].staged] = dir[proc[q].staged]
              /\ OnePruner /\ proc[q].pc \in {"alone", "again", "aside"} =>
                   dir'[proc[q].alone].where = "placed" /\ dir'[proc[q].alone].id = proc[q].seen
              /\ Apart(n, proc[q], task[q]) /\ Apart(proc[q], n, task[p])
              /\ n.staged # NoDir => proc[q].staged # n.staged
  <2>1. Apart(proc[q], proc[p], task[p])
    BY DEF LeaseInv
  <2>2. /\ proc[q].staged # NoDir => dir'[proc[q].staged] = dir[proc[q].staged]
        /\ OnePruner /\ proc[q].pc \in {"alone", "again", "aside"} =>
             dir'[proc[q].alone].where = "placed" /\ dir'[proc[q].alone].id = proc[q].seen
    BY <1>9, StagedStands
  <2>3. Apart(n, proc[q], task[q]) /\ Apart(proc[q], n, task[p])
    BY <1>6, <1>7, <2>1 DEF Apart
  <2>4. QED
    BY <1>6, <1>7, <2>2, <2>3
<1>12. Apart(n, n, task[p])
  BY <1>6, <1>7 DEF Apart
<1>13. QED
  BY <1>1, <1>4, <1>6, <1>8, <1>10, <1>11, <1>12, DirMoves

-----------------------------------------------------------------------------
\* Pruning.
LEMMA ListKeeps == ASSUME LeaseInv, NEW p \in Processes, List(p) PROVE LeaseInv'
<1>1. PICK ids : ids = {dir[d].id : d \in UNION {At(i) : i \in Ids}}
  OBVIOUS
<1>2. ids \subseteq Ids
  BY <1>1 DEF At
<1> DEFINE n == [proc[p] EXCEPT !.pc = "look", !.ids = ids]
<1>3. /\ proc[p].pc = "list" /\ proc' = [proc EXCEPT ![p] = n]
      /\ UNCHANGED <<worktree, made, dir, task>>
  BY <1>1 DEF List, LeaseInv
<1>4. proc[p] \in CacheRun /\ Fits(p, proc[p])
  BY DEF LeaseInv
<1>5. "look" \in Steps
  BY DEF Steps, Pruning
<1>6. /\ n \in CacheRun /\ n.pc = "look" /\ n.staged = proc[p].staged /\ n.fd = proc[p].fd
      /\ n.mode = proc[p].mode /\ n.locks = proc[p].locks
  BY <1>2, <1>4, <1>5 DEF CacheRun
<1> HIDE DEF n
<1>7. proc[p].staged = NoDir /\ ~proc[p].locks /\ p \in Pruners
      /\ (proc[p].mode = "shared" => proc[p].fd \in Dirs)
  BY <1>3, <1>4 DEF Fits, Pruning
<1>8. Fits(p, n)
  BY <1>6, <1>7 DEF Fits, Naming, Making, Pruning
<1>9. QED
  BY <1>3, <1>6, <1>7, <1>8, MovesOn

\* What is left of a process that is done with an id.
LEMMA NextIdFits ==
    ASSUME LeaseInv, NEW p \in Processes, proc[p].pc \in Pruning, NEW i, NEW n, n = NextId(p, i)
    PROVE  /\ n \in CacheRun /\ n.pc = "look" /\ n.staged = NoDir /\ ~n.locks
           /\ n.fd = proc[p].fd /\ n.mode = proc[p].mode
           /\ p \in Pruners /\ proc[p].staged = NoDir
           /\ n.mode = "shared" => n.fd \in Dirs
<1>1. proc[p] \in CacheRun /\ Fits(p, proc[p])
  BY DEF LeaseInv
<1>2. "look" \in Steps
  BY DEF Steps, Pruning
<1>3. proc[p].staged = NoDir /\ p \in Pruners /\ (proc[p].mode = "shared" => proc[p].fd \in Dirs)
  BY <1>1 DEF Fits, Pruning
<1> DEFINE m == [proc[p] EXCEPT !.pc = "look", !.ids = @ \ {i}, !.seen = NoId]
<1>4. /\ m \in CacheRun /\ m.pc = "look" /\ m.staged = NoDir
      /\ m.fd = proc[p].fd /\ m.mode = proc[p].mode
  BY <1>1, <1>2, <1>3 DEF CacheRun
<1>5. n = [m EXCEPT !.alone = NoDir, !.locks = FALSE, !.gone = FALSE]
  BY <1>1 DEF NextId, CacheRun
<1> HIDE DEF m
<1>6. /\ n \in CacheRun /\ n.pc = "look" /\ n.staged = NoDir /\ ~n.locks
      /\ n.fd = proc[p].fd /\ n.mode = proc[p].mode
  BY <1>4, <1>5 DEF CacheRun
<1>7. QED
  BY <1>3, <1>6

LEMMA NextIdKeeps ==
    ASSUME LeaseInv, NEW p \in Processes, proc[p].pc \in Pruning, NEW i,
           proc' = [proc EXCEPT ![p] = NextId(p, i)], UNCHANGED <<worktree, made, dir, task>>
    PROVE  LeaseInv'
<1>1. PICK n : n = NextId(p, i)
  OBVIOUS
<1>2. /\ n \in CacheRun /\ n.pc = "look" /\ n.staged = NoDir /\ ~n.locks
      /\ n.fd = proc[p].fd /\ n.mode = proc[p].mode /\ p \in Pruners
      /\ n.mode = "shared" => n.fd \in Dirs
  BY <1>1, NextIdFits
<1>3. Fits(p, n)
  BY <1>2 DEF Fits, Naming, Making, Pruning
<1>4. proc' = [proc EXCEPT ![p] = n]
  BY <1>1
<1>5. QED
  BY <1>2, <1>3, <1>4, MovesOn

LEMMA LookKeeps == ASSUME LeaseInv, NEW p \in Processes, Look(p) PROVE LeaseInv'
<1>1. proc[p].pc = "look" /\ UNCHANGED <<worktree, made, dir, task>>
  BY DEF Look
<1>2. proc[p] \in CacheRun /\ Fits(p, proc[p])
  BY DEF LeaseInv
<1>3. /\ proc[p].staged = NoDir /\ ~proc[p].locks /\ p \in Pruners
      /\ (proc[p].mode = "shared" => proc[p].fd \in Dirs)
  BY <1>1, <1>2 DEF Fits, Pruning
<1>4. ASSUME NEW i \in proc[p].ids, proc' = [proc EXCEPT ![p] = NextId(p, i)]
      PROVE  LeaseInv'
  BY <1>1, <1>4, NextIdKeeps DEF Pruning
<1>5. ASSUME NEW i \in proc[p].ids,
             proc' = [proc EXCEPT ![p] = [proc[p] EXCEPT !.pc = "acquire", !.seen = i]]
      PROVE  LeaseInv'
  <2> DEFINE n == [proc[p] EXCEPT !.pc = "acquire", !.seen = i]
  <2>1. i \in Ids
    BY <1>2 DEF CacheRun
  <2>2. "acquire" \in Steps
    BY DEF Steps, Pruning
  <2>3. /\ n \in CacheRun /\ n.pc = "acquire" /\ n.seen \in Ids /\ n.staged = NoDir
        /\ n.fd = proc[p].fd /\ n.mode = proc[p].mode /\ ~n.locks
    BY <1>2, <1>3, <2>1, <2>2 DEF CacheRun
  <2>4. proc' = [proc EXCEPT ![p] = n]
    BY <1>5
  <2> HIDE DEF n
  <2>5. Fits(p, n)
    BY <1>3, <2>3 DEF Fits, Naming, Making, Pruning
  <2>6. QED
    BY <1>1, <1>3, <2>3, <2>4, <2>5, MovesOn
<1>6. CASE proc' = [proc EXCEPT ![p] = [proc[p] EXCEPT !.pc = "work"]]
  <2> DEFINE n == [proc[p] EXCEPT !.pc = "work"]
  <2>1. "work" \in Steps
    BY DEF Steps
  <2>2. /\ n \in CacheRun /\ n.pc = "work" /\ n.staged = NoDir
        /\ n.fd = proc[p].fd /\ n.mode = proc[p].mode /\ ~n.locks
    BY <1>2, <1>3, <2>1 DEF CacheRun
  <2>3. proc' = [proc EXCEPT ![p] = n]
    BY <1>6
  <2> HIDE DEF n
  <2>4. Fits(p, n)
    BY <1>3, <2>2 DEF Fits, Naming, Making, Pruning
  <2>5. QED
    BY <1>1, <1>3, <2>2, <2>3, <2>4, MovesOn
<1>7. \/ proc' = [proc EXCEPT ![p] = [proc[p] EXCEPT !.pc = "work"]]
      \/ \E i \in proc[p].ids :
           \/ proc' = [proc EXCEPT ![p] = NextId(p, i)]
           \/ proc' = [proc EXCEPT ![p] = [proc[p] EXCEPT !.pc = "acquire", !.seen = i]]
  BY DEF Look, Goes
<1>8. QED
  BY <1>4, <1>5, <1>6, <1>7

LEMMA AcquireKeeps == ASSUME LeaseInv, NEW p \in Processes, Acquire(p) PROVE LeaseInv'
<1>1. proc[p].pc = "acquire" /\ UNCHANGED <<worktree, made, dir, task>>
  BY DEF Acquire
<1>2. proc[p] \in CacheRun /\ Fits(p, proc[p])
  BY DEF LeaseInv
<1>3. /\ proc[p].staged = NoDir /\ ~proc[p].locks /\ p \in Pruners /\ proc[p].seen \in Ids
      /\ (proc[p].mode = "shared" => proc[p].fd \in Dirs)
  BY <1>1, <1>2 DEF Fits, Pruning
<1>4. ASSUME NEW d \in At(proc[p].seen), proc' = [proc EXCEPT ![p].pc = "alone", ![p].alone = d]
      PROVE  LeaseInv'
  <2> DEFINE n == [proc[p] EXCEPT !.pc = "alone", !.alone = d]
  <2>1. proc' = [proc EXCEPT ![p] = n]
    BY <1>4 DEF LeaseInv
  <2>2. d \in Dirs /\ dir[d].where = "placed" /\ dir[d].id = proc[p].seen
    BY DEF At
  <2>3. "alone" \in Steps
    BY DEF Steps, Pruning
  <2>4. /\ n \in CacheRun /\ n.pc = "alone" /\ n.seen = proc[p].seen /\ n.alone = d
        /\ n.staged = NoDir
        /\ n.fd = proc[p].fd /\ n.mode = proc[p].mode /\ ~n.locks
    BY <1>2, <1>3, <2>2, <2>3 DEF CacheRun
  <2> HIDE DEF n
  <2>5. Fits(p, n)
    BY <1>3, <2>2, <2>4 DEF Fits, Naming, Making, Pruning
  <2>6. QED
    BY <1>1, <1>3, <2>1, <2>4, <2>5, MovesOn
<1>5. CASE proc' = [proc EXCEPT ![p] = NextId(p, proc[p].seen)]
  BY <1>1, <1>5, NextIdKeeps DEF Pruning
<1>6. QED
  BY <1>4, <1>5 DEF Acquire

LEMMA LockAloneKeeps == ASSUME LeaseInv, NEW p \in Processes, LockAlone(p) PROVE LeaseInv'
<1>1. proc[p].pc = "alone" /\ UNCHANGED <<worktree, made, dir, task>>
  BY DEF LockAlone
<1>2. proc[p] \in CacheRun /\ Fits(p, proc[p])
  BY DEF LeaseInv
<1>3. /\ proc[p].staged = NoDir /\ p \in Pruners /\ proc[p].seen \in Ids
      /\ proc[p].alone \in Dirs
      /\ OnePruner => dir[proc[p].alone].where = "placed" /\ dir[proc[p].alone].id = proc[p].seen
      /\ (proc[p].mode = "shared" => proc[p].fd \in Dirs)
  BY <1>1, <1>2 DEF Fits, Pruning
<1>4. CASE proc' = [proc EXCEPT ![p] = NextId(p, proc[p].seen)]
  BY <1>1, <1>4, NextIdKeeps DEF Pruning
<1>5. ASSUME Shared(proc[p].alone) = {}, NEW g \in BOOLEAN, g = ~Alive(worktree, proc[p].seen),
             proc' = [proc EXCEPT ![p] = [proc[p] EXCEPT !.pc = "again", !.locks = TRUE, !.gone = g]]
      PROVE  LeaseInv'
  <2> DEFINE n == [proc[p] EXCEPT !.pc = "again", !.locks = TRUE, !.gone = g]
  <2>1. proc' = [proc EXCEPT ![p] = n]
    BY <1>5
  <2>2. "again" \in Steps
    BY DEF Steps, Pruning
  <2>3. /\ n \in CacheRun /\ n.pc = "again" /\ n.seen = proc[p].seen /\ n.alone = proc[p].alone
        /\ n.staged = NoDir /\ n.gone = g
        /\ n.fd = proc[p].fd /\ n.mode = proc[p].mode /\ n.locks
    BY <1>2, <1>3, <2>2 DEF CacheRun
  <2> HIDE DEF n
  <2>4. Fits(p, n)
    BY <1>3, <1>5, <2>3 DEF Fits, Naming, Making, Pruning
  <2>5. \A q \in Processes : ~(proc[q].mode = "shared" /\ proc[q].fd = proc[p].alone)
                             /\ task[q] # proc[p].alone
    BY <1>5 DEF Shared
  <2>6. ASSUME NEW q \in Processes PROVE Apart(n, proc[q], task[q]) /\ Apart(proc[q], n, task[p])
    <3>1. Apart(proc[q], proc[p], task[p])
      BY DEF LeaseInv
    <3>2. QED
      BY <1>3, <2>3, <2>5, <3>1, WorktreeAssumption DEF Apart
  <2>7. Apart(n, n, task[p])
    BY <1>3, <2>3, <2>5, WorktreeAssumption DEF Apart
  <2>8. QED
    BY <1>1, <2>1, <2>3, <2>4, <2>6, <2>7, Moves
<1>6. \/ proc' = [proc EXCEPT ![p] = NextId(p, proc[p].seen)]
      \/ /\ Shared(proc[p].alone) = {}
         /\ proc' = [proc EXCEPT ![p] = [proc[p] EXCEPT !.pc = "again", !.locks = TRUE,
                                                       !.gone = ~Alive(worktree, proc[p].seen)]]
  BY DEF LockAlone
<1>7. PICK g \in BOOLEAN : g = ~Alive(worktree, proc[p].seen)
  OBVIOUS
<1>8. QED
  BY <1>4, <1>5, <1>6, <1>7

\* The second look finds the worktree gone: with one pruner the directory is
\* still there.
LEMMA LookAgainKeeps == ASSUME LeaseInv, NEW p \in Processes, LookAgain(p) PROVE LeaseInv'
<1>1. proc[p].pc = "again" /\ UNCHANGED <<worktree, made, dir, task>>
  BY DEF LookAgain
<1>2. proc[p] \in CacheRun /\ Fits(p, proc[p])
  BY DEF LeaseInv
<1>3. /\ proc[p].staged = NoDir /\ p \in Pruners /\ proc[p].seen \in Ids /\ proc[p].locks
      /\ proc[p].alone \in Dirs
      /\ OnePruner => dir[proc[p].alone].where = "placed" /\ dir[proc[p].alone].id = proc[p].seen
      /\ ~Alive(worktree, proc[p].seen) => proc[p].gone
      /\ (proc[p].mode = "shared" => proc[p].fd \in Dirs)
  BY <1>1, <1>2 DEF Fits, Pruning
<1>4. CASE proc' = [proc EXCEPT ![p] = NextId(p, proc[p].seen)]
  BY <1>1, <1>4, NextIdKeeps DEF Pruning
<1>5. CASE /\ ~Exists(proc[p].seen)
           /\ proc' = [proc EXCEPT ![p] = [proc[p] EXCEPT !.pc = "aside"]]
  <2> DEFINE n == [proc[p] EXCEPT !.pc = "aside"]
  <2>1. proc' = [proc EXCEPT ![p] = n]
    BY <1>5
  <2>2. "aside" \in Steps
    BY DEF Steps, Pruning
  <2>3. /\ n \in CacheRun /\ n.pc = "aside" /\ n.seen = proc[p].seen /\ n.alone = proc[p].alone
        /\ n.staged = NoDir /\ n.gone = proc[p].gone
        /\ n.fd = proc[p].fd /\ n.mode = proc[p].mode /\ n.locks
    BY <1>2, <1>3, <2>2 DEF CacheRun
  <2> HIDE DEF n
  <2>4. OnePruner => proc[p].gone
    <3>1. OnePruner => proc[p].alone \in At(proc[p].seen)
      BY <1>3 DEF At
    <3>2. QED
      BY <1>3, <1>5, <3>1 DEF Exists
  <2>5. Fits(p, n)
    BY <1>3, <2>3, <2>4 DEF Fits, Naming, Making, Pruning
  <2>6. n.alone # NoDir
    BY <1>3, <2>3, WorktreeAssumption
  <2>7. QED
    BY <1>1, <1>3, <2>1, <2>3, <2>5, <2>6, MovesOn
<1>6. QED
  BY <1>4, <1>5 DEF LookAgain

LEMMA SetAsideKeeps == ASSUME LeaseInv, NEW p \in Processes, SetAside(p) PROVE LeaseInv'
<1>1. proc[p].pc = "aside" /\ UNCHANGED <<worktree, made, task>>
  BY DEF SetAside
<1>2. PICK n : n = NextId(p, proc[p].seen)
  OBVIOUS
<1>3. proc' = [proc EXCEPT ![p] = n]
  BY <1>2 DEF SetAside
<1>4. /\ n \in CacheRun /\ n.pc = "look" /\ n.staged = NoDir /\ ~n.locks
      /\ n.fd = proc[p].fd /\ n.mode = proc[p].mode /\ p \in Pruners
      /\ n.mode = "shared" => n.fd \in Dirs
  BY <1>1, <1>2, NextIdFits DEF Pruning
<1>5. Fits(p, n)'
  BY <1>4 DEF Fits, Naming, Making, Pruning
<1>6. dir \in [Dirs -> [where : {"none", "staging", "placed", "aside"},
                        id : Ids \cup {NoId}, whole : BOOLEAN]]
  BY DEF LeaseInv, DirsOK
<1>7. /\ dir' \in [Dirs -> [where : {"none", "staging", "placed", "aside"},
                            id : Ids \cup {NoId}, whole : BOOLEAN]]
      /\ \A d \in Dirs : dir[d].where # "placed" => dir'[d] = dir[d]
      /\ \A d \in Dirs : dir'[d].where = "placed" => dir'[d] = dir[d]
  BY <1>6 DEF SetAside, At
<1>8. DirsOK'
  BY <1>7 DEF LeaseInv, DirsOK
<1>9. ASSUME NEW q \in Processes, q # p
      PROVE  /\ proc[q].staged # NoDir => dir'[proc[q].staged] = dir[proc[q].staged]
             /\ OnePruner /\ proc[q].pc \in {"alone", "again", "aside"} =>
                  dir'[proc[q].alone].where = "placed" /\ dir'[proc[q].alone].id = proc[q].seen
             /\ Apart(n, proc[q], task[q]) /\ Apart(proc[q], n, task[p])
             /\ n.staged # NoDir => proc[q].staged # n.staged
  <2>1. Apart(proc[q], proc[p], task[p])
    BY DEF LeaseInv
  <2>2. proc[q].staged # NoDir => dir'[proc[q].staged] = dir[proc[q].staged]
    BY <1>7, StagedStands
  <2>3. OnePruner => proc[q].pc \notin {"alone", "again", "aside"}
    BY <1>4, <1>9, StagedStands DEF OnePruner, Pruning
  <2>4. Apart(n, proc[q], task[q]) /\ Apart(proc[q], n, task[p])
    BY <1>4, <2>1 DEF Apart
  <2>5. QED
    BY <1>4, <2>2, <2>3, <2>4
<1>10. Apart(n, n, task[p])
  BY <1>4 DEF Apart
<1>11. QED
  BY <1>1, <1>3, <1>4, <1>5, <1>8, <1>9, <1>10, DirMoves

-----------------------------------------------------------------------------
\* The worktree changes under them all.
LEMMA BecomesKeeps ==
    ASSUME LeaseInv, NEW w \in Worktrees, Becomes(w) PROVE LeaseInv'
<1>1. /\ worktree' = w /\ UNCHANGED <<made, dir, task>>
      /\ proc' = [p \in Processes |->
                    [proc[p] EXCEPT !.gone = proc[p].locks /\ (proc[p].gone \/ ~Alive(w, proc[p].seen))]]
  BY DEF Becomes
<1>2. ASSUME NEW p \in Processes
      PROVE  /\ proc'[p] \in CacheRun
             /\ proc'[p].gone <=> proc[p].locks /\ (proc[p].gone \/ ~Alive(w, proc[p].seen))
             /\ proc'[p].pc = proc[p].pc /\ proc'[p].place = proc[p].place
             /\ proc'[p].id = proc[p].id /\ proc'[p].staged = proc[p].staged
             /\ proc'[p].fd = proc[p].fd /\ proc'[p].mode = proc[p].mode
             /\ proc'[p].seen = proc[p].seen /\ proc'[p].alone = proc[p].alone
             /\ proc'[p].locks = proc[p].locks
  <2>1. proc[p] \in CacheRun
    BY DEF LeaseInv
  <2>2. PICK g \in BOOLEAN : g <=> proc[p].locks /\ (proc[p].gone \/ ~Alive(w, proc[p].seen))
    OBVIOUS
  <2>3. proc'[p] = [proc[p] EXCEPT !.gone = g]
    BY <1>1, <2>1, <2>2 DEF CacheRun, Alive
  <2>4. QED
    BY <2>1, <2>2, <2>3 DEF CacheRun
<1>3. DirsOK'
  BY <1>1 DEF LeaseInv, DirsOK
<1>4. proc' \in [Processes -> CacheRun]
  BY <1>1, <1>2
<1>5. ASSUME NEW p \in Processes PROVE Fits(p, proc[p])'
  <2>1. Fits(p, proc[p])
    BY DEF LeaseInv
  <2>2. proc[p].locks => (proc[p].gone => proc'[p].gone)
    BY <1>2
  <2>3. proc'[p].locks /\ ~Alive(worktree', proc'[p].seen) => proc'[p].gone
    BY <1>1, <1>2
  <2>4. proc[p].pc = "aside" /\ OnePruner => proc'[p].gone
    BY <2>1, <2>2 DEF Fits
  <2>5. QED
    BY <1>1, <1>2, <2>1, <2>3, <2>4 DEF Fits
<1>6. ASSUME NEW p \in Processes, NEW q \in Processes PROVE Apart(proc[p], proc[q], task[q])'
  <2>1. Apart(proc[p], proc[q], task[q])
    BY DEF LeaseInv
  <2>2. QED
    BY <1>1, <1>2, <2>1 DEF Apart
<1>7. \A p, q \in Processes : p # q /\ proc'[p].staged # NoDir => proc'[q].staged # proc'[p].staged
  BY <1>2 DEF LeaseInv
<1>8. QED
  BY <1>1, <1>3, <1>4, <1>5, <1>6, <1>7 DEF LeaseInv

LEMMA WorldKeeps ==
    ASSUME LeaseInv, AddWorktree \/ RemoveWorktree \/ MoveWorktree \/ LockWorktree
    PROVE  LeaseInv'
<1>1. worktree \in Worktrees /\ Unlinked \in Worktrees
  BY WorktreeAssumption DEF LeaseInv, Worktrees, Unlinked
<1>2. \A place \in Places \cup {Away} : [worktree EXCEPT !.at = place] \in Worktrees
  BY <1>1 DEF Worktrees
<1>3. [worktree EXCEPT !.locked = ~@] \in Worktrees
  BY <1>1 DEF Worktrees
<1>4. \A place \in Places : [Unlinked EXCEPT !.linked = TRUE, !.at = place] \in Worktrees
  <2> SUFFICES ASSUME NEW place \in Places
               PROVE  [Unlinked EXCEPT !.linked = TRUE, !.at = place] \in Worktrees
    OBVIOUS
  <2>1. PICK u \in Worktrees : u = Unlinked
    BY <1>1
  <2>2. [u EXCEPT !.linked = TRUE, !.at = place] \in Worktrees
    <3> DEFINE v == [u EXCEPT !.linked = TRUE]
    <3>1. v \in Worktrees
      BY DEF Worktrees
    <3> HIDE DEF v
    <3>2. [v EXCEPT !.at = place] \in Worktrees
      BY <3>1 DEF Worktrees
    <3>3. QED
      BY <3>2 DEF v, Worktrees
  <2>3. QED
    BY <2>1, <2>2
<1>5. \E w \in Worktrees : Becomes(w)
  BY <1>1, <1>2, <1>3, <1>4 DEF AddWorktree, RemoveWorktree, MoveWorktree, LockWorktree
<1>6. QED
  BY <1>5, BecomesKeeps

LEMMA StepKeeps == ASSUME LeaseInv, NEW p \in Processes, Step(p) PROVE LeaseInv'
  BY BeginKeeps, BeginPlainKeeps, ReadTokenKeeps, PublishKeeps, RereadKeeps, ThereKeeps,
     StageKeeps, FillKeeps, PlaceKeeps, OpenLeaseKeeps, LockSharedKeeps, CheckPathKeeps,
     TasksKeep, RemovePrunedKeeps, IdleKeeps, ListKeeps, LookKeeps, AcquireKeeps,
     LockAloneKeeps, LookAgainKeeps, SetAsideKeeps
     DEF Step, End, Crash

LEMMA LeaseNext == LeaseInv /\ [Next]_vars => LeaseInv'
<1> SUFFICES ASSUME LeaseInv, [Next]_vars PROVE LeaseInv'
  OBVIOUS
<1>1. CASE UNCHANGED vars
  BY <1>1 DEF vars, LeaseInv, DirsOK, Fits, Apart
<1>2. CASE \E p \in Processes : Step(p)
  BY <1>2, StepKeeps
<1>3. CASE AddWorktree \/ RemoveWorktree \/ MoveWorktree \/ LockWorktree
  BY <1>3, WorldKeeps
<1>4. QED
  BY <1>1, <1>2, <1>3 DEF Next

LEMMA LeaseAlways == Spec => []LeaseInv
  BY LeaseInit, LeaseNext, PTL DEF Spec

-----------------------------------------------------------------------------
(***************************************************************************)
(* The refinement.  Stand and Use are what LeasedDirectories is given: the *)
(* directories that stand, and those that runs and their tasks work in.    *)
(***************************************************************************)
Workers == Processes \X {"run", "task"}
Stand == [i \in Ids |-> At(i)]
Use == [h \in Workers |->
            IF h[2] = "task" THEN {task[h[1]]} \ {NoDir}
            ELSE {proc[p].fd : p \in {q \in Processes : q = h[1] /\ Holds(q)}}]
InUse == UNION {Use[h] : h \in Workers}

UseOf(p) ==
    /\ Use[<<p, "run">>] = IF Holds(p) THEN {proc[p].fd} ELSE {}
    /\ Use[<<p, "task">>] = IF task[p] = NoDir THEN {} ELSE {task[p]}

LEMMA WorkersAre ==
    /\ \A p \in Processes : <<p, "run">> \in Workers /\ <<p, "task">> \in Workers
    /\ \A h \in Workers : \E p \in Processes : h = <<p, "run">> \/ h = <<p, "task">>
BY DEF Workers

LEMMA UseIsOf == \A p \in Processes : UseOf(p)
<1> SUFFICES ASSUME NEW p \in Processes PROVE UseOf(p)
  OBVIOUS
<1>1. <<p, "run">> \in Workers /\ <<p, "task">> \in Workers
  BY WorkersAre
<1>2. Use[<<p, "run">>] = {proc[q].fd : q \in {r \in Processes : r = p /\ Holds(r)}}
  BY <1>1 DEF Use
<1>3. Use[<<p, "task">>] = {task[p]} \ {NoDir}
  BY <1>1 DEF Use
<1>4. QED
  BY <1>2, <1>3 DEF UseOf

LEMMA UseIsOfNext == \A p \in Processes : UseOf(p)'
<1> SUFFICES ASSUME NEW p \in Processes PROVE UseOf(p)'
  OBVIOUS
<1>1. <<p, "run">> \in Workers /\ <<p, "task">> \in Workers
  BY WorkersAre
<1>2. Use[<<p, "run">>]' = {proc'[q].fd : q \in {r \in Processes : r = p /\ Holds(r)'}}
  BY <1>1 DEF Use, Workers
<1>3. Use[<<p, "task">>]' = {task'[p]} \ {NoDir}
  BY <1>1 DEF Use, Workers
<1>4. QED
  BY <1>2, <1>3 DEF UseOf

\* What is in use is what some run holds, or its tasks.
LEMMA InUseIs ==
    ASSUME NEW d \in InUse
    PROVE  \E p \in Processes : (Holds(p) /\ proc[p].fd = d) \/ (task[p] = d /\ d # NoDir)
<1>1. PICK h \in Workers : d \in Use[h]
  BY DEF InUse
<1>2. PICK p \in Processes : h = <<p, "run">> \/ h = <<p, "task">>
  BY WorkersAre
<1>3. UseOf(p)
  BY UseIsOf
<1>4. QED
  BY <1>1, <1>2, <1>3 DEF UseOf

\* The users whose use does not change.
LEMMA UseStays ==
    ASSUME UNCHANGED task,
           \A p \in Processes : /\ Holds(p)' <=> Holds(p)
                                /\ Holds(p) => proc'[p].fd = proc[p].fd
    PROVE  UNCHANGED Use
<1>1. \A h \in Workers : Use'[h] = Use[h]
  <2> SUFFICES ASSUME NEW h \in Workers PROVE Use'[h] = Use[h]
    OBVIOUS
  <2>1. PICK p \in Processes : h = <<p, "run">> \/ h = <<p, "task">>
    BY WorkersAre
  <2>2. UseOf(p) /\ UseOf(p)'
    BY UseIsOf, UseIsOfNext
  <2>3. QED
    BY <2>1, <2>2 DEF UseOf
<1>2. QED
  BY <1>1 DEF Use, Workers

\* One run takes or leaves its directory.
LEMMA RunUses ==
    ASSUME NEW p \in Processes, UNCHANGED task,
           \A q \in Processes : q # p => (Holds(q)' <=> Holds(q)) /\ proc'[q] = proc[q]
    PROVE  Use' = [Use EXCEPT ![<<p, "run">>] = IF Holds(p)' THEN {proc'[p].fd} ELSE {}]
<1> DEFINE V == IF Holds(p)' THEN {proc'[p].fd} ELSE {}
<1>1. Use'[<<p, "run">>] = V
  BY UseIsOfNext DEF UseOf
<1>2. \A h \in Workers : h # <<p, "run">> => Use'[h] = Use[h]
  <2> SUFFICES ASSUME NEW h \in Workers, h # <<p, "run">> PROVE Use'[h] = Use[h]
    OBVIOUS
  <2>1. PICK q \in Processes : h = <<q, "run">> \/ h = <<q, "task">>
    BY WorkersAre
  <2>2. UseOf(q) /\ UseOf(q)'
    BY UseIsOf, UseIsOfNext
  <2>3. QED
    BY <2>1, <2>2 DEF UseOf
<1>3. /\ Use = [h \in Workers |-> Use[h]] /\ Use' = [h \in Workers |-> Use'[h]]
      /\ <<p, "run">> \in Workers
  BY WorkersAre DEF Use, Workers
<1> HIDE DEF V
<1>4. Use' = [Use EXCEPT ![<<p, "run">>] = V]
  BY <1>1, <1>2, <1>3
<1>5. QED
  BY <1>4 DEF V

\* And so do its tasks.
LEMMA TaskUses ==
    ASSUME NEW p \in Processes, UNCHANGED proc, \A q \in Processes : q # p => task'[q] = task[q]
    PROVE  Use' = [Use EXCEPT ![<<p, "task">>] = IF task'[p] = NoDir THEN {} ELSE {task'[p]}]
<1> DEFINE V == IF task'[p] = NoDir THEN {} ELSE {task'[p]}
<1>1. Use'[<<p, "task">>] = V
  BY UseIsOfNext DEF UseOf
<1>2. \A h \in Workers : h # <<p, "task">> => Use'[h] = Use[h]
  <2> SUFFICES ASSUME NEW h \in Workers, h # <<p, "task">> PROVE Use'[h] = Use[h]
    OBVIOUS
  <2>1. PICK q \in Processes : h = <<q, "run">> \/ h = <<q, "task">>
    BY WorkersAre
  <2>2. UseOf(q) /\ UseOf(q)' /\ (Holds(q)' <=> Holds(q))
    BY UseIsOf, UseIsOfNext DEF Holds
  <2>3. QED
    BY <2>1, <2>2 DEF UseOf
<1>3. /\ Use = [h \in Workers |-> Use[h]] /\ Use' = [h \in Workers |-> Use'[h]]
      /\ <<p, "task">> \in Workers
  BY WorkersAre DEF Use, Workers
<1> HIDE DEF V
<1>4. Use' = [Use EXCEPT ![<<p, "task">>] = V]
  BY <1>1, <1>2, <1>3
<1>5. QED
  BY <1>4 DEF V

\* What stands for an id changes only with the directories placed.
LEMMA StandStays ==
    ASSUME \A d \in Dirs : \/ dir'[d] = dir[d]
                           \/ dir'[d].where # "placed" /\ dir[d].where # "placed"
    PROVE  UNCHANGED Stand /\ \A i \in Ids : UNCHANGED At(i)
<1>1. \A i \in Ids : At(i)' = At(i)
  BY DEF At
<1>2. QED
  BY <1>1 DEF Stand

-----------------------------------------------------------------------------
\* The actions of LeasedDirectories, of Stand and Use.
LEMMA Makes ==
    ASSUME NEW i \in Ids, NEW d \in Dirs, Stand[i] = {}, d \notin InUse,
           \A j \in Ids : d \notin Stand[j],
           Stand' = [Stand EXCEPT ![i] = {d}], UNCHANGED Use
    PROVE  Leased!Next
<1>1. Leased!Make(i, d)
  BY DEF Leased!Make, Leased!InUse, Stand, Use, InUse, Workers
<1>2. QED
  BY <1>1 DEF Leased!Next

LEMMA Takes ==
    ASSUME NEW h \in Workers, NEW i \in Ids, Use[h] = {}, Stand[i] # {},
           Use' = [Use EXCEPT ![h] = Stand[i]], UNCHANGED Stand
    PROVE  Leased!Next
<1>1. Leased!Take(h, i)
  BY DEF Leased!Take, Stand, Use, Workers
<1>2. QED
  BY <1>1 DEF Leased!Next, Workers

LEMMA HandsOn ==
    ASSUME NEW h \in Workers, NEW k \in Workers, Use[h] # {}, Use[k] = {},
           Use' = [Use EXCEPT ![k] = Use[h]], UNCHANGED Stand
    PROVE  Leased!Next
<1>1. Leased!HandOn(h, k)
  BY DEF Leased!HandOn, Stand, Use, Workers
<1>2. QED
  BY <1>1 DEF Leased!Next, Workers

LEMMA Leaves ==
    ASSUME NEW h \in Workers, Use[h] # {}, Use' = [Use EXCEPT ![h] = {}], UNCHANGED Stand
    PROVE  Leased!Next
<1>1. Leased!Leave(h)
  BY DEF Leased!Leave, Stand, Use, Workers
<1>2. QED
  BY <1>1 DEF Leased!Next, Workers

LEMMA Removes ==
    ASSUME NEW i \in Ids, Stand[i] # {}, Stand[i] \cap InUse = {},
           Stand' = [Stand EXCEPT ![i] = {}], UNCHANGED Use
    PROVE  Leased!Next
<1>1. Leased!Remove(i)
  BY DEF Leased!Remove, Leased!InUse, Stand, Use, InUse, Workers
<1>2. QED
  BY <1>1 DEF Leased!Next

-----------------------------------------------------------------------------
\* The steps of WorktreeCache are steps of LeasedDirectories, or none.
Implements == Leased!Next \/ (UNCHANGED Stand /\ UNCHANGED Use)

LEMMA StandsFor ==
    ASSUME LeaseInv, NEW i \in Ids
    PROVE  /\ Stand[i] = At(i) /\ At(i) \subseteq Dirs
           /\ \A d \in At(i) : At(i) = {d} /\ d # NoDir
  BY StandingIsWhole DEF Stand, At

\* A process that holds nothing after as it held nothing before.
LEMMA QuietStep ==
    ASSUME NEW p \in Processes, NEW n, LeaseInv, proc' = [proc EXCEPT ![p] = n],
           UNCHANGED <<dir, task>>,
           (n.mode = "shared" /\ n.pc # "check") <=> Holds(p),
           Holds(p) => n.fd = proc[p].fd
    PROVE  Implements
<1>1. proc'[p] = n /\ \A q \in Processes : q # p => proc'[q] = proc[q]
  BY DEF LeaseInv
<1>2. \A q \in Processes : /\ Holds(q)' <=> Holds(q)
                           /\ Holds(q) => proc'[q].fd = proc[q].fd
  BY <1>1 DEF Holds
<1>3. UNCHANGED Use
  BY <1>2, UseStays
<1>4. UNCHANGED Stand
  BY StandStays
<1>5. QED
  BY <1>3, <1>4 DEF Implements

\* A process ends: it leaves the directory it worked in, if any.
LEMMA EndsStep ==
    ASSUME LeaseInv, NEW p \in Processes, NEW n, ~(n.mode = "shared" /\ n.pc # "check"),
           proc' = [proc EXCEPT ![p] = n], UNCHANGED <<dir, task>>
    PROVE  Implements
<1>1. proc'[p] = n /\ \A q \in Processes : q # p => proc'[q] = proc[q]
  BY DEF LeaseInv
<1>2. ~Holds(p)' /\ \A q \in Processes : q # p => (Holds(q)' <=> Holds(q))
  BY <1>1 DEF Holds
<1>3. Use' = [Use EXCEPT ![<<p, "run">>] = {}]
  BY <1>1, <1>2, RunUses
<1>4. UNCHANGED Stand
  BY StandStays
<1>5. UseOf(p) /\ <<p, "run">> \in Workers
  BY UseIsOf, WorkersAre
<1>6. CASE Holds(p)
  <2>1. Use[<<p, "run">>] # {}
    BY <1>5, <1>6 DEF UseOf
  <2>2. QED
    BY <1>3, <1>4, <1>5, <2>1, Leaves DEF Implements
<1>7. CASE ~Holds(p)
  <2>1. \A q \in Processes : /\ Holds(q)' <=> Holds(q)
                             /\ Holds(q) => proc'[q].fd = proc[q].fd
    BY <1>1, <1>2, <1>7
  <2>2. UNCHANGED Use
    BY <2>1, UseStays
  <2>3. QED
    BY <1>4, <2>2 DEF Implements
<1>8. QED
  BY <1>6, <1>7

\* A process goes on with the directories it has, and they stand.
LEMMA DirStep ==
    ASSUME LeaseInv, NEW p \in Processes, NEW n, proc' = [proc EXCEPT ![p] = n], UNCHANGED task,
           (n.mode = "shared" /\ n.pc # "check") <=> Holds(p),
           Holds(p) => n.fd = proc[p].fd
    PROVE  UNCHANGED Use
<1>1. proc'[p] = n /\ \A q \in Processes : q # p => proc'[q] = proc[q]
  BY DEF LeaseInv
<1>2. \A q \in Processes : /\ Holds(q)' <=> Holds(q)
                           /\ Holds(q) => proc'[q].fd = proc[q].fd
  BY <1>1 DEF Holds
<1>3. QED
  BY <1>2, UseStays

\* Before it works, a run holds nothing.
LEMMA HoldsNot ==
    ASSUME LeaseInv, NEW p \in Processes,
           proc[p].pc \in {"idle", "lock", "check"} \cup Naming \cup Making
    PROVE  ~Holds(p)
<1>1. Fits(p, proc[p])
  BY DEF LeaseInv
<1>2. QED
  BY <1>1 DEF Fits, Holds

LEMMA IdleHoldsNot == Idle.mode # "shared"
BY DEF Idle

LEMMA NamedHoldsNot ==
    ASSUME LeaseInv, NEW p \in Processes, proc[p].pc \in Naming
    PROVE  Named(p).mode = proc[p].mode /\ proc[p].mode = "none"
<1>1. proc[p] \in CacheRun /\ proc[p].mode = "none"
  BY BeforeNaming DEF LeaseInv
<1>2. QED
  BY <1>1 DEF Named, CacheRun

LEMMA AgainHoldsNot ==
    ASSUME LeaseInv, NEW p \in Processes
    PROVE  Again(p).mode # "shared"
<1>1. proc[p] \in CacheRun
  BY DEF LeaseInv
<1>2. [proc[p] EXCEPT !.pc = "there", !.fd = NoDir, !.mode = "none", !.tries = @ + 1].mode = "none"
  BY <1>1 DEF CacheRun
<1>3. QED
  BY <1>2, IdleHoldsNot DEF Again

LEMMA PreparesStep ==
    ASSUME LeaseInv, NEW p \in Processes,
           Begin(p) \/ ReadToken(p) \/ Reread(p) \/ There(p) \/ OpenLease(p) \/ LockShared(p)
    PROVE  Implements
<1>1. ~Holds(p) /\ proc[p] \in CacheRun /\ UNCHANGED <<dir, task>>
  <2>1. proc[p].pc \in {"idle", "lock", "check"} \cup Naming \cup Making
    BY DEF Begin, ReadToken, Reread, There, OpenLease, LockShared, Naming, Making
  <2>2. QED
    BY <2>1, HoldsNot DEF LeaseInv, Begin, ReadToken, Reread, There, OpenLease, LockShared
<1>2. ASSUME NEW n, proc' = [proc EXCEPT ![p] = n], n.mode # "shared" \/ n.pc = "check"
      PROVE  Implements
  BY <1>1, <1>2, QuietStep
<1>3. CASE Begin(p)
  <2>1. PICK n : n = [Idle EXCEPT !.pc = "token", !.place = worktree.at]
    OBVIOUS
  <2>2. n.mode = "none"
    BY <2>1 DEF Idle
  <2>3. QED
    BY <1>2, <1>3, <2>1, <2>2 DEF Begin
<1>4. CASE ReadToken(p) \/ Reread(p)
  <2>1. Named(p).mode = "none" /\ Idle.mode = "none" /\ proc[p].mode = "none"
    BY <1>4, NamedHoldsNot, IdleFits DEF ReadToken, Reread, Naming
  <2>2. [proc[p] EXCEPT !.pc = "publish"].mode = "none"
    BY <1>1, <2>1 DEF CacheRun
  <2>3. \E n \in {Named(p), Idle, [proc[p] EXCEPT !.pc = "publish"]} : proc' = [proc EXCEPT ![p] = n]
    BY <1>4 DEF ReadToken, Reread
  <2>4. QED
    BY <1>2, <2>1, <2>2, <2>3
<1>5. CASE There(p)
  <2>1. PICK pc \in {"open", "stage"} : proc' = [proc EXCEPT ![p] = [proc[p] EXCEPT !.pc = pc]]
    BY <1>5 DEF There, Goes
  <2>2. proc[p].mode = "none"
    BY <1>5, BeforeNaming DEF There, Making
  <2>3. [proc[p] EXCEPT !.pc = pc].mode = "none"
    BY <1>1, <2>2 DEF CacheRun
  <2>4. QED
    BY <1>2, <2>1, <2>3
<1>6. CASE OpenLease(p)
  <2>1. ASSUME NEW d \in At(proc[p].id), proc' = [proc EXCEPT ![p].pc = "lock", ![p].fd = d]
        PROVE  Implements
    <3>1. PICK n : n = [proc[p] EXCEPT !.pc = "lock", !.fd = d]
      OBVIOUS
    <3>2. proc' = [proc EXCEPT ![p] = n]
      BY <2>1, <3>1 DEF LeaseInv
    <3>3. proc[p].mode = "none"
      BY <1>6, BeforeNaming DEF OpenLease, Making
    <3>4. n.mode = "none"
      BY <1>1, <3>1, <3>3 DEF CacheRun
    <3>5. QED
      BY <1>2, <3>2, <3>4
  <2>2. CASE proc' = [proc EXCEPT ![p] = Again(p)]
    BY <1>2, <2>2, AgainHoldsNot
  <2>3. QED
    BY <1>6, <2>1, <2>2 DEF OpenLease
<1>7. CASE LockShared(p)
  <2>1. PICK n : n = [proc[p] EXCEPT !.pc = "check", !.mode = "shared"]
    OBVIOUS
  <2>2. proc' = [proc EXCEPT ![p] = n]
    BY <1>7, <2>1 DEF LockShared, LeaseInv
  <2>3. n.pc = "check"
    BY <1>1, <2>1 DEF CacheRun
  <2>4. QED
    BY <1>2, <2>2, <2>3
<1>8. QED
  BY <1>3, <1>4, <1>5, <1>6, <1>7

\* A step that only changes what a process does or remembers of its pruning.
LEMMA TurnsStep ==
    ASSUME LeaseInv, NEW p \in Processes, NEW n, proc' = [proc EXCEPT ![p] = n],
           UNCHANGED <<dir, task>>, n.mode = proc[p].mode, n.fd = proc[p].fd,
           n.pc # "check", proc[p].pc # "check" \/ proc[p].mode # "shared"
    PROVE  Implements
  BY QuietStep DEF Holds

LEMMA PrunesStep ==
    ASSUME LeaseInv, NEW p \in Processes,
           BeginPlain(p) \/ Publish(p) \/ List(p) \/ Look(p) \/ Acquire(p) \/ LockAlone(p)
           \/ LookAgain(p)
    PROVE  Implements
<1>1. proc[p] \in CacheRun /\ proc[p].pc # "check" /\ UNCHANGED <<dir, task>>
  BY DEF LeaseInv, BeginPlain, Publish, List, Look, Acquire, LockAlone, LookAgain
<1>2. ASSUME NEW n, proc' = [proc EXCEPT ![p] = n],
             n.mode = proc[p].mode, n.fd = proc[p].fd, n.pc # "check"
      PROVE  Implements
  BY <1>1, <1>2, TurnsStep
<1>3. ASSUME NEW pc \in {"list", "reread", "work", "aside"}, Goes(p, pc)
      PROVE  Implements
  <2>1. PICK n : n = [proc[p] EXCEPT !.pc = pc]
    OBVIOUS
  <2>2. n.mode = proc[p].mode /\ n.fd = proc[p].fd /\ n.pc = pc
    BY <1>1, <2>1 DEF CacheRun
  <2>3. QED
    BY <1>2, <1>3, <2>1, <2>2 DEF Goes
<1>4. ASSUME NEW i, proc[p].pc \in Pruning, proc' = [proc EXCEPT ![p] = NextId(p, i)]
      PROVE  Implements
  <2>1. PICK n : n = NextId(p, i)
    OBVIOUS
  <2>2. n.mode = proc[p].mode /\ n.fd = proc[p].fd /\ n.pc = "look"
    BY <1>4, <2>1, NextIdFits
  <2>3. QED
    BY <1>2, <1>4, <2>1, <2>2
<1>5. CASE BeginPlain(p) \/ Publish(p)
  BY <1>3, <1>5 DEF BeginPlain, Publish
<1>6. CASE List(p)
  <2>1. PICK ids : ids = {dir[d].id : d \in UNION {At(i) : i \in Ids}}
    OBVIOUS
  <2>2. PICK n : n = [proc[p] EXCEPT !.pc = "look", !.ids = ids]
    OBVIOUS
  <2>3. proc' = [proc EXCEPT ![p] = n]
    BY <1>6, <2>1, <2>2 DEF List, LeaseInv
  <2>4. n.mode = proc[p].mode /\ n.fd = proc[p].fd /\ n.pc = "look"
    BY <1>1, <2>2 DEF CacheRun
  <2>5. QED
    BY <1>2, <2>3, <2>4
<1>7. CASE Look(p)
  <2>1. proc[p].pc \in Pruning
    BY <1>7 DEF Look, Pruning
  <2>2. ASSUME NEW i,
               proc' = [proc EXCEPT ![p] = [proc[p] EXCEPT !.pc = "acquire", !.seen = i]]
        PROVE  Implements
    <3>1. PICK n : n = [proc[p] EXCEPT !.pc = "acquire", !.seen = i]
      OBVIOUS
    <3>2. n.mode = proc[p].mode /\ n.fd = proc[p].fd /\ n.pc = "acquire"
      BY <1>1, <3>1 DEF CacheRun
    <3>3. QED
      BY <1>2, <2>2, <3>1, <3>2
  <2>3. \/ Goes(p, "work")
        \/ \E i \in proc[p].ids :
             \/ proc' = [proc EXCEPT ![p] = NextId(p, i)]
             \/ proc' = [proc EXCEPT ![p] = [proc[p] EXCEPT !.pc = "acquire", !.seen = i]]
    BY <1>7 DEF Look
  <2>4. QED
    BY <1>3, <1>4, <2>1, <2>2, <2>3
<1>8. CASE Acquire(p)
  <2>1. proc[p].pc \in Pruning
    BY <1>8 DEF Acquire, Pruning
  <2>2. ASSUME NEW d, proc' = [proc EXCEPT ![p].pc = "alone", ![p].alone = d]
        PROVE  Implements
    <3>1. PICK n : n = [proc[p] EXCEPT !.pc = "alone", !.alone = d]
      OBVIOUS
    <3>2. proc' = [proc EXCEPT ![p] = n]
      BY <2>2, <3>1 DEF LeaseInv
    <3>3. n.mode = proc[p].mode /\ n.fd = proc[p].fd /\ n.pc = "alone"
      BY <1>1, <3>1 DEF CacheRun
    <3>4. QED
      BY <1>2, <3>2, <3>3
  <2>3. QED
    BY <1>4, <1>8, <2>1, <2>2 DEF Acquire
<1>9. CASE LockAlone(p)
  <2>1. proc[p].pc \in Pruning
    BY <1>9 DEF LockAlone, Pruning
  <2>2. ASSUME NEW g, proc' = [proc EXCEPT ![p] = [proc[p] EXCEPT !.pc = "again",
                                                     !.locks = TRUE, !.gone = g]]
        PROVE  Implements
    <3>1. PICK n : n = [proc[p] EXCEPT !.pc = "again", !.locks = TRUE, !.gone = g]
      OBVIOUS
    <3>2. n.mode = proc[p].mode /\ n.fd = proc[p].fd /\ n.pc = "again"
      BY <1>1, <3>1 DEF CacheRun
    <3>3. QED
      BY <1>2, <2>2, <3>1, <3>2
  <2>3. PICK g : g = ~Alive(worktree, proc[p].seen)
    OBVIOUS
  <2>4. \/ proc' = [proc EXCEPT ![p] = NextId(p, proc[p].seen)]
        \/ proc' = [proc EXCEPT ![p] = [proc[p] EXCEPT !.pc = "again", !.locks = TRUE, !.gone = g]]
    BY <1>9, <2>3 DEF LockAlone
  <2>5. QED
    BY <1>4, <2>1, <2>2, <2>4
<1>10. CASE LookAgain(p)
  <2>1. proc[p].pc \in Pruning
    BY <1>10 DEF LookAgain, Pruning
  <2>2. proc' = [proc EXCEPT ![p] = NextId(p, proc[p].seen)] \/ Goes(p, "aside")
    BY <1>10 DEF LookAgain, Goes
  <2>3. QED
    BY <1>3, <1>4, <2>1, <2>2
<1>11. QED
  BY <1>5, <1>6, <1>7, <1>8, <1>9, <1>10

\* The run looks whether the path names what it locked, and if so takes it.
LEMMA CheckPathStep == ASSUME LeaseInv, NEW p \in Processes, CheckPath(p) PROVE Implements
<1>1. proc[p].pc = "check" /\ UNCHANGED <<dir, task>>
  BY DEF CheckPath
<1>2. proc[p] \in CacheRun /\ proc[p].id \in Ids /\ proc[p].mode = "shared" /\ ~Holds(p)
  BY <1>1 DEF LeaseInv, Fits, Holds
<1>3. CASE proc' = [proc EXCEPT ![p] = Again(p)]
  <2>1. PICK n : n = Again(p)
    OBVIOUS
  <2>2. n.mode # "shared"
    BY <2>1, AgainHoldsNot
  <2>3. QED
    BY <1>1, <1>2, <1>3, <2>1, <2>2, QuietStep
<1>4. CASE /\ proc[p].fd \in At(proc[p].id)
           /\ proc' = [proc EXCEPT ![p] = [proc[p] EXCEPT !.pc = Works(p), !.place = Away, !.tries = 0]]
  <2>1. PICK n : n = [proc[p] EXCEPT !.pc = Works(p), !.place = Away, !.tries = 0]
    OBVIOUS
  <2>2. n.mode = "shared" /\ n.fd = proc[p].fd /\ n.pc \in {"list", "work"}
    BY <1>2, <2>1 DEF CacheRun, Works
  <2>3. proc'[p] = n /\ \A q \in Processes : q # p => proc'[q] = proc[q]
    BY <1>4, <2>1 DEF LeaseInv
  <2>4. Holds(p)' /\ \A q \in Processes : q # p => (Holds(q)' <=> Holds(q))
    BY <2>2, <2>3 DEF Holds
  <2>5. Use' = [Use EXCEPT ![<<p, "run">>] = {proc[p].fd}]
    BY <1>1, <2>2, <2>3, <2>4, RunUses
  <2>6. UNCHANGED Stand
    BY <1>1, StandStays
  <2>7. Stand[proc[p].id] = {proc[p].fd}
    BY <1>2, <1>4, StandsFor
  <2>8. Use[<<p, "run">>] = {} /\ <<p, "run">> \in Workers
    BY <1>2, UseIsOf, WorkersAre DEF UseOf
  <2>9. Leased!Next
    BY <1>2, <2>5, <2>6, <2>7, <2>8, Takes
  <2>10. QED
    BY <2>9 DEF Implements
<1>5. QED
  BY <1>3, <1>4 DEF CheckPath

\* Its tasks inherit the directory, and leave it.
LEMMA TasksStep ==
    ASSUME LeaseInv, NEW p \in Processes, TaskStarts(p) \/ TaskExits(p)
    PROVE  Implements
<1>1. UNCHANGED <<dir, proc>> /\ UNCHANGED Stand
  BY StandStays DEF TaskStarts, TaskExits
<1>2. /\ UseOf(p) /\ <<p, "run">> \in Workers /\ <<p, "task">> \in Workers
  BY UseIsOf, WorkersAre
<1>3. CASE TaskStarts(p)
  <2>1. Holds(p) /\ task[p] = NoDir /\ task' = [task EXCEPT ![p] = proc[p].fd]
    BY <1>3 DEF TaskStarts
  <2>2. proc[p].fd \in Dirs /\ proc[p].fd # NoDir
    BY <2>1, WorktreeAssumption DEF LeaseInv, Fits, Holds
  <2>3. task'[p] = proc[p].fd /\ \A q \in Processes : q # p => task'[q] = task[q]
    BY <2>1 DEF LeaseInv
  <2>4. Use' = [Use EXCEPT ![<<p, "task">>] = {proc[p].fd}]
    BY <1>1, <2>2, <2>3, TaskUses
  <2>5. Use[<<p, "run">>] = {proc[p].fd} /\ Use[<<p, "task">>] = {}
    BY <1>2, <2>1 DEF UseOf
  <2>6. Leased!Next
    BY <1>1, <1>2, <2>4, <2>5, HandsOn
  <2>7. QED
    BY <2>6 DEF Implements
<1>4. CASE TaskExits(p)
  <2>1. task[p] # NoDir /\ task' = [task EXCEPT ![p] = NoDir]
    BY <1>4 DEF TaskExits
  <2>2. task'[p] = NoDir /\ \A q \in Processes : q # p => task'[q] = task[q]
    BY <2>1 DEF LeaseInv
  <2>3. Use' = [Use EXCEPT ![<<p, "task">>] = {}]
    BY <1>1, <2>2, TaskUses
  <2>4. Use[<<p, "task">>] # {}
    BY <1>2, <2>1 DEF UseOf
  <2>5. Leased!Next
    BY <1>1, <1>2, <2>3, <2>4, Leaves
  <2>6. QED
    BY <2>5 DEF Implements
<1>5. QED
  BY <1>3, <1>4

\* Making a directory aside, and deleting what was set aside.
LEMMA MakingHoldsNot ==
    ASSUME LeaseInv, NEW p \in Processes, proc[p].pc \in Making,
           NEW d, NEW pc \in {"fill", "place", "open"}
    PROVE  /\ ~Holds(p) /\ proc[p] \in CacheRun
           /\ [proc[p] EXCEPT !.pc = pc, !.staged = d].mode = "none"
           /\ [proc[p] EXCEPT !.pc = pc].mode = "none"
<1>1. proc[p] \in CacheRun /\ Fits(p, proc[p])
  BY DEF LeaseInv
<1>2. proc[p].mode = "none"
  BY <1>1 DEF Fits
<1>3. QED
  BY <1>1, <1>2 DEF CacheRun, Holds

LEMMA StageStep == ASSUME LeaseInv, NEW p \in Processes, Stage(p) PROVE Implements
<1>1. PICK d \in Free :
        /\ dir' = [dir EXCEPT ![d] = [where |-> "staging", id |-> proc[p].id, whole |-> FALSE]]
        /\ proc' = [proc EXCEPT ![p].pc = "fill", ![p].staged = d]
  BY DEF Stage
<1>2. proc[p].pc \in Making /\ UNCHANGED task
  BY DEF Stage, Making
<1>3. PICK n : n = [proc[p] EXCEPT !.pc = "fill", !.staged = d]
  OBVIOUS
<1>4. proc' = [proc EXCEPT ![p] = n]
  BY <1>1, <1>3 DEF LeaseInv
<1>5. ~Holds(p) /\ n.mode = "none"
  BY <1>2, <1>3, MakingHoldsNot
<1>6. UNCHANGED Use
  BY <1>2, <1>4, <1>5, DirStep
<1>7. d \in Dirs /\ dir[d].where = "none" /\ DOMAIN dir = Dirs
  BY DEF Free, LeaseInv, DirsOK
<1>8. dir'[d].where = "staging" /\ \A e \in Dirs : e # d => dir'[e] = dir[e]
  BY <1>1, <1>7
<1>9. UNCHANGED Stand
  BY <1>7, <1>8, StandStays
<1>10. QED
  BY <1>6, <1>9 DEF Implements

LEMMA FillStep == ASSUME LeaseInv, NEW p \in Processes, Fill(p) PROVE Implements
<1>1. proc[p].pc = "fill" /\ UNCHANGED task
  BY DEF Fill
<1>2. PICK d : d = proc[p].staged
  OBVIOUS
<1>3. d \in Dirs /\ dir[d].where = "staging"
  BY <1>1, <1>2, StagedIsOwn
<1>4. dir \in [Dirs -> [where : {"none", "staging", "placed", "aside"},
                        id : Ids \cup {NoId}, whole : BOOLEAN]]
  BY DEF LeaseInv, DirsOK
<1>5. \/ dir' = [dir EXCEPT ![d] = [dir[d] EXCEPT !.whole = TRUE]]
      \/ dir' = [dir EXCEPT ![d] = Nothing]
  BY <1>2 DEF Fill
<1>6. dir'[d].where # "placed" /\ \A e \in Dirs : e # d => dir'[e] = dir[e]
  BY <1>3, <1>4, <1>5 DEF Nothing
<1>7. UNCHANGED Stand
  BY <1>3, <1>6, StandStays
<1>8. PICK n : /\ proc' = [proc EXCEPT ![p] = n]
               /\ n \in {[proc[p] EXCEPT !.pc = "place"], Idle}
  BY DEF Fill, Goes
<1>9. "place" \in {"fill", "place", "open"} /\ proc[p].pc \in Making
  BY <1>1 DEF Making
<1>10. ~Holds(p) /\ n.mode = "none"
  BY <1>8, <1>9, MakingHoldsNot, IdleFits
<1>11. UNCHANGED Use
  BY <1>1, <1>8, <1>10, DirStep
<1>12. QED
  BY <1>7, <1>11 DEF Implements

LEMMA PlaceStep == ASSUME LeaseInv, NEW p \in Processes, Place(p) PROVE Implements
<1>1. proc[p].pc = "place" /\ UNCHANGED task
  BY DEF Place
<1>2. PICK d, i : d = proc[p].staged /\ i = proc[p].id
  OBVIOUS
<1>3. /\ d \in Dirs /\ d # NoDir /\ dir[d].where = "staging" /\ dir[d].id = i /\ i \in Ids
      /\ \A q \in Processes : proc[q].fd # d /\ task[q] # d
  BY <1>1, <1>2, StagedIsOwn
<1>4. dir \in [Dirs -> [where : {"none", "staging", "placed", "aside"},
                        id : Ids \cup {NoId}, whole : BOOLEAN]]
  BY DEF LeaseInv, DirsOK
<1>5. PICK n : n = [proc[p] EXCEPT !.pc = "open", !.staged = NoDir]
  OBVIOUS
<1>6. proc' = [proc EXCEPT ![p] = n]
  BY <1>5 DEF Place, LeaseInv
<1>7. "open" \in {"fill", "place", "open"} /\ proc[p].pc \in Making
  BY <1>1 DEF Making
<1>8. ~Holds(p) /\ n.mode = "none"
  BY <1>5, <1>7, MakingHoldsNot
<1>9. UNCHANGED Use
  BY <1>1, <1>6, <1>8, DirStep
<1>10. CASE At(i) # {}
  <2>1. dir' = [dir EXCEPT ![d] = Nothing]
    BY <1>2, <1>10 DEF Place
  <2>2. dir'[d].where = "none" /\ \A e \in Dirs : e # d => dir'[e] = dir[e]
    BY <1>3, <1>4, <2>1 DEF Nothing
  <2>3. UNCHANGED Stand
    BY <1>3, <2>2, StandStays
  <2>4. QED
    BY <1>9, <2>3 DEF Implements
<1>11. CASE At(i) = {}
  <2>1. dir' = [dir EXCEPT ![d] = [dir[d] EXCEPT !.where = "placed"]]
    BY <1>2, <1>11 DEF Place
  <2>2. /\ dir'[d].where = "placed" /\ dir'[d].id = i
        /\ \A e \in Dirs : e # d => dir'[e] = dir[e]
    BY <1>3, <1>4, <2>1
  <2>3. At(i)' = {d} /\ \A j \in Ids : j # i => At(j)' = At(j)
    BY <1>3, <1>11, <2>2 DEF At
  <2>4. Stand' = [Stand EXCEPT ![i] = {d}]
    BY <1>3, <2>3 DEF Stand
  <2>5. Stand[i] = {} /\ \A j \in Ids : d \notin Stand[j]
    BY <1>3, <1>11 DEF Stand, At
  <2>6. d \notin InUse
    BY <1>3, InUseIs
  <2>7. Leased!Next
    BY <1>3, <1>9, <2>4, <2>5, <2>6, Makes
  <2>8. QED
    BY <2>7 DEF Implements
<1>12. QED
  BY <1>10, <1>11

LEMMA RemovePrunedStep ==
    ASSUME LeaseInv, NEW p \in Processes, RemovePruned(p) PROVE Implements
<1>1. proc[p].pc = "work" /\ UNCHANGED task /\ proc[p] \in CacheRun
  BY DEF RemovePruned, LeaseInv
<1>2. PICK n : n = [proc[p] EXCEPT !.pc = "end"]
  OBVIOUS
<1>3. proc' = [proc EXCEPT ![p] = n]
  BY <1>2 DEF RemovePruned, Goes
<1>4. n.pc = "end" /\ n.fd = proc[p].fd /\ n.mode = proc[p].mode
  BY <1>1, <1>2 DEF CacheRun
<1>5. UNCHANGED Use
  BY <1>1, <1>3, <1>4, DirStep DEF Holds
<1>6. \A d \in Dirs : dir'[d] = dir[d] \/ (dir'[d] = Nothing /\ dir[d].where # "placed")
  BY DEF RemovePruned
<1>7. UNCHANGED Stand
  BY <1>6, StandStays DEF Nothing
<1>8. QED
  BY <1>5, <1>7 DEF Implements

\* The directory set aside stands under the id the pruner saw, nobody works in
\* it, and it is the one whose lease the pruner holds alone.
LEMMA AsideIsOwn ==
    ASSUME LeaseInv, OnePruner, NEW p \in Processes, proc[p].pc = "aside"
    PROVE  /\ proc[p].seen \in Ids /\ At(proc[p].seen) = {proc[p].alone}
           /\ proc[p].alone \notin InUse /\ proc[p].gone
<1>1. /\ proc[p].seen \in Ids /\ proc[p].locks /\ proc[p].alone \in Dirs /\ proc[p].gone
      /\ dir[proc[p].alone].where = "placed" /\ dir[proc[p].alone].id = proc[p].seen
  BY DEF LeaseInv, Fits
<1>2. proc[p].alone \in At(proc[p].seen)
  BY <1>1 DEF At
<1>3. At(proc[p].seen) = {proc[p].alone}
  BY <1>1, <1>2, StandingIsWhole
<1>4. \A q \in Processes : /\ ~(proc[q].mode = "shared" /\ proc[q].fd = proc[p].alone)
                           /\ task[q] # proc[p].alone
  BY <1>1 DEF LeaseInv, Apart
<1>5. proc[p].alone \notin InUse
  BY <1>4, InUseIs DEF Holds
<1>6. QED
  BY <1>1, <1>3, <1>5

LEMMA SetAsideStep ==
    ASSUME LeaseInv, OnePruner, NEW p \in Processes, SetAside(p) PROVE Implements
<1>1. proc[p].pc = "aside" /\ UNCHANGED task /\ proc[p].pc \in Pruning /\ proc[p].pc # "check"
  BY DEF SetAside, Pruning
<1>2. PICK i, d : i = proc[p].seen /\ d = proc[p].alone
  OBVIOUS
<1>3. i \in Ids /\ At(i) = {d} /\ d \notin InUse
  BY <1>1, <1>2, AsideIsOwn
<1>4. PICK n : n = NextId(p, i)
  OBVIOUS
<1>5. proc' = [proc EXCEPT ![p] = n]
  BY <1>2, <1>4 DEF SetAside
<1>6. n.pc = "look" /\ n.fd = proc[p].fd /\ n.mode = proc[p].mode
  BY <1>1, <1>4, NextIdFits
<1>7. UNCHANGED Use
  BY <1>1, <1>5, <1>6, DirStep DEF Holds
<1>8. dir \in [Dirs -> [where : {"none", "staging", "placed", "aside"},
                        id : Ids \cup {NoId}, whole : BOOLEAN]]
  BY DEF LeaseInv, DirsOK
<1>9. dir' = [e \in Dirs |-> IF e \in At(i) THEN [dir[e] EXCEPT !.where = "aside"] ELSE dir[e]]
  BY <1>2 DEF SetAside
<1>10. \A e \in Dirs : IF e \in At(i) THEN dir'[e].where = "aside" ELSE dir'[e] = dir[e]
  BY <1>8, <1>9
<1>11. At(i)' = {} /\ \A j \in Ids : j # i => At(j)' = At(j)
  BY <1>10 DEF At
<1>12. Stand' = [Stand EXCEPT ![i] = {}]
  BY <1>3, <1>11 DEF Stand
<1>13. Stand[i] # {} /\ Stand[i] \cap InUse = {}
  BY <1>3, StandsFor
<1>14. Leased!Next
  BY <1>3, <1>7, <1>12, <1>13, Removes
<1>15. QED
  BY <1>14 DEF Implements

LEMMA EndOrCrashStep ==
    ASSUME LeaseInv, NEW p \in Processes, End(p) \/ Crash(p) PROVE Implements
<1>1. PICK n : n = Idle
  OBVIOUS
<1>2. n.mode # "shared"
  BY <1>1, IdleHoldsNot
<1>3. proc' = [proc EXCEPT ![p] = n] /\ UNCHANGED <<dir, task>>
  BY <1>1 DEF End, Crash
<1>4. QED
  BY <1>2, <1>3, EndsStep

LEMMA WorldStep ==
    ASSUME LeaseInv, AddWorktree \/ RemoveWorktree \/ MoveWorktree \/ LockWorktree
    PROVE  Implements
<1>1. PICK w : Becomes(w)
  BY DEF AddWorktree, RemoveWorktree, MoveWorktree, LockWorktree
<1>2. /\ UNCHANGED <<dir, task>>
      /\ proc' = [p \in Processes |->
                    [proc[p] EXCEPT !.gone = proc[p].locks /\ (@ \/ ~Alive(w, proc[p].seen))]]
  BY <1>1 DEF Becomes
<1>3. ASSUME NEW p \in Processes
      PROVE  (Holds(p)' <=> Holds(p)) /\ proc'[p].fd = proc[p].fd
  <2>1. proc[p] \in CacheRun
    BY DEF LeaseInv
  <2>2. PICK g : proc'[p] = [proc[p] EXCEPT !.gone = g]
    BY <1>2
  <2>3. /\ proc'[p].pc = proc[p].pc /\ proc'[p].mode = proc[p].mode
        /\ proc'[p].fd = proc[p].fd
    BY <2>1, <2>2 DEF CacheRun
  <2>4. QED
    BY <2>3 DEF Holds
<1>4. UNCHANGED Use /\ UNCHANGED Stand
  BY <1>2, <1>3, UseStays, StandStays
<1>5. QED
  BY <1>4 DEF Implements

LEMMA StepImplements ==
    ASSUME LeaseInv, OnePruner, NEW p \in Processes, Step(p) PROVE Implements
<1>1. CASE Begin(p) \/ ReadToken(p) \/ Reread(p) \/ There(p) \/ OpenLease(p) \/ LockShared(p)
  BY <1>1, PreparesStep
<1>2. CASE Stage(p) \/ Fill(p) \/ Place(p) \/ RemovePruned(p) \/ SetAside(p)
  BY <1>2, StageStep, FillStep, PlaceStep, RemovePrunedStep, SetAsideStep
<1>3. CASE CheckPath(p) \/ TaskStarts(p) \/ TaskExits(p) \/ End(p) \/ Crash(p)
  BY <1>3, CheckPathStep, TasksStep, EndOrCrashStep
<1>4. CASE \/ BeginPlain(p) \/ Publish(p) \/ List(p) \/ Look(p)
           \/ Acquire(p) \/ LockAlone(p) \/ LookAgain(p)
  BY <1>4, PrunesStep
<1>5. QED
  BY <1>1, <1>2, <1>3, <1>4 DEF Step

LEMMA NextImplements == ASSUME LeaseInv, OnePruner, [Next]_vars PROVE Implements
<1>1. CASE UNCHANGED vars
  <2>1. UNCHANGED <<dir, task, proc>>
    BY <1>1 DEF vars
  <2>2. UNCHANGED Use /\ UNCHANGED Stand
    BY <2>1, UseStays, StandStays DEF Holds
  <2>3. QED
    BY <2>2 DEF Implements
<1>2. CASE \E p \in Processes : Step(p)
  BY <1>2, StepImplements
<1>3. CASE AddWorktree \/ RemoveWorktree \/ MoveWorktree \/ LockWorktree
  BY <1>3, WorldStep
<1>4. QED
  BY <1>1, <1>2, <1>3 DEF Next

LEMMA InitImplements == Init => Leased!Init
<1> SUFFICES ASSUME Init PROVE Leased!Init
  OBVIOUS
<1>1. \A i \in Ids : At(i) = {}
  BY DEF Init, At, Nothing
<1>2. \A p \in Processes : ~Holds(p) /\ task[p] = NoDir
  BY IdleFits DEF Init, Holds
<1>3. \A h \in Workers : Use[h] = {}
  BY <1>2, WorkersAre, UseIsOf DEF UseOf
<1>4. Stand = [i \in Ids |-> {}] /\ Use = [h \in Workers |-> {}]
  <2>1. Use = [h \in Workers |-> Use[h]]
    BY DEF Use
  <2>2. QED
    BY <1>1, <1>3, <2>1 DEF Stand
<1>5. QED
  BY <1>4 DEF Leased!Init, Stand, Use, Workers

-----------------------------------------------------------------------------
(***************************************************************************)
(* The theorems.                                                           *)
(***************************************************************************)

\* The shape of the state, for any number of runs that prune at once: whatever
\* is killed between rename and lock, one directory at most stands under an id
\* and it has its marker and its lease (dir_for, Lease::share, prune).
THEOREM WorktreeTypeCorrect == Spec => []WorktreeTypeOK
<1>1. LeaseInv => WorktreeTypeOK
  <2> SUFFICES ASSUME LeaseInv PROVE WorktreeTypeOK
    OBVIOUS
  <2>1. ASSUME NEW i \in Ids PROVE Cardinality(At(i)) <= 1
    <3>1. CASE At(i) = {}
      BY <3>1, FS_EmptySet
    <3>2. CASE At(i) # {}
      <4>1. PICK d \in At(i) : At(i) = {d}
        BY <3>2, StandingIsWhole
      <4>2. Cardinality({d}) = 1
        BY FS_Singleton
      <4>3. QED
        BY <4>1, <4>2
    <3>3. QED
      BY <3>1, <3>2
  <2>2. \A p \in Processes : proc[p].locks => proc[p].alone # NoDir
    BY StagedStands, WorktreeAssumption
  <2>3. \A d \in Dirs : /\ dir[d].where \in {"none", "staging", "placed", "aside"}
                        /\ dir[d].where = "placed" => dir[d].whole /\ dir[d].id \in Ids
    BY DEF LeaseInv, DirsOK
  <2>4. QED
    BY <2>1, <2>2, <2>3 DEF WorktreeTypeOK, LeaseInv, Worktrees
<1>2. QED
  BY <1>1, LeaseAlways, PTL

\* As long as one run prunes at a time, runs and tasks see LeasedDirectories:
\* they share the directory that stands for their worktree, no other is made
\* for it while it stands, and it is set aside when nobody works in it, however
\* often runs start, are killed and leave tasks behind (prepare, prune).
THEOREM DirectoriesAreLeased == ASSUME OnePruner PROVE Spec => LeasedSpec
<1>1. Init => Leased!Init
  BY InitImplements
<1>2. LeaseInv /\ [Next]_vars => [Leased!Next]_<<Stand, Use>>
  BY NextImplements DEF Implements
<1>3. LeaseInv /\ [Next]_vars =>
        [Leased!Next]_<<[i \in Ids |-> At(i)],
                        [h \in Processes \X {"run", "task"} |->
                            IF h[2] = "task" THEN {task[h[1]]} \ {NoDir}
                            ELSE {proc[p].fd : p \in {q \in Processes : q = h[1] /\ Holds(q)}}]>>
  BY <1>2 DEF Stand, Use, Workers
<1>4. QED
  BY <1>1, <1>3, LeaseAlways, PTL DEF Spec, LeasedSpec, Leased!Spec

\* The steps of LeasedDirectories, of Stand and Use.
LEMMA LeasedSteps ==
    ASSUME Leased!Next
    PROVE  \/ /\ UNCHANGED Use
              /\ \E i \in Ids : \/ /\ Stand[i] = {}
                                   /\ \E d \in Dirs : Stand' = [Stand EXCEPT ![i] = {d}]
                                \/ /\ Stand[i] # {} /\ Stand[i] \cap InUse = {}
                                   /\ Stand' = [Stand EXCEPT ![i] = {}]
           \/ /\ UNCHANGED Stand
              /\ \E h \in Workers :
                    \/ Use' = [Use EXCEPT ![h] = {}]
                    \/ \E i \in Ids : Use' = [Use EXCEPT ![h] = Stand[i]]
                    \/ \E k \in Workers : Use' = [Use EXCEPT ![k] = Use[h]]
<1>1. CASE \E i \in Ids, d \in Dirs : Leased!Make(i, d)
  BY <1>1 DEF Leased!Make, Stand, Use, Workers
<1>2. CASE \E i \in Ids : Leased!Remove(i)
  BY <1>2 DEF Leased!Remove, Leased!InUse, InUse, Stand, Use, Workers
<1>3. CASE \E h \in Workers : Leased!Leave(h)
  BY <1>3 DEF Leased!Leave, Stand, Use, Workers
<1>4. CASE \E h \in Workers, i \in Ids : Leased!Take(h, i)
  <2>1. PICK h \in Workers, i \in Ids : Leased!Take(h, i)
    BY <1>4
  <2>2. Use' = [Use EXCEPT ![h] = Stand[i]]
    BY <2>1 DEF Leased!Take, Stand, Use, Workers
  <2>3. UNCHANGED Stand
    BY <2>1 DEF Leased!Take, Stand
  <2>4. QED
    BY <2>2, <2>3
<1>5. CASE \E h \in Workers, k \in Workers : Leased!HandOn(h, k)
  <2>1. PICK h \in Workers, k \in Workers : Leased!HandOn(h, k)
    BY <1>5
  <2>2. Use' = [Use EXCEPT ![k] = Use[h]]
    BY <2>1 DEF Leased!HandOn, Use, Workers
  <2>3. UNCHANGED Stand
    BY <2>1 DEF Leased!HandOn, Stand
  <2>4. QED
    BY <2>2, <2>3
<1>6. QED
  BY <1>1, <1>2, <1>3, <1>4, <1>5 DEF Leased!Next, Workers

UsesStand(h) == Use[h] = {} \/ \E i \in Ids : Use[h] = Stand[i]

LEMMA UsesStandNext ==
    ASSUME \A h \in Workers : UsesStand(h), Implements
    PROVE  \A h \in Workers : UsesStand(h)'
<1>1. Stand = [i \in Ids |-> Stand[i]] /\ Use = [h \in Workers |-> Use[h]]
  BY DEF Stand, Use
<1>2. CASE UNCHANGED Stand /\ UNCHANGED Use
  BY <1>2 DEF UsesStand
<1>3. CASE /\ UNCHANGED Stand
           /\ \E h \in Workers :
                 \/ Use' = [Use EXCEPT ![h] = {}]
                 \/ \E i \in Ids : Use' = [Use EXCEPT ![h] = Stand[i]]
                 \/ \E k \in Workers : Use' = [Use EXCEPT ![k] = Use[h]]
  <2>1. PICK k, u : /\ k \in Workers
                    /\ Use' = [Use EXCEPT ![k] = u]
                    /\ u = {} \/ \E i \in Ids : u = Stand[i]
    <3>1. PICK h \in Workers : \/ Use' = [Use EXCEPT ![h] = {}]
                               \/ \E i \in Ids : Use' = [Use EXCEPT ![h] = Stand[i]]
                               \/ \E k \in Workers : Use' = [Use EXCEPT ![k] = Use[h]]
      BY <1>3
    <3>2. CASE Use' = [Use EXCEPT ![h] = {}]
      BY <3>2
    <3>3. CASE \E i \in Ids : Use' = [Use EXCEPT ![h] = Stand[i]]
      BY <3>3
    <3>4. CASE \E k \in Workers : Use' = [Use EXCEPT ![k] = Use[h]]
      <4>1. PICK k \in Workers : Use' = [Use EXCEPT ![k] = Use[h]]
        BY <3>4
      <4>2. Use[h] = {} \/ \E i \in Ids : Use[h] = Stand[i]
        BY DEF UsesStand
      <4>3. QED
        BY <4>1, <4>2
    <3>5. QED
      BY <3>1, <3>2, <3>3, <3>4
  <2>2. \A h \in Workers : Use'[h] = IF h = k THEN u ELSE Use[h]
    BY <1>1, <2>1
  <2>3. QED
    BY <1>3, <2>1, <2>2 DEF UsesStand
<1>4. CASE /\ UNCHANGED Use
           /\ \E i \in Ids : \E s : Stand' = [Stand EXCEPT ![i] = s] /\ Stand[i] \cap InUse = {}
  <2>1. PICK i, s : i \in Ids /\ Stand' = [Stand EXCEPT ![i] = s] /\ Stand[i] \cap InUse = {}
    BY <1>4
  <2>2. \A j \in Ids : j # i => Stand'[j] = Stand[j]
    BY <1>1, <2>1
  <2>3. ASSUME NEW h \in Workers, Use[h] = Stand[i] PROVE Use[h] = {}
    BY <2>1, <2>3 DEF InUse
  <2>4. QED
    BY <1>4, <2>2, <2>3 DEF UsesStand
<1>5. QED
  BY <1>2, <1>3, <1>4, LeasedSteps DEF Implements

\* What LeasedDirectories keeps, WorktreeCache keeps: a directory that a run or
\* a task works in is the one that stands for an id, and is neither set aside
\* nor made for another one meanwhile (held, Lease::share, prune).
THEOREM DirectoriesInUseStand == ASSUME OnePruner PROVE Spec => []Leased!InUseStands
<1> DEFINE Good == \A h \in Workers : UsesStand(h)
<1>1. Init => Good
  <2> SUFFICES ASSUME Init, NEW h \in Workers PROVE UsesStand(h)
    OBVIOUS
  <2>1. \A p \in Processes : ~Holds(p) /\ task[p] = NoDir
    BY IdleFits DEF Init, Holds
  <2>2. QED
    BY <2>1, WorkersAre, UseIsOf DEF UseOf, UsesStand
<1>2. Good /\ LeaseInv /\ [Next]_vars => Good'
  BY NextImplements, UsesStandNext
<1>3. Good => Leased!InUseStands
  BY DEF UsesStand, Use, Stand, Workers, Leased!InUseStands
<1>4. QED
  BY <1>1, <1>2, <1>3, LeaseAlways, PTL DEF Spec

\* prune asks whether the worktree exists once more when it holds the lease, so
\* that one which came back is spared: what it sets aside belonged to a
\* worktree that was gone since, as long as one run prunes at a time.
THEOREM ExistingDirectoriesAreSpared == ASSUME OnePruner PROVE Spec => ExistingIsSpared
<1>1. LeaseInv => \A p \in Processes : SetAside(p) => proc[p].gone
  BY AsideIsOwn DEF SetAside
<1>2. LeaseInv /\ [Next]_vars =>
        [\A p \in Processes : SetAside(p) /\ At(proc[p].seen) # {} => proc[p].gone]_vars
  BY <1>1
<1>3. QED
  BY <1>2, LeaseAlways, PTL DEF Spec, ExistingIsSpared

\* A directory stops standing when a pruner sets it aside, and then only.
LEMMA StandsUntilAside ==
    ASSUME LeaseInv, [Next]_vars, NEW d \in Dirs,
           dir[d].where = "placed", dir'[d].where # "placed"
    PROVE  \E p \in Processes : SetAside(p) /\ d \in At(proc[p].seen)
<1>1. dir \in [Dirs -> [where : {"none", "staging", "placed", "aside"},
                        id : Ids \cup {NoId}, whole : BOOLEAN]]
  BY DEF LeaseInv, DirsOK
<1>2. ~UNCHANGED dir
  OBVIOUS
<1>3. \A w : ~Becomes(w)
  BY <1>2 DEF Becomes
<1>4. PICK p \in Processes : Step(p)
  BY <1>2, <1>3 DEF Next, vars, AddWorktree, RemoveWorktree, MoveWorktree, LockWorktree
<1>5. Stage(p) \/ Fill(p) \/ Place(p) \/ RemovePruned(p) \/ SetAside(p)
  BY <1>2, <1>4 DEF Step, Begin, BeginPlain, ReadToken, Publish, Reread, There, OpenLease,
                    LockShared, CheckPath, TaskStarts, TaskExits, End, List, Look, Acquire,
                    LockAlone, LookAgain, Crash
<1>6. ~Stage(p)
  <2> SUFFICES ASSUME Stage(p) PROVE FALSE
    OBVIOUS
  <2>1. PICK e \in Free :
          dir' = [dir EXCEPT ![e] = [where |-> "staging", id |-> proc[p].id, whole |-> FALSE]]
    BY DEF Stage
  <2>2. dir'[d] = dir[d]
    BY <1>1, <2>1 DEF Free
  <2>3. QED
    BY <2>2
<1>7. ~(Fill(p) \/ Place(p))
  <2> SUFFICES ASSUME Fill(p) \/ Place(p) PROVE FALSE
    OBVIOUS
  <2>1. dir[proc[p].staged].where = "staging"
    BY StagedIsOwn DEF Fill, Place
  <2>2. dir'[d] = dir[d]
    BY <1>1, <2>1 DEF Fill, Place
  <2>3. QED
    BY <2>2
<1>8. ~RemovePruned(p)
  BY DEF RemovePruned
<1>9. SetAside(p) /\ d \in At(proc[p].seen)
  <2>1. SetAside(p)
    BY <1>5, <1>6, <1>7, <1>8
  <2>2. QED
    BY <2>1 DEF SetAside
<1>10. QED
  BY <1>9

\* "never one whose lease is held": so it is as long as one run prunes at a
\* time, however many share directories (prune, Lease::acquire_existing).
THEOREM HeldDirectoriesStay == ASSUME OnePruner PROVE Spec => HeldStays
<1>1. ASSUME LeaseInv, [Next]_vars, NEW d \in Dirs,
             dir[d].where = "placed", dir'[d].where # "placed"
      PROVE  Shared(d) = {}
  <2>1. PICK p \in Processes : SetAside(p) /\ d \in At(proc[p].seen)
    BY <1>1, StandsUntilAside
  <2>2. At(proc[p].seen) = {proc[p].alone} /\ proc[p].locks
    BY <1>1, <2>1, AsideIsOwn DEF SetAside, LeaseInv, Fits
  <2>3. \A q \in Processes : ~(proc[q].mode = "shared" /\ proc[q].fd = d) /\ task[q] # d
    BY <1>1, <2>1, <2>2 DEF LeaseInv, Apart
  <2>4. QED
    BY <2>3 DEF Shared
<1>2. LeaseInv /\ [Next]_vars =>
        [\A d \in Dirs : dir[d].where = "placed" /\ dir'[d].where # "placed" => Shared(d) = {}]_vars
  BY <1>1
<1>3. QED
  BY <1>2, LeaseAlways, PTL DEF Spec, HeldStays

===============================================================================
