--------------------------- MODULE WorktreeCache ---------------------------
(***************************************************************************)
(* The directory a worktree's tasks get as ${worktree_cache}               *)
(* (src/src/worktree_cache.rs).  It is named by the worktree's             *)
(* incarnation: its top level, its git directory and a token in there.     *)
(* Runs make it aside and rename it into place, hold its lease shared and  *)
(* let their tasks inherit it; recorded runs set the directories of        *)
(* worktrees that are gone aside, under the lease held alone, and delete   *)
(* them when their work is done.  Meanwhile the worktree is moved,         *)
(* removed, made again and locked, and processes are killed.               *)
(*                                                                         *)
(* There is one linked worktree; other worktrees of the clone matter only  *)
(* in that their runs prune too.                                           *)
(***************************************************************************)
EXTENDS Integers, FiniteSets

CONSTANTS
    Processes,      \* sykli processes, each of which may run again and again
    Pruners,        \* those whose runs are recorded, and so prune
    Places,         \* where the worktree's top level may be
    Away,           \* it is at none of them
    Dirs,           \* bound: directories there are at a time
    NoDir,          \* none of them
    MaxToken        \* bound: tokens ever made; 0 is no token

ASSUME WorktreeAssumption ==
    /\ Pruners \subseteq Processes
    /\ Away \notin Places
    /\ NoDir \notin Dirs
    /\ MaxToken \in Nat

VARIABLES
    worktree,       \* the worktree as git and the user have it
    made,           \* the last token made
    dir,            \* dir[d]: where directory d is, and whose
    proc,           \* proc[p]: where process p is, and what it remembers
    task            \* task[p]: the directory tasks of p hold the lease of

vars == <<worktree, made, dir, proc, task>>

-----------------------------------------------------------------------------
Tokens == 1..MaxToken
Ids == Places \X Tokens
NoId == <<Away, 0>>

\* linked: its git directory is there; token: what sykli-incarnation holds.
Unlinked == [linked |-> FALSE, at |-> Away, locked |-> FALSE, token |-> 0]

\* A process that does nothing.  place: the top level it resolved; fd: the
\* directory whose lease it has open; mode: how it holds that; tries: how
\* often it found the directory moved; ids: what is left to prune; alone: the
\* lease a pruner has open, and whether it holds it; gone: whether the
\* worktree was gone at some time since (history).
Idle == [pc |-> "idle", place |-> Away, id |-> NoId, staged |-> NoDir,
         fd |-> NoDir, mode |-> "none", tries |-> 0,
         ids |-> {}, seen |-> NoId, alone |-> NoDir, locks |-> FALSE, gone |-> FALSE]

Nothing == [where |-> "none", id |-> NoId, whole |-> FALSE]
At(i) == {d \in Dirs : dir[d].where = "placed" /\ dir[d].id = i}

\* The look of exists: the marker in d names an incarnation that is there.
Alive(w, i) == w.linked /\ w.token = i[2] /\ (w.locked \/ w.at = i[1])
Exists(i) == At(i) # {} /\ Alive(worktree, i)

Shared(d) ==
    {p \in Processes : proc[p].fd = d /\ proc[p].mode = "shared"}
        \cup {p \in Processes : task[p] = d}
Alone(d) == {p \in Processes : proc[p].alone = d /\ proc[p].locks}

Free == {d \in Dirs : /\ dir[d].where = "none"
                      /\ \A p \in Processes :
                            d \notin {proc[p].fd, proc[p].alone, proc[p].staged, task[p]}}

Goes(p, pc) == proc' = [proc EXCEPT ![p].pc = pc]
Works(p) == IF p \in Pruners THEN "list" ELSE "work"

-----------------------------------------------------------------------------
(* prepare: which incarnation is this, and its directory held *)

\* A run starts in the worktree, where it is now.
Begin(p) ==
    /\ proc[p].pc = "idle"
    /\ worktree.linked
    /\ worktree.at # Away
    /\ proc' = [proc EXCEPT ![p] = [Idle EXCEPT !.pc = "token", !.place = worktree.at]]
    /\ UNCHANGED <<worktree, made, dir, task>>

\* A run of a contract that names no placeholder holds nothing.
BeginPlain(p) ==
    /\ proc[p].pc = "idle"
    /\ p \in Pruners
    /\ Goes(p, "list")
    /\ UNCHANGED <<worktree, made, dir, task>>

Named(p) == [proc[p] EXCEPT !.pc = "there", !.id = <<proc[p].place, worktree.token>>]

\* incarnation: the token that is there, or a new one.
ReadToken(p) ==
    /\ proc[p].pc = "token"
    /\ proc' = [proc EXCEPT ![p] =
                    IF worktree.token # 0 THEN Named(p) ELSE [@ EXCEPT !.pc = "publish"]]
    /\ UNCHANGED <<worktree, made, dir, task>>

\* Linked into place, never over another; it may also fail.
Publish(p) ==
    /\ proc[p].pc = "publish"
    /\ Goes(p, "reread")
    /\ \/ /\ worktree.linked /\ worktree.token = 0
          /\ made < MaxToken
          /\ made' = made + 1
          /\ worktree' = [worktree EXCEPT !.token = made']
       \/ UNCHANGED <<worktree, made>>
    /\ UNCHANGED <<dir, task>>

\* Its own, another first run's, or none: an error.
Reread(p) ==
    /\ proc[p].pc = "reread"
    /\ proc' = [proc EXCEPT ![p] = IF worktree.token # 0 THEN Named(p) ELSE Idle]
    /\ UNCHANGED <<worktree, made, dir, task>>

There(p) ==
    /\ proc[p].pc = "there"
    /\ Goes(p, IF At(proc[p].id) # {} THEN "open" ELSE "stage")
    /\ UNCHANGED <<worktree, made, dir, task>>

Stage(p) ==
    /\ proc[p].pc = "stage"
    /\ \E d \in Free :
        /\ dir' = [dir EXCEPT ![d] = [where |-> "staging", id |-> proc[p].id, whole |-> FALSE]]
        /\ proc' = [proc EXCEPT ![p].pc = "fill", ![p].staged = d]
    /\ UNCHANGED <<worktree, made, task>>

\* The marker, the lease and the directory tasks get; or an error.
Fill(p) ==
    /\ proc[p].pc = "fill"
    /\ \/ /\ dir' = [dir EXCEPT ![proc[p].staged].whole = TRUE]
          /\ Goes(p, "place")
       \/ /\ dir' = [dir EXCEPT ![proc[p].staged] = Nothing]
          /\ proc' = [proc EXCEPT ![p] = Idle]
    /\ UNCHANGED <<worktree, made, task>>

\* rename fails onto a directory another run placed first, which will do.
Place(p) ==
    /\ proc[p].pc = "place"
    /\ dir' = [dir EXCEPT ![proc[p].staged] =
                    IF At(proc[p].id) = {} THEN [@ EXCEPT !.where = "placed"] ELSE Nothing]
    /\ proc' = [proc EXCEPT ![p].pc = "open", ![p].staged = NoDir]
    /\ UNCHANGED <<worktree, made, task>>

\* Found moved: look for it, or make it, again, three times in all.
Again(p) ==
    IF proc[p].tries = 2
    THEN Idle
    ELSE [proc[p] EXCEPT !.pc = "there", !.fd = NoDir, !.mode = "none", !.tries = @ + 1]

\* Lease::share opens the lease by its path,
OpenLease(p) ==
    /\ proc[p].pc = "open"
    /\ \/ \E d \in At(proc[p].id) : proc' = [proc EXCEPT ![p].pc = "lock", ![p].fd = d]
       \/ At(proc[p].id) = {} /\ proc' = [proc EXCEPT ![p] = Again(p)]
    /\ UNCHANGED <<worktree, made, dir, task>>

\* waits while a pruner holds it alone,
LockShared(p) ==
    /\ proc[p].pc = "lock"
    /\ Alone(proc[p].fd) = {}
    /\ proc' = [proc EXCEPT ![p].pc = "check", ![p].mode = "shared"]
    /\ UNCHANGED <<worktree, made, dir, task>>

\* Mutant: what is locked is taken for what the path names.
CheckPathNever(p) ==
    /\ proc[p].pc = "check"
    /\ Goes(p, Works(p))
    /\ UNCHANGED <<worktree, made, dir, task>>

\* and looks whether the path still names what it locked.
CheckPath(p) ==
    /\ proc[p].pc = "check"
    /\ proc' = [proc EXCEPT ![p] = IF proc[p].fd \in At(proc[p].id)
                                   THEN [@ EXCEPT !.pc = Works(p), !.place = Away, !.tries = 0]
                                   ELSE Again(p)]
    /\ UNCHANGED <<worktree, made, dir, task>>

-----------------------------------------------------------------------------
(* The run's work: its tasks inherit the lease, and may outlive it *)

Holds(p) == proc[p].mode = "shared" /\ proc[p].pc # "check"

TaskStarts(p) ==
    /\ proc[p].pc = "work"
    /\ Holds(p)
    /\ task[p] = NoDir
    /\ task' = [task EXCEPT ![p] = proc[p].fd]
    /\ UNCHANGED <<worktree, made, dir, proc>>

TaskExits(p) ==
    /\ task[p] # NoDir
    /\ task' = [task EXCEPT ![p] = NoDir]
    /\ UNCHANGED <<worktree, made, dir, proc>>

\* remove_pruned: what was set aside goes, and what a dead maker left.
RemovePruned(p) ==
    /\ proc[p].pc = "work"
    /\ LET mine == {proc[q].staged : q \in Processes}
       IN dir' = [d \in Dirs |-> IF \/ dir[d].where = "aside"
                                    \/ dir[d].where = "staging" /\ d \notin mine
                                 THEN Nothing ELSE dir[d]]
    /\ Goes(p, "end")
    /\ UNCHANGED <<worktree, made, task>>

\* The process ends; a lease its tasks inherited stays theirs.
End(p) ==
    /\ proc[p].pc = "end"
    /\ proc' = [proc EXCEPT ![p] = Idle]
    /\ UNCHANGED <<worktree, made, dir, task>>

-----------------------------------------------------------------------------
(* prune, when the run is recorded *)

List(p) ==
    /\ proc[p].pc = "list"
    /\ proc' = [proc EXCEPT ![p].pc = "look", ![p].ids = {dir[d].id : d \in UNION {At(i) : i \in Ids}}]
    /\ UNCHANGED <<worktree, made, dir, task>>

NextId(p, i) == [proc[p] EXCEPT !.pc = "look", !.ids = @ \ {i}, !.seen = NoId,
                                !.alone = NoDir, !.locks = FALSE, !.gone = FALSE]

Look(p) ==
    /\ proc[p].pc = "look"
    /\ \/ \E i \in proc[p].ids :
            proc' = [proc EXCEPT ![p] =
                        IF Exists(i) THEN NextId(p, i) ELSE [@ EXCEPT !.pc = "acquire", !.seen = i]]
       \/ proc[p].ids = {} /\ Goes(p, "work")
    /\ UNCHANGED <<worktree, made, dir, task>>

\* Lease::acquire_existing opens the lease by its path,
Acquire(p) ==
    /\ proc[p].pc = "acquire"
    /\ LET i == proc[p].seen
       IN \/ \E d \in At(i) : proc' = [proc EXCEPT ![p].pc = "alone", ![p].alone = d]
          \/ At(i) = {} /\ proc' = [proc EXCEPT ![p] = NextId(p, i)]
    /\ UNCHANGED <<worktree, made, dir, task>>

\* and takes it if nobody holds it.
LockAlone(p) ==
    /\ proc[p].pc = "alone"
    /\ proc' = [proc EXCEPT ![p] =
                    IF Shared(proc[p].alone) \cup Alone(proc[p].alone) # {}
                    THEN NextId(p, proc[p].seen)
                    ELSE [@ EXCEPT !.pc = "again", !.locks = TRUE,
                                   !.gone = ~Alive(worktree, proc[p].seen)]]
    /\ UNCHANGED <<worktree, made, dir, task>>

\* Mutant: what was seen before the lease was held decides.
LookOnce(p) ==
    /\ proc[p].pc = "again"
    /\ Goes(p, "aside")
    /\ UNCHANGED <<worktree, made, dir, task>>

LookAgain(p) ==
    /\ proc[p].pc = "again"
    /\ proc' = [proc EXCEPT ![p] = IF Exists(proc[p].seen)
                                   THEN NextId(p, proc[p].seen)
                                   ELSE [@ EXCEPT !.pc = "aside"]]
    /\ UNCHANGED <<worktree, made, dir, task>>

\* The directory at the path, whichever that is now, goes; so does the lease.
SetAside(p) ==
    /\ proc[p].pc = "aside"
    /\ dir' = [d \in Dirs |-> IF d \in At(proc[p].seen)
                              THEN [dir[d] EXCEPT !.where = "aside"] ELSE dir[d]]
    /\ proc' = [proc EXCEPT ![p] = NextId(p, proc[p].seen)]
    /\ UNCHANGED <<worktree, made, task>>

-----------------------------------------------------------------------------
(* What git, the user and the system do *)

\* A process is killed: what it holds is released, except what tasks hold.
Crash(p) ==
    /\ proc[p].pc # "idle"
    /\ proc' = [proc EXCEPT ![p] = Idle]
    /\ UNCHANGED <<worktree, made, dir, task>>

\* The worktree changes; who prunes it may have missed that it was gone.
Becomes(w) ==
    /\ w # worktree
    /\ worktree' = w
    /\ proc' = [p \in Processes |->
                    [proc[p] EXCEPT !.gone = proc[p].locks /\ (@ \/ ~Alive(w, proc[p].seen))]]
    /\ UNCHANGED <<made, dir, task>>

AddWorktree == ~worktree.linked
    /\ \E place \in Places : Becomes([Unlinked EXCEPT !.linked = TRUE, !.at = place])
RemoveWorktree == Becomes(Unlinked)
MoveWorktree == worktree.linked
    /\ \E place \in Places \cup {Away} : Becomes([worktree EXCEPT !.at = place])
LockWorktree == worktree.linked /\ Becomes([worktree EXCEPT !.locked = ~@])

-----------------------------------------------------------------------------
Init ==
    /\ worktree = Unlinked
    /\ made = 0
    /\ dir = [d \in Dirs |-> Nothing]
    /\ proc = [p \in Processes |-> Idle]
    /\ task = [p \in Processes |-> NoDir]

Step(p) ==
    \/ Begin(p) \/ BeginPlain(p) \/ ReadToken(p) \/ Publish(p) \/ Reread(p)
    \/ There(p) \/ Stage(p) \/ Fill(p) \/ Place(p)
    \/ OpenLease(p) \/ LockShared(p) \/ CheckPath(p)
    \/ TaskStarts(p) \/ TaskExits(p) \/ RemovePruned(p) \/ End(p)
    \/ List(p) \/ Look(p) \/ Acquire(p) \/ LockAlone(p) \/ LookAgain(p) \/ SetAside(p)
    \/ Crash(p)

Next ==
    \/ \E p \in Processes : Step(p)
    \/ AddWorktree \/ RemoveWorktree \/ MoveWorktree \/ LockWorktree

Spec == Init /\ [][Next]_vars

-----------------------------------------------------------------------------
(* Properties *)

\* The shape of the state.  One directory at most stands under an id, and it
\* is whole: it was made aside with its marker and its lease.
WorktreeTypeOK ==
    /\ worktree \in [linked : BOOLEAN, at : Places \cup {Away}, locked : BOOLEAN,
                     token : 0..MaxToken]
    /\ made \in 0..MaxToken
    /\ \A d \in Dirs :
        /\ dir[d].where \in {"none", "staging", "placed", "aside"}
        /\ dir[d].where = "placed" => dir[d].whole /\ dir[d].id \in Ids
    /\ \A i \in Ids : Cardinality(At(i)) <= 1
    /\ \A p \in Processes : proc[p].locks => proc[p].alone # NoDir
    /\ task \in [Processes -> Dirs \cup {NoDir}]

\* What runs and tasks see of all this is LeasedDirectories: they share the one
\* directory that stands for their worktree, and it is never set aside while
\* one of them works in it, whatever is pruned, killed or moved meanwhile.  One
\* run prunes at a time here; HeldStays is what becomes of it with two.
Leased == INSTANCE LeasedDirectories WITH
    Directories <- Dirs,
    Holders <- Processes \X {"run", "task"},
    standing <- [i \in Ids |-> At(i)],
    using <- [h \in Processes \X {"run", "task"} |->
                IF h[2] = "task" THEN {task[h[1]]} \ {NoDir}
                ELSE {proc[p].fd : p \in {q \in Processes : q = h[1] /\ Holds(q)}}]
LeasedSpec == Leased!Spec

\* "never one whose lease is held": not so when two runs prune at once, of
\* which one holds the lease of a directory the other has set aside already,
\* and so finds nothing under the id, until a third run has made it again.
HeldStays ==
    [][\A d \in Dirs : dir[d].where = "placed" /\ dir'[d].where # "placed" => Shared(d) = {}]_vars

\* prune sets the directory of a worktree aside only if that worktree was gone
\* at some time since prune held the lease: one that came back before, at the
\* same place with the same git directory, keeps its directory.
ExistingIsSpared ==
    [][\A p \in Processes : SetAside(p) /\ At(proc[p].seen) # {} => proc[p].gone]_vars

=============================================================================
