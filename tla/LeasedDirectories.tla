------------------------- MODULE LeasedDirectories -------------------------
(***************************************************************************)
(* What the directories of worktree_cache.rs promise to those who work in  *)
(* them, whatever the files and locks behind it: at most one directory     *)
(* stands for an id, whoever works with an id works in the one that        *)
(* stands, and it goes only when nobody does.                              *)
(***************************************************************************)
CONSTANTS
    Ids,            \* what a directory is named by
    Directories,    \* directories ever made
    Holders         \* those who work in one: runs, and tasks that outlive them

VARIABLES
    standing,       \* standing[i]: the directory that stands for i, if any
    using           \* using[h]: the directory h works in, if any

InUse == UNION {using[h] : h \in Holders}

Init ==
    /\ standing = [i \in Ids |-> {}]
    /\ using = [h \in Holders |-> {}]

Make(i, d) ==
    /\ standing[i] = {}
    /\ d \notin InUse
    /\ \A j \in Ids : d \notin standing[j]
    /\ standing' = [standing EXCEPT ![i] = {d}]
    /\ UNCHANGED using

Take(h, i) ==
    /\ using[h] = {}
    /\ standing[i] # {}
    /\ using' = [using EXCEPT ![h] = standing[i]]
    /\ UNCHANGED standing

\* A run hands its directory on to a task.
HandOn(h, k) ==
    /\ using[h] # {}
    /\ using[k] = {}
    /\ using' = [using EXCEPT ![k] = using[h]]
    /\ UNCHANGED standing

Leave(h) ==
    /\ using[h] # {}
    /\ using' = [using EXCEPT ![h] = {}]
    /\ UNCHANGED standing

Remove(i) ==
    /\ standing[i] # {}
    /\ standing[i] \cap InUse = {}
    /\ standing' = [standing EXCEPT ![i] = {}]
    /\ UNCHANGED using

Next ==
    \/ \E i \in Ids : (\E d \in Directories : Make(i, d)) \/ Remove(i)
    \/ \E h \in Holders :
        \/ Leave(h)
        \/ \E i \in Ids : Take(h, i)
        \/ \E k \in Holders : HandOn(h, k)

Spec == Init /\ [][Next]_<<standing, using>>

\* Whoever works in a directory works in the one that stands for an id: nothing
\* is swept away under a run, or under a task that outlived its run.
InUseStands ==
    \A h \in Holders : using[h] = {} \/ \E i \in Ids : using[h] = standing[i]

=============================================================================
