----------------------------- MODULE TaskGraph -----------------------------
(***************************************************************************)
(* The graph of a contract: how `validate` of src/src/main.rs puts its     *)
(* tasks into levels or refuses it, and which tasks `affected` selects for *)
(* a set of changed paths.  `order` holds the tasks as the contract lists  *)
(* them, after[t] what t names in `after`, reads[t] its inputs' paths.     *)
(***************************************************************************)
LOCAL INSTANCE Naturals
LOCAL INSTANCE Sequences
LOCAL INSTANCE SequencesExt

Named(order) == {order[i] : i \in DOMAIN order}
Visited(levels) == UNION {Named(levels[l]) : l \in DOMAIN levels}

\* The tasks no dependency is pending of, which are ready at once.
Roots(order, after) ==
    LET free(t) == after[t] = {} IN SelectSeq(order, free)

\* Those the i-th task of a level makes ready: the last they were waiting for.
Freed(order, after, earlier, level, i) ==
    LET until(k) == earlier \cup {level[j] : j \in 1..k}
        free(t) == after[t] \subseteq until(i) /\ ~after[t] \subseteq until(i - 1)
    IN SelectSeq(order, free)

NextLevel(order, after, levels) ==
    IF levels = <<>> THEN Roots(order, after)
    ELSE LET level == Last(levels)
             earlier == Visited(Front(levels))
         IN FlattenSeq([i \in DOMAIN level |-> Freed(order, after, earlier, level, i)])

LevelsOf(order, after) ==
    LET upTo[n \in 0..Len(order)] ==
            IF n = 0 THEN <<>>
            ELSE LET level == NextLevel(order, after, upTo[n - 1])
                 IN IF level = <<>> THEN upTo[n - 1] ELSE Append(upTo[n - 1], level)
    IN upTo[Len(order)]

\* A name twice, an unknown one or a cycle is refused.
Accepts(order, after) ==
    /\ IsInjective(order)
    /\ \A t \in Named(order) : after[t] \subseteq Named(order)
    /\ Visited(LevelsOf(order, after)) = Named(order)

\* Level by level: a task that reads what changed, or rests on one selected.
Affected(order, after, reads, changed) ==
    LET tasks == FlattenSeq(LevelsOf(order, after))
        selected[t \in Named(order)] ==
            reads[t] \cap changed # {} \/ \E name \in after[t] : selected[name]
        isSelected(t) == changed = {} \/ selected[t]
    IN SelectSeq(tasks, isSelected)

=============================================================================
