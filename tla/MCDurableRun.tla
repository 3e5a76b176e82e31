-------------------------- MODULE MCDurableRun --------------------------
(***************************************************************************)
(* Small instances of DurableRun: a chain of two tasks (the second may     *)
(* rest on the first), two independent tasks, two and one that rests on    *)
(* both, and one task alone.  The levels are those TaskGraph computes, and *)
(* that these are right is evaluated for every graph of three tasks.       *)
(***************************************************************************)
EXTENDS DurableRun

CONSTANTS t1, t2, t3

Graph == INSTANCE TaskGraph

OneTask == {t1}
OneAfter == [t \in OneTask |-> {}]
OneLevel == Graph!LevelsOf(<<t1>>, OneAfter)

Chain == {t1, t2}
ChainAfter == [t \in Chain |-> IF t = t2 THEN {t1} ELSE {}]
ChainLevels == Graph!LevelsOf(<<t1, t2>>, ChainAfter)

PairAfter == [t \in Chain |-> {}]
PairLevels == Graph!LevelsOf(<<t1, t2>>, PairAfter)

Join3 == {t1, t2, t3}
JoinAfter == [t \in Join3 |-> IF t = t3 THEN {t1, t2} ELSE {}]
JoinLevels == Graph!LevelsOf(<<t1, t2, t3>>, JoinAfter)

Second == {t2}
Third == {t3}

Order3 == <<t1, t2, t3>>
Ranks(after) == {rank \in [Join3 -> 1..3] : \A t \in Join3 : \A d \in after[t] : rank[d] < rank[t]}

\* validate accepts a graph exactly if its tasks can be ranked below all that
\* depend on them, and then a task is in the level of its lowest rank, once.
ASSUME LevelsAreRight ==
    \A after \in [Join3 -> SUBSET Join3] :
        LET levels == Graph!LevelsOf(Order3, after)
        IN /\ Graph!Accepts(Order3, after) <=> Ranks(after) # {}
           /\ Graph!Accepts(Order3, after) =>
                \A t \in Join3 :
                    LET places == {p \in (DOMAIN levels) \X (1..3) :
                                    p[2] \in DOMAIN levels[p[1]] /\ levels[p[1]][p[2]] = t}
                    IN \E p \in places :
                        /\ places = {p}
                        /\ \A rank \in Ranks(after) : p[1] <= rank[t]
                        /\ \E rank \in Ranks(after) : p[1] = rank[t]

\* affected selects the least set that has every task that reads what changed
\* and every task that rests on one it has.
ASSUME AffectedIsLeast ==
    \A after \in {a \in [Join3 -> SUBSET Join3] : Ranks(a) # {}} :
        \A touched \in SUBSET Join3 :
            LET reads == [t \in Join3 |-> IF t \in touched THEN {"changed"} ELSE {}]
                upward == {s \in SUBSET Join3 :
                            touched \subseteq s /\ \A t \in Join3 : after[t] \cap s # {} => t \in s}
                selected == Graph!Named(Graph!Affected(Order3, after, reads, {"changed"}))
            IN selected \in upward /\ \A s \in upward : selected \subseteq s
=========================================================================
