---------------------------- MODULE MCTaskCache ----------------------------
(***************************************************************************)
(* Small instances of TaskCache: three processes that run one task with    *)
(* one or two outputs, a cache that holds one entry and room for one       *)
(* receipt.                                                                *)
(***************************************************************************)
EXTENDS TaskCache, TLC

CONSTANTS p1, p2, p3, o1, o2, r1

ThreeProcesses == {p1, p2, p3}
TwoOutputs == {o1, o2}
OneOther == {r1}
OneOutput == {o1}

\* Processes and outputs are interchangeable.
Symmetry == Permutations(ThreeProcesses) \cup Permutations(TwoOutputs)
SameProcesses == Permutations(ThreeProcesses)
=============================================================================
