---------------------------- MODULE MCRetention ----------------------------
(***************************************************************************)
(* Three or four processes, each with a run of its own, under a budget of  *)
(* one run.                                                                *)
(***************************************************************************)
EXTENDS Retention

CONSTANTS r1, r2, r3, r4

ThreeRuns == {r1, r2, r3}
FourRuns == {r1, r2, r3, r4}
RunSymmetry == Permutations(FourRuns)
=============================================================================
