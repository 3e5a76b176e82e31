-------------------------- MODULE MCWorktreeCache --------------------------
(***************************************************************************)
(* A small instance of WorktreeCache: a run that prunes, and one that does *)
(* not, of a worktree that is made, removed, moved away and back, locked.  *)
(***************************************************************************)
EXTENDS WorktreeCache, TLC

CONSTANTS p1, p2, p3, w1, w2, d1, d2, d3, d4

TwoProcesses == {p1, p2}
ThreeProcesses == {p1, p2, p3}
OnePruner == {p1}
OnePlace == {w1}
TwoPlaces == {w1, w2}
TwoDirs == {d1, d2}
ThreeDirs == {d1, d2, d3}
FourDirs == {d1, d2, d3, d4}

\* Directories are interchangeable.
Symmetry == Permutations(ThreeDirs)
=============================================================================
