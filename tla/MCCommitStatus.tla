--------------------------- MODULE MCCommitStatus ---------------------------
EXTENDS CommitStatus, TLC
MCRuns == Permutations(Runs)
=============================================================================
