--------------------------- MODULE MCRunJournal ---------------------------
(***************************************************************************)
(* A small instance of RunJournal: two tasks, enough attempts for one task *)
(* to be tried, withdrawn or lost, and tried again, and enough generations *)
(* for an attempt to be found lost twice over.                             *)
(***************************************************************************)
EXTENDS RunJournal, TLC

CONSTANTS t1, t2

TwoTasks == {t1, t2}

\* Tasks are interchangeable here: no fact orders them.
TaskSymmetry == Permutations(TwoTasks)
=============================================================================
