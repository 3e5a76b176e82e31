---------------------------- MODULE MCRunStatus ----------------------------
(***************************************************************************)
(* A run of two tasks in a chain, and one reader.                          *)
(***************************************************************************)
EXTENDS RunStatus

CONSTANTS t1, t2

Chain == {t1, t2}
ChainAfter == [t \in Chain |-> IF t = t2 THEN {t1} ELSE {}]
ChainLevels == << <<t1>>, <<t2>> >>
=============================================================================
