-------------------------- MODULE MCStopSignals --------------------------
(***************************************************************************)
(* Two attempts at once, one of which ignores SIGTERM.                     *)
(***************************************************************************)
EXTENDS StopSignals

CONSTANTS g1, g2

TwoGroups == {g1, g2}
OneStubborn == {g2}
=============================================================================
