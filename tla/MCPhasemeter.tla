---------------------------- MODULE MCPhasemeter ----------------------------
(***************************************************************************)
(* TLC instance of Phasemeter: a half second is two ticks, so that phases  *)
(* of either sign and the half-second edge itself occur.                   *)
(***************************************************************************)
EXTENDS Phasemeter

MCOffsets == {-1, 2}

=============================================================================
