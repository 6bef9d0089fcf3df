------------------------ MODULE MCCoordinatedRestart ------------------------
(***************************************************************************)
(* Instances of CoordinatedRestart for TLC.                                *)
(***************************************************************************)
EXTENDS CoordinatedRestart

=============================================================================
