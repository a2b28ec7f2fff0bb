------------------------------- MODULE MCDMap -------------------------------
(***************************************************************************)
(* Instance of DMap for TLC.                                               *)
(***************************************************************************)
EXTENDS DMap

Keys == 1 .. 4
=============================================================================
