------------------------------ MODULE MCTrain -------------------------------
(***************************************************************************)
(* Instances of Train for TLC.  One slave with two workers, so that a      *)
(* waiter may be a generation behind, one with a single worker.            *)
(***************************************************************************)
EXTENDS Train

TwoAndOne == <<2, 1>>
=============================================================================
