------------------------------- MODULE MCTasks -------------------------------
(***************************************************************************)
(* Instances of Tasks for TLC.  The periods are those of the firmware, in  *)
(* seconds; two sensors stand for the five, one with several measurements  *)
(* per read (the environmental sensor) and one with a single one.          *)
(***************************************************************************)
EXTENDS Tasks, TLC

MCNumMeas == 0 :> 2 @@ 1 :> 1
==============================================================================
