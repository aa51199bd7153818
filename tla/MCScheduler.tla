---------------------------- MODULE MCScheduler ----------------------------
(* Instances of Scheduler for TLC: model values are given in the .cfg. *)
EXTENDS Scheduler
=============================================================================
