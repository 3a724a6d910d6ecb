---------------------------- MODULE MCScheduler ----------------------------
(* Three slots and three processes.                                         *)
EXTENDS Scheduler

=============================================================================
