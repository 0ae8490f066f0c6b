---------------------------- MODULE MCScheduler ----------------------------
(* Scheduler for TLC: the workers are interchangeable.                     *)
EXTENDS Scheduler, TLC

WorkerSymmetry == Permutations(Workers)
=============================================================================
