-------------------------- MODULE MCSchedulerLink --------------------------
(* Instances of SchedulerLink for TLC. *)
EXTENDS SchedulerLink, TLC

CONSTANTS t1, t2

Symmetry == Permutations(Thread)
=============================================================================
