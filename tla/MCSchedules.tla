---------------------------- MODULE MCSchedules ----------------------------
(* Instances of Schedules for TLC. *)
EXTENDS Schedules, TLC

IdSymmetry == Permutations(Ids)
=============================================================================
