---------------------------- MODULE MCQuestions ----------------------------
(* Instances of Questions for TLC. *)
EXTENDS Questions, TLC

ClientSymmetry == Permutations(Clients)
=============================================================================
