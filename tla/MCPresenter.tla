----------------------------- MODULE MCPresenter -----------------------------
(* Instances of Presenter for TLC. *)
EXTENDS Presenter, TLC

TurnSymmetry == Permutations(Turns) \cup Permutations(Tools)
=============================================================================
