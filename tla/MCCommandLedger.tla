-------------------------- MODULE MCCommandLedger --------------------------
(* Instances of CommandLedger for TLC. *)
EXTENDS CommandLedger
=============================================================================
