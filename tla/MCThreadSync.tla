---------------------------- MODULE MCThreadSync ----------------------------
(* Instances of ThreadSync for TLC. *)
EXTENDS ThreadSync
=============================================================================
