------------------------------- MODULE LogView -------------------------------
(***************************************************************************)
(* What attaching to a thread promises a reader (omniplex-spec.md,         *)
(* invariant 6): at any moment it shows the first `view' events of the     *)
(* log, and it never goes back unless it lets go of the thread itself.     *)
(***************************************************************************)
EXTENDS Naturals

VARIABLES log,   \* events stored
          view   \* events shown

Init == log = 0 /\ view = 0

Publish == log' = log + 1 /\ UNCHANGED view
Advance == view' \in (view + 1)..log /\ UNCHANGED log
LetGo   == view' = 0 /\ UNCHANGED log

Next == Publish \/ Advance \/ LetGo
Spec == Init /\ [][Next]_<<log, view>>
=============================================================================
