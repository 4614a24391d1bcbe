------------------------------ MODULE OnceOnly ------------------------------
(* What the command ledger promises: an operation has at most one runner at *)
(* a time, a runner that dies with the server is never replaced, and an     *)
(* outcome, once recorded, is final.                                        *)
CONSTANTS Ops, Runners, NoRunner
VARIABLES runner, outcome      \* "none", "ended" or "lost", per operation

TypeOK ==
  /\ runner \in [Ops -> Runners \cup {NoRunner}]
  /\ outcome \in [Ops -> {"none", "ended", "lost"}]

Init ==
  /\ runner = [o \in Ops |-> NoRunner]
  /\ outcome = [o \in Ops |-> "none"]

Take(o, r) ==
  /\ outcome[o] = "none" /\ runner[o] = NoRunner
  /\ runner' = [runner EXCEPT ![o] = r]
  /\ UNCHANGED outcome

GiveBack(o) ==
  /\ runner[o] # NoRunner
  /\ runner' = [runner EXCEPT ![o] = NoRunner]
  /\ UNCHANGED outcome

End(o) ==
  /\ outcome[o] = "none" /\ runner[o] # NoRunner
  /\ runner' = [runner EXCEPT ![o] = NoRunner]
  /\ outcome' \in {[outcome EXCEPT ![o] = "ended"], [outcome EXCEPT ![o] = "lost"]}

\* The server dies: whatever was being run is lost.
Die ==
  /\ runner' = [o \in Ops |-> NoRunner]
  /\ outcome' = [o \in Ops |-> IF runner[o] # NoRunner THEN "lost" ELSE outcome[o]]

\* Nothing is run any more.
Close ==
  /\ runner' = [o \in Ops |-> NoRunner]
  /\ outcome' = [o \in Ops |-> "lost"]

Next ==
  \/ \E o \in Ops : GiveBack(o) \/ End(o) \/ \E r \in Runners : Take(o, r)
  \/ Die \/ Close

Spec == Init /\ [][Next]_<<runner, outcome>>
=============================================================================
