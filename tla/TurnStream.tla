----------------------------- MODULE TurnStream -----------------------------
(***************************************************************************)
(* What an adapter's session promises of its turns, whichever goroutine    *)
(* says it: each is opened once and ended at most once, in this order.     *)
(***************************************************************************)
EXTENDS Sequences

VARIABLES opened,   \* the turns prompted or announced
          ends      \* the turns that ended, in order

Ended == {ends[i] : i \in DOMAIN ends}

Init == opened = {} /\ ends = <<>>

Open(t) == t \notin opened /\ opened' = opened \cup {t} /\ UNCHANGED ends
End(t)  == t \in opened \ Ended /\ ends' = Append(ends, t) /\ UNCHANGED opened

Next == (\E t \in opened' : Open(t)) \/ (\E t \in opened : End(t))

Spec == Init /\ [][Next]_<<opened, ends>>
=============================================================================
