------------------------ MODULE CommandLedgerProofs ------------------------
(***************************************************************************)
(* Proofs about CommandLedger, for every set of commands and every number  *)
(* of connections, crashes and actor exits: its types, the number of times *)
(* a command takes effect, and that the ledger is OnceOnly.                *)
(***************************************************************************)
EXTENDS CommandLedger, FiniteSetTheorems, TLAPS

-----------------------------------------------------------------------------
(* The inductive invariant.                                                *)

\* r has a call in the inbox.
At(r) == \E i \in DOMAIN inbox : inbox[i] = r
\* r holds the claim of its command and has not given it up.
Runs(r) == pc[r] \in {"run", "await", "replied"}
\* Some runner of o was told a result.
Answered(o) == \E r \in Runners : r[1] = o /\ reply[r] # 0
\* The calls for o that nobody waits for any more.
Left(o) == {n \in Conns : At(<<o, n>>) /\ pc[<<o, n>>] # "await"}

\* A frame is of an operation that was issued, over a connection that was
\* made, and has no runner yet.
FramesOK ==
  /\ online => conn \in Conns
  /\ \A r \in frames : pc[r] = "none" /\ r[2] <= conn /\ promise[r[1]] # "new"
  /\ \A r \in Runners : pc[r] # "none" => r[2] <= conn /\ promise[r[1]] # "new"

\* A call is in the inbox once; whoever waits for one has it there; and nothing
\* of the same command is behind a call somebody still waits for.
InboxOK ==
  /\ \A i, j \in DOMAIN inbox : inbox[i] = inbox[j] => i = j
  /\ \A r \in Runners : pc[r] = "await" => At(r)
  /\ \A r \in Runners : At(r) => pc[r] \in {"await", "replied", "done"} /\ r[1] # Delete
  /\ \A i, j \in DOMAIN inbox :
       pc[inbox[i]] = "await" /\ i < j => inbox[j][1] # inbox[i][1]

\* A deleted thread has no inbox.
GoneOK ==
  /\ erasing => gone
  /\ gone => inbox = <<>>

\* A claim has one holder, until the rows go with the thread.
ClaimOK ==
  ~gone =>
    /\ \A r \in Runners : Runs(r) => claims[r[1]] = "taken"
    /\ \A r, s \in Runners : Runs(r) /\ Runs(s) /\ r[1] = s[1] => r = s

\* Once a command has a result no other runner has it and no call for it is
\* left; a recorded result is one that some runner was told.
ReplyOK ==
  /\ \A r \in Runners : reply[r] # 0 => pc[r] \in {"replied", "done"}
  /\ ~gone =>
       /\ \A r \in Runners : reply[r] # 0 =>
            /\ claims[r[1]] # "free"
            /\ \A s \in Runners : s[1] = r[1] /\ Runs(s) => s = r
            /\ \A i \in DOMAIN inbox : inbox[i][1] # r[1]
       /\ \A o \in Ops : claims[o] = "done" => Answered(o)

\* Every effect of a command and every call left behind is paid for by a
\* runner that timed out, or is the one whose result is known.
Counted(o) ==
  ran[o] + Cardinality(Left(o)) <= abandoned[o] + (IF Answered(o) THEN 1 ELSE 0)
CountOK == \A o \in Ops : Counted(o)

IInv == TypeOK /\ FramesOK /\ InboxOK /\ GoneOK /\ ClaimOK /\ ReplyOK /\ CountOK

-----------------------------------------------------------------------------
(* Types.                                                                  *)

LEMMA TypeInit == Init => TypeOK
<1> SUFFICES ASSUME Init PROVE TypeOK
  OBVIOUS
<1>1. ClientTypeOK
  <2>1. conn \in 0 .. MaxConns
    BY LedgerConstants DEF Init
  <2> QED
    BY <2>1 DEF Init, ClientTypeOK
<1>2. RunnerTypeOK
  BY DEF Init, RunnerTypeOK, Steps
<1>3. TableTypeOK
  BY DEF Init, TableTypeOK
<1>4. CountTypeOK
  BY DEF Init, CountTypeOK
<1> QED
  BY <1>1, <1>2, <1>3, <1>4 DEF TypeOK

LEMMA ClientTyped == TypeOK /\ FramesOK /\ [Next]_vars => ClientTypeOK'
<1> SUFFICES ASSUME TypeOK, FramesOK, [Next]_vars PROVE ClientTypeOK'
  OBVIOUS
<1> USE LedgerConstants DEF TypeOK, ClientTypeOK, clientVars, wireVars
<1>1. ASSUME NEW o \in Ops, Issue(o) PROVE ClientTypeOK'
  BY <1>1 DEF Issue, FramesOK, Runners
<1>2. CASE Connect
  BY <1>2 DEF Connect, Resent, Pending, Runners, Conns
<1>3. CASE Disconnect \/ Crash
  BY <1>3 DEF Disconnect, Crash, Lost
<1>4. ASSUME NEW a \in acks, Settle(a) PROVE ClientTypeOK'
  BY <1>4 DEF Settle, Acks
<1>5. ASSUME NEW r \in Runners, Accept(r) \/ RunnerStep(r) PROVE ClientTypeOK'
  <2> r[1] \in Ops /\ r[2] \in Conns
    BY DEF Runners
  <2>1. CASE Accept(r) \/ Claim(r) \/ Send(r) \/ CallTimeout(r) \/ RunDelete(r)
    BY <2>1 DEF Accept, Claim, Send, CallTimeout, RunDelete
  <2>2. ASSUME NEW v \in Nat, Ack(r, v), UNCHANGED <<clientVars, frames>>
        PROVE  ClientTypeOK'
    BY <2>2 DEF Ack, Acks
  <2>3. CASE Replay(r) \/ PollTimeout(r) \/ FinishFailed(r) \/ Finish(r)
    BY <2>2, <2>3 DEF Replay, PollTimeout, FinishFailed, Finish, TableTypeOK, RunnerTypeOK
  <2> QED
    BY <1>5, <2>1, <2>3 DEF RunnerStep
<1>6. CASE Erase \/ Handle \/ Exit \/ UNCHANGED vars
  BY <1>6 DEF Erase, Handle, Exit, vars
<1> QED
  BY <1>1, <1>2, <1>3, <1>4, <1>5, <1>6 DEF Next

\* The call the actor takes is the oldest; the others move up.
LEMMA CallTaken ==
  ASSUME RunnerTypeOK, inbox # <<>>
  PROVE  /\ NextCall[1] \in Runners /\ NextCall[1][1] \in Ops
         /\ NextCall[2] \in Seq(Runners)
         /\ NextCall[1] = inbox[1]
         /\ Len(NextCall[2]) = Len(inbox) - 1
         /\ \A i \in 1 .. Len(inbox) - 1 : NextCall[2][i] = inbox[i + 1]
<1>1. Head(inbox) \in Runners /\ Tail(inbox) \in Seq(Runners)
  BY DEF RunnerTypeOK
<1>2. Head(inbox)[1] \in Ops
  BY <1>1 DEF Runners
<1>3. /\ Head(inbox) = inbox[1] /\ Len(Tail(inbox)) = Len(inbox) - 1
      /\ \A i \in 1 .. Len(inbox) - 1 : Tail(inbox)[i] = inbox[i + 1]
  BY DEF RunnerTypeOK
<1> QED
  BY <1>1, <1>2, <1>3 DEF NextCall

LEMMA ServerTyped ==
  TypeOK /\ [Next]_vars => RunnerTypeOK' /\ TableTypeOK' /\ CountTypeOK'
<1> SUFFICES ASSUME TypeOK, [Next]_vars
    PROVE  RunnerTypeOK' /\ TableTypeOK' /\ CountTypeOK'
  OBVIOUS
<1> USE DEF TypeOK, clientVars, wireVars, tableVars, threadVars, boundVars
<1>1. CASE \/ \E o \in Ops : Issue(o)
           \/ Connect \/ Disconnect \/ \E a \in acks : Settle(a)
           \/ UNCHANGED vars
  BY <1>1 DEF Issue, Connect, Disconnect, Settle, vars, RunnerTypeOK, TableTypeOK,
     CountTypeOK
<1>2. ASSUME NEW r \in Runners, Accept(r) \/ RunnerStep(r)
      PROVE  RunnerTypeOK' /\ TableTypeOK' /\ CountTypeOK'
  <2>0. r[1] \in Ops
    BY DEF Runners
  <2>1. CASE Accept(r) \/ Replay(r) \/ PollTimeout(r)
    BY <2>1 DEF Accept, Replay, PollTimeout, Goes, RunnerTypeOK, TableTypeOK,
       CountTypeOK, Steps
  <2>2. CASE Claim(r) \/ FinishFailed(r)
    BY <2>0, <2>2 DEF Claim, FinishFailed, Released, Goes, RunnerTypeOK, TableTypeOK,
       CountTypeOK, Steps
  <2>3. CASE Send(r)
    <3>1. RunnerTypeOK'
      <4>1. inbox' \in Seq(Runners)
        BY <2>3 DEF Send, RunnerTypeOK
      <4>2. pc' \in [Runners -> Steps]
        BY <2>3 DEF Send, Goes, RunnerTypeOK, Steps
      <4> QED
        BY <2>3, <4>1, <4>2 DEF Send, RunnerTypeOK
    <3> QED
      BY <2>3, <3>1 DEF Send, TableTypeOK, CountTypeOK
  <2>4. CASE CallTimeout(r)
    BY <2>0, <2>4 DEF CallTimeout, Goes, RunnerTypeOK, TableTypeOK, CountTypeOK, Steps
  <2>5. CASE RunDelete(r)
    <3>1. RunnerTypeOK'
      <4>1. inbox' \in Seq(Runners) /\ reply' \in [Runners -> Nat]
        <5>1. CASE gone
          BY <2>5, <5>1 DEF RunDelete, RunnerTypeOK
        <5>2. CASE ~gone
          BY <2>5, <5>2 DEF RunDelete, RunnerTypeOK
        <5> QED
          BY <5>1, <5>2
      <4>2. pc' \in [Runners -> Steps]
        BY <2>5 DEF RunDelete, Goes, RunnerTypeOK, Steps
      <4> QED
        BY <4>1, <4>2 DEF RunnerTypeOK
    <3>2. TableTypeOK'
      <4>1. gone' \in BOOLEAN /\ erasing' \in BOOLEAN
        BY <2>5 DEF RunDelete, TableTypeOK
      <4>2. claims' \in [Ops -> {"free", "taken", "done"}] /\ stored' \in [Ops -> Nat]
        BY <2>5 DEF RunDelete, Erased, TableTypeOK
      <4> QED
        BY <4>1, <4>2 DEF TableTypeOK
    <3>3. CountTypeOK'
      BY <2>5 DEF RunDelete, CountTypeOK
    <3> QED
      BY <3>1, <3>2, <3>3
  <2>6. CASE Finish(r)
    <3>1. RunnerTypeOK' /\ CountTypeOK'
      BY <2>6 DEF Finish, Goes, RunnerTypeOK, Steps, CountTypeOK
    <3>2. TableTypeOK'
      BY <2>6 DEF Finish, TableTypeOK, RunnerTypeOK
    <3> QED
      BY <3>1, <3>2
  <2> QED
    BY <1>2, <2>1, <2>2, <2>3, <2>4, <2>5, <2>6 DEF RunnerStep
<1>3. CASE Handle
  <2>1. inbox # <<>>
    BY <1>3 DEF Handle
  <2>2. RunnerTypeOK'
    BY <1>3, <2>1, CallTaken DEF Handle, Goes, RunnerTypeOK, CountTypeOK, Steps
  <2>3. CountTypeOK'
    BY <1>3, <2>1, CallTaken DEF Handle, CountTypeOK
  <2> QED
    BY <1>3, <2>2, <2>3 DEF Handle, TableTypeOK
<1>4. CASE Erase
  BY <1>4 DEF Erase, Erased, RunnerTypeOK, TableTypeOK, CountTypeOK
<1>5. CASE Exit \/ Crash
  <2>1. RunnerTypeOK'
    <3>1. inbox' = <<>> /\ UNCHANGED reply
      BY <1>5 DEF Exit, ActorExit, Crash
    <3>2. pc' \in [Runners -> Steps]
      BY <1>5 DEF Exit, ActorExit, Crash, RunnerTypeOK, Steps
    <3> QED
      BY <3>1, <3>2 DEF RunnerTypeOK
  <2> QED
    BY <1>5, <2>1 DEF Exit, Crash, TableTypeOK, CountTypeOK
<1> QED
  BY <1>1, <1>2, <1>3, <1>4, <1>5 DEF Next

LEMMA TypeStep == TypeOK /\ FramesOK /\ [Next]_vars => TypeOK'
  BY ClientTyped, ServerTyped DEF TypeOK

-----------------------------------------------------------------------------
(* Each part of the invariant, over every step.                           *)

LEMMA InvInit == Init => IInv
<1> SUFFICES ASSUME Init PROVE IInv
  OBVIOUS
<1>1. FramesOK /\ GoneOK /\ ClaimOK
  BY DEF Init, FramesOK, GoneOK, ClaimOK, Runs, Runners
<1>2. InboxOK
  BY DEF Init, InboxOK, At
<1>3. ReplyOK
  BY DEF Init, ReplyOK
<1>4. CountOK
  <2> SUFFICES ASSUME NEW o \in Ops
      PROVE  Counted(o)
    BY DEF CountOK
  <2>1. Left(o) = {}
    BY DEF Init, Left, At
  <2>2. Cardinality(Left(o)) = 0
    BY <2>1, FS_EmptySet
  <2> QED
    BY <2>2 DEF Init, Counted
<1> QED
  BY <1>1, <1>2, <1>3, <1>4, TypeInit DEF IInv

LEMMA FramesStep == IInv /\ [Next]_vars => FramesOK'
<1> SUFFICES ASSUME IInv, [Next]_vars PROVE FramesOK'
  OBVIOUS
<1> USE DEF IInv, TypeOK, ClientTypeOK, clientVars, wireVars, FramesOK
<1>1. ASSUME NEW o \in Ops, Issue(o) PROVE FramesOK'
  <2>1. /\ online \in BOOLEAN /\ UNCHANGED <<conn, online, pc>>
        /\ promise' = [promise EXCEPT ![o] = "pending"]
    BY <1>1 DEF Issue
  <2>2. \A r \in Runners : r[1] = o => pc[r] = "none"
    BY <1>1 DEF Issue
  <2>3. \A r \in frames' : r \in frames \/ (online /\ r = <<o, conn>>)
    <3> HIDE DEF IInv, TypeOK, ClientTypeOK, FramesOK
    <3>1. frames' = frames \cup (IF online THEN {<<o, conn>>} ELSE {})
      BY <1>1 DEF Issue
    <3>2. CASE online
      <4>1. frames' = frames \cup {<<o, conn>>}
        BY <3>1, <3>2, Zenon
      <4> QED
        BY <4>1, <3>2
    <3>3. CASE ~online
      <4>1. frames' = frames \cup {}
        BY <3>1, <3>3, Zenon
      <4> QED
        BY <4>1
    <3> QED
      BY <3>2, <3>3
  <2>4. \A r \in frames' : pc[r] = "none" /\ r[2] <= conn /\ promise'[r[1]] # "new"
    BY <2>1, <2>2, <2>3, LedgerConstants DEF Runners, Conns
  <2>5. \A r \in Runners : pc[r] # "none" => r[2] <= conn /\ promise'[r[1]] # "new"
    BY <2>1, <2>2 DEF Runners
  <2> QED
    BY <2>1, <2>4, <2>5
<1>2. CASE Connect
  <2>1. /\ conn' = conn + 1 /\ UNCHANGED <<pc, promise>>
        /\ conn + 1 \in Conns
    BY <1>2, LedgerConstants DEF Connect, Conns
  <2>2. \A r \in frames' : r[1] \in Ops /\ r[2] = conn + 1 /\ r \in Runners
    BY <1>2, <2>1 DEF Connect, Resent, Pending, Runners
  <2>3. \A r \in frames' : pc[r] = "none" /\ promise[r[1]] # "new"
    BY <1>2, <2>2, LedgerConstants DEF Connect, Resent, Pending
  <2>4. \A r \in Runners : r[2] \in Conns
    BY DEF Runners
  <2> QED
    BY <2>1, <2>2, <2>3, <2>4, LedgerConstants DEF Conns
<1>3. CASE Disconnect \/ Crash
  BY <1>3 DEF Disconnect, Crash, Lost, RunnerTypeOK
<1>4. ASSUME NEW a \in acks, Settle(a) PROVE FramesOK'
  BY <1>4 DEF Settle, Acks, Runners
<1>5. ASSUME NEW r \in Runners, Accept(r) \/ RunnerStep(r) PROVE FramesOK'
  <2>0. UNCHANGED <<online, conn, promise>> /\ frames' \subseteq frames
    BY <1>5 DEF Accept, RunnerStep, Claim, Replay, PollTimeout, Send, CallTimeout,
       RunDelete, FinishFailed, Finish
  <2>1. CASE Accept(r)
    <3>1. /\ r \in frames /\ frames' = frames \ {r}
          /\ \A s \in Runners : s # r => pc'[s] = pc[s]
      BY <2>1 DEF Accept, Goes, RunnerTypeOK
    <3> QED
      BY <2>0, <3>1
  <2>2. CASE RunnerStep(r)
    <3>1. \A s \in Runners : pc'[s] # "none" <=> pc[s] # "none"
      BY <2>2 DEF RunnerStep, Claim, Replay, PollTimeout, Send, CallTimeout, Hung,
         RunDelete, FinishFailed, Finish, Goes, RunnerTypeOK
    <3> QED
      BY <2>0, <3>1
  <2> QED
    BY <1>5, <2>1, <2>2
<1>6. CASE Erase \/ UNCHANGED vars
  BY <1>6 DEF Erase, vars
<1>7. CASE Handle
  <2>1. inbox # <<>> /\ UNCHANGED <<online, conn, promise, frames>>
    BY <1>7 DEF Handle
  <2>2. \A s \in Runners : pc'[s] # "none" <=> pc[s] # "none"
    BY <1>7, <2>1, CallTaken DEF Handle, Goes, RunnerTypeOK
  <2> QED
    BY <2>1, <2>2
<1>8. CASE Exit
  <2>1. UNCHANGED <<online, conn, promise, frames>>
    BY <1>8 DEF Exit
  <2>2. \A s \in Runners : pc'[s] # "none" <=> pc[s] # "none"
    BY <1>8 DEF Exit, ActorExit, Hung, RunnerTypeOK
  <2> QED
    BY <2>1, <2>2
<1> QED
  BY <1>1, <1>2, <1>3, <1>4, <1>5, <1>6, <1>7, <1>8 DEF Next

LEMMA GoneStep == IInv /\ [Next]_vars => GoneOK'
<1> SUFFICES ASSUME IInv, [Next]_vars PROVE GoneOK'
  OBVIOUS
<1> USE DEF IInv, GoneOK, threadVars
<1>1. ASSUME NEW r \in Runners, RunDelete(r) PROVE GoneOK'
  BY <1>1 DEF RunDelete
<1>2. ASSUME NEW r \in Runners, Send(r) PROVE GoneOK'
  BY <1>2 DEF Send
<1>3. ASSUME NEW r \in Runners, Accept(r) \/ Claim(r) \/ Replay(r) \/ PollTimeout(r)
               \/ CallTimeout(r) \/ FinishFailed(r) \/ Finish(r)
      PROVE  GoneOK'
  BY <1>3 DEF Accept, Claim, Replay, PollTimeout, CallTimeout, FinishFailed, Finish
<1>4. CASE \/ \E o \in Ops : Issue(o)
           \/ Connect \/ Disconnect \/ \E a \in acks : Settle(a)
           \/ UNCHANGED vars
  BY <1>4 DEF Issue, Connect, Disconnect, Settle, vars
<1>5. CASE Erase \/ Handle \/ Exit \/ Crash
  BY <1>5 DEF Erase, Handle, Exit, ActorExit, Crash
<1> QED
  BY <1>1, <1>2, <1>3, <1>4, <1>5 DEF Next, RunnerStep

LEMMA ClaimStep == IInv /\ [Next]_vars => ClaimOK'
<1> SUFFICES ASSUME IInv, [Next]_vars, ~gone' PROVE ClaimOK'
  BY DEF ClaimOK
<1>0. ~gone /\ ~erasing
  BY DEF IInv, GoneOK, Next, Issue, Connect, Disconnect, Settle, Accept, RunnerStep, Claim, Replay, PollTimeout,
     Send, CallTimeout, RunDelete, FinishFailed, Finish, Erase, Handle, Exit, Crash, vars, threadVars
<1>1. /\ \A r \in Runners : Runs(r) => claims[r[1]] = "taken"
      /\ \A r, s \in Runners : Runs(r) /\ Runs(s) /\ r[1] = s[1] => r = s
  BY <1>0 DEF IInv, ClaimOK
<1> USE DEF IInv, TypeOK, RunnerTypeOK, TableTypeOK, tableVars
<1>2. ASSUME UNCHANGED claims, \A s \in Runners : Runs(s)' => Runs(s) PROVE ClaimOK'
  BY <1>1, <1>2 DEF ClaimOK
<1>3. ASSUME NEW r \in Runners, Claim(r) PROVE ClaimOK'
  <2>1. /\ claims' = [claims EXCEPT ![r[1]] = "taken"] /\ r[1] \in Ops
        /\ \A s \in Runners : s[1] \in Ops
    BY <1>3 DEF Claim, Runners
  <2>2. \A s \in Runners : s[1] = r[1] => ~Runs(s)
    BY <1>1, <1>3 DEF Claim, MayClaim
  <2>3. \A s \in Runners : Runs(s)' => Runs(s) \/ s = r
    BY <1>3 DEF Claim, Goes, Runs
  <2> QED
    BY <1>1, <2>1, <2>2, <2>3 DEF ClaimOK
<1>4. ASSUME NEW r \in Runners, FinishFailed(r) \/ Finish(r) PROVE ClaimOK'
  <2>1. /\ Runs(r) /\ r[1] \in Ops
        /\ \A s \in Runners : s[1] \in Ops
    BY <1>4 DEF FinishFailed, Finish, Runs, Runners
  <2>2. \A o \in Ops : o # r[1] => claims'[o] = claims[o]
    BY <1>4 DEF FinishFailed, Finish, Released
  <2>3. \A s \in Runners : Runs(s)' => Runs(s) /\ s # r
    BY <1>4 DEF FinishFailed, Finish, Goes, Runs
  <2> QED
    BY <1>1, <2>1, <2>2, <2>3 DEF ClaimOK
<1>5. ASSUME NEW r \in Runners, Accept(r) \/ Replay(r) \/ PollTimeout(r) \/ Send(r) \/ CallTimeout(r)
      PROVE  ClaimOK'
  <2>1. UNCHANGED claims
    BY <1>5 DEF Accept, Replay, PollTimeout, Send, CallTimeout
  <2>2. \A s \in Runners : Runs(s)' => Runs(s)
    BY <1>5 DEF Accept, Replay, PollTimeout, Send, CallTimeout, Goes, Runs
  <2> QED
    BY <1>2, <2>1, <2>2
<1>6. ASSUME NEW r \in Runners, RunDelete(r) PROVE FALSE
  BY <1>0, <1>6 DEF RunDelete
<1>7. CASE \/ \E o \in Ops : Issue(o)
           \/ Connect \/ Disconnect \/ \E a \in acks : Settle(a)
           \/ UNCHANGED vars
  BY <1>2, <1>7 DEF Issue, Connect, Disconnect, Settle, vars, Runs
<1>8. CASE Handle
  <2>1. UNCHANGED claims /\ inbox # <<>>
    BY <1>8 DEF Handle
  <2>2. \A s \in Runners : Runs(s)' => Runs(s)
    BY <1>8, <2>1, CallTaken DEF Handle, Goes, Runs
  <2> QED
    BY <1>2, <2>1, <2>2
<1>9. CASE Exit \/ Crash
  BY <1>2, <1>9 DEF Exit, ActorExit, Hung, Crash, Runs
<1> QED
  BY <1>0, <1>3, <1>4, <1>5, <1>6, <1>7, <1>8, <1>9 DEF Next, RunnerStep, Erase

LEMMA InboxStep == IInv /\ [Next]_vars => InboxOK'
<1> SUFFICES ASSUME IInv, [Next]_vars PROVE InboxOK'
  OBVIOUS
<1>0. pc \in [Runners -> Steps] /\ inbox \in Seq(Runners) /\ InboxOK
  BY DEF IInv, TypeOK, RunnerTypeOK
\* The inbox is as it was, and no runner is in it or waits that was not.
<1>1. ASSUME UNCHANGED inbox,
             \A r \in Runners : /\ pc'[r] = "await" => pc[r] = "await"
                                /\ pc[r] \in {"await", "replied", "done"} =>
                                    pc'[r] \in {"await", "replied", "done"}
      PROVE  InboxOK'
  <2>1. \A i \in DOMAIN inbox : inbox[i] \in Runners
    BY <1>0
  <2>2. \A r \in Runners : At(r)' <=> At(r)
    BY <1>1 DEF At
  <2>3. \A i, j \in DOMAIN inbox' : inbox'[i] = inbox'[j] => i = j
    BY <1>0, <1>1 DEF InboxOK
  <2>4. \A i, j \in DOMAIN inbox' :
          pc'[inbox'[i]] = "await" /\ i < j => inbox'[j][1] # inbox'[i][1]
    BY <1>0, <1>1, <2>1 DEF InboxOK
  <2>5. /\ \A r \in Runners : pc'[r] = "await" => At(r)'
        /\ \A r \in Runners : At(r)' => pc'[r] \in {"await", "replied", "done"} /\ r[1] # Delete
    BY <1>0, <1>1, <2>2 DEF InboxOK
  <2> QED
    BY <2>3, <2>4, <2>5 DEF InboxOK
\* The inbox is emptied, and no runner waits.
<1>2. ASSUME inbox' = <<>>, \A r \in Runners : pc'[r] # "await" PROVE InboxOK'
  BY <1>2 DEF InboxOK, At
<1>3. ASSUME NEW r \in Runners, Send(r) PROVE InboxOK'
  <2>1. CASE gone
    BY <1>0, <1>1, <1>3, <2>1 DEF Send, Goes
  <2>2. CASE ~gone
    <3>1. /\ pc[r] = "run" /\ r[1] # Delete
          /\ pc' = [pc EXCEPT ![r] = "await"] /\ inbox' = Append(inbox, r)
      BY <1>3, <2>2 DEF Send, Goes
    <3>2. /\ ~At(r)
          /\ \A s \in Runners : pc[s] = "await" => s[1] # r[1]
      BY <2>2, <3>1, <1>0 DEF IInv, ClaimOK, Runs, InboxOK
    <3>3. /\ Len(inbox) \in Nat /\ DOMAIN inbox = 1 .. Len(inbox)
          /\ DOMAIN inbox' = 1 .. Len(inbox) + 1
          /\ inbox'[Len(inbox) + 1] = r
          /\ \A i \in DOMAIN inbox : inbox'[i] = inbox[i] /\ inbox[i] \in Runners
      BY <1>0, <3>1
    <3>4. /\ pc'[r] = "await"
          /\ \A s \in Runners : s # r => pc'[s] = pc[s]
      BY <1>0, <3>1
    <3>5. \A i \in DOMAIN inbox : inbox[i] # r
      BY <3>2 DEF At
    <3>6. \A i, j \in DOMAIN inbox' : inbox'[i] = inbox'[j] => i = j
      BY <1>0, <3>3, <3>5 DEF InboxOK
    <3>7. \A s \in Runners : pc'[s] = "await" => At(s)'
      BY <1>0, <3>3, <3>4 DEF InboxOK, At
    <3>8. \A s \in Runners : At(s)' => pc'[s] \in {"await", "replied", "done"} /\ s[1] # Delete
      BY <1>0, <3>1, <3>3, <3>4 DEF InboxOK, At
    <3>9. \A i, j \in DOMAIN inbox' :
            pc'[inbox'[i]] = "await" /\ i < j => inbox'[j][1] # inbox'[i][1]
      BY <1>0, <3>2, <3>3, <3>4, <3>5 DEF InboxOK
    <3> QED
      BY <3>6, <3>7, <3>8, <3>9 DEF InboxOK
  <2> QED
    BY <2>1, <2>2
<1>4. ASSUME NEW r \in Runners, RunDelete(r) PROVE InboxOK'
  <2>1. CASE gone
    BY <1>0, <1>1, <1>4, <2>1 DEF RunDelete, Goes
  <2>2. CASE ~gone
    BY <1>0, <1>2, <1>4, <2>2 DEF RunDelete, Hung
  <2> QED
    BY <2>1, <2>2
<1>5. ASSUME NEW r \in Runners, Accept(r) \/ Claim(r) \/ Replay(r) \/ PollTimeout(r)
               \/ CallTimeout(r) \/ FinishFailed(r) \/ Finish(r)
      PROVE  InboxOK'
  <2>1. UNCHANGED inbox
    BY <1>5 DEF Accept, Claim, Replay, PollTimeout, CallTimeout, FinishFailed, Finish, threadVars
  <2>2. CASE Accept(r)
    <3>1. pc[r] = "none"
      BY <2>2 DEF Accept, IInv, FramesOK
    <3> QED
      BY <1>0, <1>1, <2>1, <2>2, <3>1 DEF Accept, Goes
  <2>3. CASE Claim(r) \/ Replay(r) \/ PollTimeout(r) \/ CallTimeout(r) \/ FinishFailed(r) \/ Finish(r)
    BY <1>0, <1>1, <2>1, <2>3 DEF Claim, Replay, PollTimeout, CallTimeout, FinishFailed, Finish, Goes
  <2> QED
    BY <1>5, <2>2, <2>3
<1>6. CASE \/ \E o \in Ops : Issue(o)
           \/ Connect \/ Disconnect \/ \E a \in acks : Settle(a)
           \/ Erase \/ UNCHANGED vars
  BY <1>1, <1>6 DEF Issue, Connect, Disconnect, Settle, Erase, vars, threadVars
<1>7. CASE Handle
  <2> DEFINE r == NextCall[1]
  <2>1. /\ inbox # <<>> /\ inbox' = NextCall[2]
        /\ pc' = [pc EXCEPT ![r] = IF pc[r] = "await" THEN "replied" ELSE pc[r]]
    BY <1>7 DEF Handle, Goes
  <2>2. /\ r = inbox[1] /\ r \in Runners
        /\ inbox' \in Seq(Runners) /\ Len(inbox') = Len(inbox) - 1 /\ Len(inbox) \in Nat
        /\ \A i \in 1 .. Len(inbox) - 1 : inbox'[i] = inbox[i + 1]
    BY <1>0, <2>1, CallTaken DEF IInv, TypeOK
  <2>3. /\ DOMAIN inbox' = 1 .. Len(inbox) - 1 /\ DOMAIN inbox = 1 .. Len(inbox)
        /\ 1 \in DOMAIN inbox
        /\ \A i \in DOMAIN inbox : inbox[i] \in Runners
    BY <1>0, <2>1, <2>2
  <2>4. \A i \in DOMAIN inbox' : i + 1 \in DOMAIN inbox /\ inbox'[i] = inbox[i + 1]
    BY <2>2, <2>3
  <2>5. \A s \in Runners : At(s)' <=> At(s) /\ s # r
    <3>1. \A i \in DOMAIN inbox : i # 1 => i - 1 \in DOMAIN inbox' /\ inbox'[i - 1] = inbox[i]
      BY <2>2, <2>3
    <3>2. \A i \in DOMAIN inbox : inbox[i] = r => i = 1
      BY <1>0, <2>2, <2>3 DEF InboxOK
    <3>3. ASSUME NEW s \in Runners, At(s)' PROVE At(s) /\ s # r
      <4>1. PICK i \in DOMAIN inbox' : inbox'[i] = s
        BY <3>3 DEF At
      <4>2. i + 1 \in DOMAIN inbox /\ inbox[i + 1] = s /\ i + 1 # 1
        BY <2>2, <2>3, <2>4, <4>1
      <4> QED
        BY <3>2, <4>2 DEF At
    <3>4. ASSUME NEW s \in Runners, At(s), s # r PROVE At(s)'
      <4>1. PICK i \in DOMAIN inbox : inbox[i] = s
        BY <3>4 DEF At
      <4>2. i # 1
        BY <2>2, <3>4, <4>1
      <4> QED
        BY <3>1, <4>1, <4>2 DEF At
    <3> QED
      BY <3>3, <3>4
  <2>6. /\ pc'[r] # "await"
        /\ pc[r] \in {"await", "replied", "done"} => pc'[r] \in {"await", "replied", "done"}
        /\ \A s \in Runners : s # r => pc'[s] = pc[s]
    BY <1>0, <2>1, <2>2
  <2>7. \A i, j \in DOMAIN inbox' : inbox'[i] = inbox'[j] => i = j
    BY <1>0, <2>2, <2>3, <2>4 DEF InboxOK
  <2>8. /\ \A s \in Runners : pc'[s] = "await" => At(s)'
        /\ \A s \in Runners : At(s)' => pc'[s] \in {"await", "replied", "done"} /\ s[1] # Delete
    BY <1>0, <2>5, <2>6 DEF InboxOK
  <2>9. \A i, j \in DOMAIN inbox' :
          pc'[inbox'[i]] = "await" /\ i < j => inbox'[j][1] # inbox'[i][1]
    <3> SUFFICES ASSUME NEW i \in DOMAIN inbox', NEW j \in DOMAIN inbox',
                        pc'[inbox'[i]] = "await", i < j
                 PROVE  inbox'[j][1] # inbox'[i][1]
      OBVIOUS
    <3>1. pc[inbox[i + 1]] = "await" /\ i + 1 < j + 1
      BY <2>2, <2>3, <2>4, <2>6
    <3> QED
      BY <1>0, <2>4, <3>1 DEF InboxOK
  <2> QED
    BY <2>7, <2>8, <2>9 DEF InboxOK
<1>8. CASE Exit \/ Crash
  <2>1. inbox' = <<>>
    BY <1>8 DEF Exit, ActorExit, Crash
  <2>2. \A s \in Runners : pc'[s] # "await"
    BY <1>8 DEF Exit, ActorExit, Hung, Crash
  <2> QED
    BY <1>2, <2>1, <2>2
<1> QED
  BY <1>3, <1>4, <1>5, <1>6, <1>7, <1>8 DEF Next, RunnerStep

LEMMA ReplyStep == IInv /\ [Next]_vars => ReplyOK'
<1> SUFFICES ASSUME IInv, [Next]_vars PROVE ReplyOK'
  OBVIOUS
<1>0. /\ pc \in [Runners -> Steps] /\ inbox \in Seq(Runners) /\ reply \in [Runners -> Nat]
      /\ claims \in [Ops -> {"free", "taken", "done"}]
      /\ ReplyOK /\ InboxOK /\ GoneOK /\ ClaimOK
      /\ \A s \in Runners : s[1] \in Ops
  BY DEF IInv, TypeOK, RunnerTypeOK, TableTypeOK, Runners
\* No reply, claim or call is new, and nobody begins to run.
<1>1. ASSUME UNCHANGED <<reply, gone>>,
             \A s \in Runners : /\ Runs(s)' => Runs(s)
                                /\ pc[s] \in {"replied", "done"} => pc'[s] \in {"replied", "done"},
             UNCHANGED inbox \/ inbox' = <<>>,
             UNCHANGED claims \/ gone
      PROVE  ReplyOK'
  <2>1. \A s \in Runners : reply'[s] # 0 => pc'[s] \in {"replied", "done"}
    BY <1>0, <1>1 DEF ReplyOK
  <2>2. CASE gone
    BY <1>1, <2>1, <2>2 DEF ReplyOK
  <2>3. CASE ~gone
    <3>1. \A s \in Runners : reply'[s] # 0 =>
            /\ claims'[s[1]] # "free"
            /\ \A t \in Runners : t[1] = s[1] /\ Runs(t)' => t = s
      BY <1>0, <1>1, <2>3 DEF ReplyOK
    <3>2. \A s \in Runners : reply'[s] # 0 => \A i \in DOMAIN inbox' : inbox'[i][1] # s[1]
      BY <1>0, <1>1, <2>3 DEF ReplyOK
    <3>3. \A o \in Ops : claims'[o] = "done" => Answered(o)'
      BY <1>0, <1>1, <2>3 DEF ReplyOK, Answered
    <3> QED
      BY <2>1, <3>1, <3>2, <3>3 DEF ReplyOK
  <2> QED
    BY <2>2, <2>3
<1>2. ASSUME NEW r \in Runners, Accept(r) \/ Replay(r) \/ PollTimeout(r) \/ CallTimeout(r)
      PROVE  ReplyOK'
  <2>1. UNCHANGED <<reply, gone, inbox, claims>>
    BY <1>2 DEF Accept, Replay, PollTimeout, CallTimeout, threadVars, tableVars
  <2>2. \A s \in Runners : /\ Runs(s)' => Runs(s)
                           /\ pc[s] \in {"replied", "done"} => pc'[s] \in {"replied", "done"}
    <3>1. CASE Accept(r)
      <4>1. pc[r] = "none"
        BY <3>1 DEF Accept, IInv, FramesOK
      <4> QED
        BY <1>0, <3>1, <4>1 DEF Accept, Goes, Runs
    <3>2. CASE Replay(r) \/ PollTimeout(r) \/ CallTimeout(r)
      BY <1>0, <3>2 DEF Replay, PollTimeout, CallTimeout, Goes, Runs
    <3> QED
      BY <1>2, <3>1, <3>2
  <2> QED
    BY <1>1, <2>1, <2>2
<1>3. ASSUME NEW r \in Runners, Claim(r) PROVE ReplyOK'
  <2>1. /\ pc[r] = "claim" /\ claims[r[1]] = "free" /\ reply[r] = 0
        /\ UNCHANGED <<reply, gone, inbox>>
        /\ claims' = [claims EXCEPT ![r[1]] = "taken"] /\ r[1] \in Ops
    BY <1>0, <1>3 DEF Claim, MayClaim, threadVars, ReplyOK
  <2>2. \A s \in Runners : /\ Runs(s)' => Runs(s) \/ s = r
                           /\ pc[s] \in {"replied", "done"} => pc'[s] \in {"replied", "done"}
    BY <1>0, <1>3 DEF Claim, Goes, Runs
  <2>3. \A s \in Runners : reply'[s] # 0 => pc'[s] \in {"replied", "done"}
    BY <1>0, <2>1, <2>2 DEF ReplyOK
  <2>4. CASE gone
    BY <2>1, <2>3, <2>4 DEF ReplyOK
  <2>5. CASE ~gone
    <3>1. \A s \in Runners : reply'[s] # 0 => s[1] # r[1]
      BY <1>0, <2>1, <2>5 DEF ReplyOK
    <3>2. \A s \in Runners : reply'[s] # 0 =>
            /\ claims'[s[1]] # "free"
            /\ \A t \in Runners : t[1] = s[1] /\ Runs(t)' => t = s
            /\ \A i \in DOMAIN inbox' : inbox'[i][1] # s[1]
      BY <1>0, <2>1, <2>2, <2>5, <3>1 DEF ReplyOK
    <3>3. \A o \in Ops : claims'[o] = "done" => Answered(o)'
      BY <1>0, <2>1, <2>5 DEF ReplyOK, Answered
    <3> QED
      BY <2>3, <3>2, <3>3 DEF ReplyOK
  <2> QED
    BY <2>4, <2>5
<1>4. ASSUME NEW r \in Runners, Send(r) PROVE ReplyOK'
  <2>1. /\ pc[r] = "run" /\ UNCHANGED <<reply, gone, claims>>
        /\ \A s \in Runners : /\ Runs(s)' => Runs(s)
                              /\ pc[s] \in {"replied", "done"} => pc'[s] \in {"replied", "done"}
    BY <1>0, <1>4 DEF Send, Goes, Runs, tableVars
  <2>2. CASE gone
    <3>1. UNCHANGED inbox
      BY <1>4, <2>2 DEF Send
    <3> QED
      BY <1>1, <2>1, <3>1
  <2>3. CASE ~gone
    <3>1. inbox' = Append(inbox, r)
      BY <1>4, <2>3 DEF Send
    <3>2. \A s \in Runners : reply[s] # 0 => s[1] # r[1]
      BY <1>0, <2>1, <2>3 DEF ReplyOK, Runs
    <3>3. \A i \in DOMAIN inbox' : (i \in DOMAIN inbox /\ inbox'[i] = inbox[i]) \/ inbox'[i] = r
      BY <1>0, <3>1
    <3>4. \A s \in Runners : reply'[s] # 0 =>
            /\ claims'[s[1]] # "free"
            /\ \A t \in Runners : t[1] = s[1] /\ Runs(t)' => t = s
      BY <1>0, <2>1, <2>3 DEF ReplyOK
    <3>5. \A s \in Runners : reply'[s] # 0 => \A i \in DOMAIN inbox' : inbox'[i][1] # s[1]
      BY <1>0, <2>1, <2>3, <3>2, <3>3 DEF ReplyOK
    <3>6. \A o \in Ops : claims'[o] = "done" => Answered(o)'
      BY <1>0, <2>1, <2>3 DEF ReplyOK, Answered
    <3>7. \A s \in Runners : reply'[s] # 0 => pc'[s] \in {"replied", "done"}
      BY <1>0, <2>1 DEF ReplyOK
    <3> QED
      BY <3>4, <3>5, <3>6, <3>7 DEF ReplyOK
  <2> QED
    BY <2>2, <2>3
<1>5. ASSUME NEW r \in Runners, RunDelete(r) PROVE ReplyOK'
  <2>1. CASE gone
    <3>1. UNCHANGED <<reply, gone, inbox, claims>> /\ pc' = [pc EXCEPT ![r] = "replied"] /\ pc[r] = "run"
      BY <1>5, <2>1 DEF RunDelete, Goes, tableVars
    <3> QED
      BY <1>0, <1>1, <3>1 DEF Runs
  <2>2. CASE ~gone
    <3>1. /\ gone' /\ reply' = [reply EXCEPT ![r] = 1]
          /\ pc' = [s \in Runners |-> IF s = r \/ Hung(s) THEN "replied" ELSE pc[s]]
      BY <1>5, <2>2 DEF RunDelete
    <3>2. \A s \in Runners : reply'[s] # 0 => pc'[s] \in {"replied", "done"}
      BY <1>0, <3>1 DEF ReplyOK
    <3> QED
      BY <3>1, <3>2 DEF ReplyOK
  <2> QED
    BY <2>1, <2>2
<1>6. ASSUME NEW r \in Runners, FinishFailed(r) \/ Finish(r) PROVE ReplyOK'
  <2>1. /\ pc[r] = "replied" /\ UNCHANGED <<reply, gone, inbox>> /\ r[1] \in Ops
        /\ \A s \in Runners : /\ Runs(s)' => Runs(s)
                              /\ pc[s] \in {"replied", "done"} => pc'[s] \in {"replied", "done"}
    BY <1>0, <1>6 DEF FinishFailed, Finish, Goes, Runs, threadVars
  <2>2. \A s \in Runners : reply'[s] # 0 => pc'[s] \in {"replied", "done"}
    BY <1>0, <2>1 DEF ReplyOK
  <2>3. CASE gone
    BY <2>1, <2>2, <2>3 DEF ReplyOK
  <2>4. CASE ~gone
    <3>1. \A s \in Runners : reply'[s] # 0 =>
            /\ \A t \in Runners : t[1] = s[1] /\ Runs(t)' => t = s
            /\ \A i \in DOMAIN inbox' : inbox'[i][1] # s[1]
      BY <1>0, <2>1, <2>4 DEF ReplyOK
    <3>2. CASE FinishFailed(r)
      <4>1. reply[r] = 0 /\ claims' = [claims EXCEPT ![r[1]] = IF @ = "taken" THEN "free" ELSE @]
        BY <3>2 DEF FinishFailed, Released
      <4>2. \A s \in Runners : reply[s] # 0 => s[1] # r[1]
        BY <1>0, <2>1, <2>4, <4>1 DEF ReplyOK, Runs
      <4>3. \A s \in Runners : reply'[s] # 0 => claims'[s[1]] # "free"
        BY <1>0, <2>1, <2>4, <4>1, <4>2 DEF ReplyOK
      <4>4. \A o \in Ops : claims'[o] = "done" => Answered(o)'
        BY <1>0, <2>1, <2>4, <4>1 DEF ReplyOK, Answered
      <4> QED
        BY <2>2, <3>1, <4>3, <4>4 DEF ReplyOK
    <3>3. CASE Finish(r)
      <4>1. /\ reply[r] # 0
            /\ UNCHANGED claims \/ claims' = [claims EXCEPT ![r[1]] = "done"]
        BY <3>3 DEF Finish, tableVars
      <4>2. \A s \in Runners : reply'[s] # 0 => claims'[s[1]] # "free"
        BY <1>0, <2>1, <2>4, <4>1 DEF ReplyOK
      <4>3. \A o \in Ops : claims'[o] = "done" => Answered(o)'
        BY <1>0, <2>1, <2>4, <4>1 DEF ReplyOK, Answered
      <4> QED
        BY <2>2, <3>1, <4>2, <4>3 DEF ReplyOK
    <3> QED
      BY <1>6, <3>2, <3>3
  <2> QED
    BY <2>3, <2>4
<1>7. CASE \/ \E o \in Ops : Issue(o)
           \/ Connect \/ Disconnect \/ \E a \in acks : Settle(a)
           \/ UNCHANGED vars
  <2>1. UNCHANGED <<pc, reply, gone, inbox, claims>>
    BY <1>7 DEF Issue, Connect, Disconnect, Settle, vars, threadVars, tableVars
  <2> QED
    BY <1>0, <1>1, <2>1 DEF Runs
<1>8. CASE Erase
  <2>1. UNCHANGED <<pc, reply, gone, inbox>> /\ gone
    BY <1>0, <1>8 DEF Erase, GoneOK
  <2> QED
    BY <1>0, <1>1, <2>1 DEF Runs
<1>9. CASE Exit \/ Crash
  <2>1. /\ inbox' = <<>> /\ UNCHANGED <<reply, gone, claims>>
        /\ \A s \in Runners : /\ Runs(s)' => Runs(s)
                              /\ pc[s] \in {"replied", "done"} => pc'[s] \in {"replied", "done"}
    BY <1>0, <1>9 DEF Exit, ActorExit, Hung, Crash, tableVars, Runs
  <2> QED
    BY <1>1, <2>1
<1>10. CASE Handle
  <2> DEFINE r == NextCall[1]
  <2>1. /\ inbox # <<>> /\ inbox' = NextCall[2] /\ UNCHANGED <<gone, claims>>
        /\ pc' = [pc EXCEPT ![r] = IF pc[r] = "await" THEN "replied" ELSE pc[r]]
        /\ \/ reply' = [reply EXCEPT ![r] = IF pc[r] = "await" THEN ran[r[1]] + 1 ELSE @]
           \/ UNCHANGED reply
    BY <1>10 DEF Handle, Goes, tableVars
  <2>2. /\ r = inbox[1] /\ r \in Runners /\ Len(inbox) \in Nat /\ 1 \in DOMAIN inbox
        /\ ~gone
    BY <1>0, <2>1, CallTaken DEF IInv, TypeOK, GoneOK
  <2>3. \A i \in DOMAIN inbox' : /\ i + 1 \in DOMAIN inbox /\ inbox'[i] = inbox[i + 1]
                                 /\ 1 < i + 1
    <3>1. /\ inbox' \in Seq(Runners) /\ Len(inbox') = Len(inbox) - 1
          /\ \A i \in 1 .. Len(inbox) - 1 : inbox'[i] = inbox[i + 1]
      BY <2>1, CallTaken DEF IInv, TypeOK
    <3>2. DOMAIN inbox' = 1 .. Len(inbox) - 1 /\ DOMAIN inbox = 1 .. Len(inbox)
      BY <1>0, <3>1
    <3> QED
      BY <2>2, <3>1, <3>2
  <2>4. \A s \in Runners : /\ Runs(s)' => Runs(s)
                           /\ pc[s] \in {"replied", "done"} => pc'[s] \in {"replied", "done"}
    BY <1>0, <2>1, <2>2 DEF Runs
  <2>5. CASE UNCHANGED reply
    <3>1. \A s \in Runners : reply'[s] # 0 =>
            /\ claims'[s[1]] # "free"
            /\ \A t \in Runners : t[1] = s[1] /\ Runs(t)' => t = s
      BY <1>0, <2>1, <2>2, <2>4, <2>5 DEF ReplyOK
    <3>2. \A s \in Runners : reply'[s] # 0 => \A i \in DOMAIN inbox' : inbox'[i][1] # s[1]
      BY <1>0, <2>2, <2>3, <2>5 DEF ReplyOK
    <3>3. \A o \in Ops : claims'[o] = "done" => Answered(o)'
      BY <1>0, <2>1, <2>2, <2>5 DEF ReplyOK, Answered
    <3>4. \A s \in Runners : reply'[s] # 0 => pc'[s] \in {"replied", "done"}
      BY <1>0, <2>4, <2>5 DEF ReplyOK
    <3> QED
      BY <3>1, <3>2, <3>3, <3>4 DEF ReplyOK
  <2>6. CASE pc[r] # "await"
    <3>1. UNCHANGED reply
      BY <1>0, <2>1, <2>2, <2>6
    <3> QED
      BY <2>5, <3>1
  <2>7. CASE pc[r] = "await" /\ reply' = [reply EXCEPT ![r] = ran[r[1]] + 1]
    <3>1. Runs(r) /\ pc'[r] = "replied" /\ claims[r[1]] = "taken" /\ r[1] \in Ops
      BY <1>0, <2>1, <2>2, <2>7 DEF Runs, ClaimOK
    <3>2. \A s \in Runners : s[1] = r[1] /\ Runs(s) => s = r
      BY <1>0, <2>2, <3>1 DEF ClaimOK
    <3>3. \A i \in DOMAIN inbox' : inbox'[i][1] # r[1]
      BY <1>0, <2>2, <2>3, <2>7 DEF InboxOK
    <3>4. reply'[r] # 0 /\ \A s \in Runners : s # r => reply'[s] = reply[s]
      <4>1. ran[r[1]] \in Nat
        BY <3>1 DEF IInv, TypeOK, CountTypeOK
      <4> QED
        BY <1>0, <2>2, <2>7, <4>1
    <3>5. \A s \in Runners : reply'[s] # 0 =>
            /\ claims'[s[1]] # "free"
            /\ \A t \in Runners : t[1] = s[1] /\ Runs(t)' => t = s
      BY <1>0, <2>1, <2>2, <2>4, <3>1, <3>2, <3>4 DEF ReplyOK
    <3>6. \A s \in Runners : reply'[s] # 0 => \A i \in DOMAIN inbox' : inbox'[i][1] # s[1]
      BY <1>0, <2>2, <2>3, <3>3, <3>4 DEF ReplyOK
    <3>7. \A o \in Ops : claims'[o] = "done" => Answered(o)'
      BY <1>0, <2>1, <2>2, <3>4 DEF ReplyOK, Answered
    <3>8. \A s \in Runners : reply'[s] # 0 => pc'[s] \in {"replied", "done"}
      BY <1>0, <2>4, <3>1, <3>4 DEF ReplyOK
    <3> QED
      BY <3>5, <3>6, <3>7, <3>8 DEF ReplyOK
  <2> QED
    BY <2>1, <2>5, <2>6, <2>7
<1> QED
  BY <1>2, <1>3, <1>4, <1>5, <1>6, <1>7, <1>8, <1>9, <1>10 DEF Next, RunnerStep

LEMMA LeftFinite ==
  /\ \A o \in Ops : IsFiniteSet(Left(o)) /\ Cardinality(Left(o)) \in Nat
  /\ \A o \in Ops : IsFiniteSet(Left(o)') /\ Cardinality(Left(o)') \in Nat
<1>1. IsFiniteSet(Conns)
  BY FS_Interval, LedgerConstants DEF Conns
<1>2. \A o \in Ops : Left(o) \subseteq Conns /\ Left(o)' \subseteq Conns
  BY DEF Left
<1> QED
  BY <1>1, <1>2, FS_Subset, FS_CardinalityType

LEMMA CountStep == IInv /\ [Next]_vars => CountOK'
<1> SUFFICES ASSUME IInv, [Next]_vars PROVE CountOK'
  OBVIOUS
<1>0. /\ pc \in [Runners -> Steps] /\ reply \in [Runners -> Nat]
      /\ ran \in [Ops -> Nat] /\ abandoned \in [Ops -> Nat]
  BY DEF IInv, TypeOK, RunnerTypeOK, CountTypeOK
<1>c. \A o \in Ops : Counted(o)
  BY DEF IInv, CountOK
<1>r. \A s \in Runners : s[1] \in Ops /\ s[2] \in Conns /\ s = <<s[1], s[2]>>
  BY DEF Runners
\* An operation that did not run, and left no more calls behind than it had.
<1>1. ASSUME NEW o \in Ops, ran'[o] = ran[o], abandoned'[o] = abandoned[o],
             \A n \in Conns : n \in Left(o)' => n \in Left(o),
             Answered(o) => Answered(o)'
      PROVE  Counted(o)'
  <2>1. Left(o)' \subseteq Left(o)
    BY <1>1 DEF Left
  <2>2. Cardinality(Left(o)') <= Cardinality(Left(o))
    BY <2>1, LeftFinite, FS_Subset
  <2>3. Counted(o) /\ ran[o] \in Nat /\ abandoned[o] \in Nat
    BY <1>0, <1>c
  <2>4. CASE Answered(o)
    BY <1>1, <2>2, <2>3, <2>4, LeftFinite DEF Counted
  <2>5. CASE ~Answered(o)
    BY <1>1, <2>2, <2>3, <2>5, LeftFinite DEF Counted
  <2> QED
    BY <2>4, <2>5
\* A step in which nothing runs and no call is left behind.
<1>2. ASSUME UNCHANGED <<ran, abandoned>>,
             \A s \in Runners : reply[s] # 0 => reply'[s] # 0,
             \A s \in Runners : At(s)' /\ pc'[s] # "await" => At(s) /\ pc[s] # "await"
      PROVE  CountOK'
  <2> SUFFICES ASSUME NEW o \in Ops PROVE Counted(o)'
    BY DEF CountOK
  <2>1. \A n \in Conns : n \in Left(o)' => n \in Left(o)
    BY <1>2 DEF Left, Runners
  <2>2. Answered(o) => Answered(o)'
    BY <1>2 DEF Answered
  <2> QED
    BY <1>1, <1>2, <2>1, <2>2
<1>3. ASSUME NEW r \in Runners, Send(r) PROVE CountOK'
  <2>1. /\ UNCHANGED <<ran, abandoned, reply>> /\ pc[r] = "run"
        /\ \A s \in Runners : s # r => pc'[s] = pc[s]
    BY <1>0, <1>3 DEF Send, Goes
  <2>2. CASE gone
    BY <1>2, <1>3, <2>1, <2>2 DEF Send, At
  <2>3. CASE ~gone
    <3>1. inbox' = Append(inbox, r) /\ pc'[r] = "await" /\ inbox \in Seq(Runners)
      BY <1>0, <1>3, <2>3 DEF Send, Goes, IInv, TypeOK, RunnerTypeOK
    <3>2. \A i \in DOMAIN inbox' : (i \in DOMAIN inbox /\ inbox'[i] = inbox[i]) \/ inbox'[i] = r
      BY <3>1
    <3>3. \A s \in Runners : At(s)' => At(s) \/ s = r
      BY <3>2 DEF At
    <3> QED
      BY <1>2, <2>1, <3>1, <3>3
  <2> QED
    BY <2>2, <2>3
<1>4. ASSUME NEW r \in Runners, CallTimeout(r) PROVE CountOK'
  <2>1. /\ pc[r] \in {"run", "await"} /\ UNCHANGED <<ran, reply, inbox>>
        /\ pc' = [pc EXCEPT ![r] = "replied"]
        /\ abandoned' = [abandoned EXCEPT ![r[1]] = IF pc[r] = "await" THEN @ + 1 ELSE @]
    BY <1>4 DEF CallTimeout, Goes, threadVars
  <2>2. \A s \in Runners : At(s)' <=> At(s)
    BY <2>1 DEF At
  <2>3. pc[r] = "run" => ~At(r)
    BY DEF IInv, InboxOK
  <2>4. \A s \in Runners : s # r => pc'[s] = pc[s]
    BY <1>0, <2>1
  <2>5. CASE pc[r] = "run"
    <3>1. UNCHANGED abandoned
      BY <1>0, <2>1, <2>5
    <3> QED
      BY <1>2, <2>1, <2>2, <2>3, <2>4, <2>5, <3>1
  <2>6. CASE pc[r] = "await"
    <3> SUFFICES ASSUME NEW o \in Ops PROVE Counted(o)'
      BY DEF CountOK
    <3>1. Answered(o)' <=> Answered(o)
      BY <2>1 DEF Answered
    <3>2. CASE o # r[1]
      <4>1. \A n \in Conns : n \in Left(o)' => n \in Left(o)
        BY <1>r, <2>2, <2>4, <3>2 DEF Left, Runners
      <4>2. abandoned'[o] = abandoned[o] /\ ran'[o] = ran[o]
        BY <1>0, <1>r, <2>1, <3>2
      <4> QED
        BY <1>1, <3>1, <4>1, <4>2
    <3>3. CASE o = r[1]
      <4>1. /\ Left(o)' \subseteq Left(o) \cup {r[2]}
            /\ r[2] \notin Left(o)
        <5>1. r = <<o, r[2]>>
          BY <1>r, <3>3
        <5>2. \A n \in Conns : n # r[2] => <<o, n>> # r /\ <<o, n>> \in Runners
          BY <1>r, <5>1 DEF Runners
        <5> QED
          BY <2>2, <2>4, <2>6, <5>1, <5>2 DEF Left
      <4>2. /\ IsFiniteSet(Left(o) \cup {r[2]})
            /\ Cardinality(Left(o) \cup {r[2]}) = Cardinality(Left(o)) + 1
        BY <4>1, LeftFinite, FS_AddElement
      <4>3. Cardinality(Left(o)') <= Cardinality(Left(o)) + 1
        BY <4>1, <4>2, FS_Subset
      <4>4. abandoned'[o] = abandoned[o] + 1 /\ ran'[o] = ran[o]
        BY <1>0, <1>r, <2>1, <2>6, <3>3
      <4>5. Counted(o) /\ ran[o] \in Nat /\ abandoned[o] \in Nat
        BY <1>0, <1>c
      <4>6. CASE Answered(o)
        BY <3>1, <4>3, <4>4, <4>5, <4>6, LeftFinite DEF Counted
      <4>7. CASE ~Answered(o)
        BY <3>1, <4>3, <4>4, <4>5, <4>7, LeftFinite DEF Counted
      <4> QED
        BY <4>6, <4>7
    <3> QED
      BY <3>2, <3>3
  <2> QED
    BY <2>1, <2>5, <2>6
<1>5. ASSUME NEW r \in Runners, RunDelete(r) PROVE CountOK'
  <2>1. CASE gone
    <3>1. /\ UNCHANGED <<ran, reply, inbox, abandoned>> /\ pc[r] = "run"
          /\ \A s \in Runners : s # r => pc'[s] = pc[s]
      BY <1>0, <1>5, <2>1 DEF RunDelete, Goes
    <3> QED
      BY <1>2, <3>1 DEF At
  <2>2. CASE ~gone
    <3>1. /\ pc[r] = "run" /\ r[1] = Delete
          /\ inbox' = <<>> /\ UNCHANGED abandoned
          /\ reply' = [reply EXCEPT ![r] = 1]
          /\ ran' = [ran EXCEPT ![Delete] = @ + 1]
      BY <1>5, <2>2 DEF RunDelete
    <3> SUFFICES ASSUME NEW o \in Ops PROVE Counted(o)'
      BY DEF CountOK
    <3>2. Left(o)' = {}
      BY <3>1 DEF Left, At
    <3>3. CASE o # Delete
      BY <1>0, <1>1, <3>1, <3>2, <3>3 DEF Answered
    <3>4. CASE o = Delete
      <4>1. ~Answered(o)
        <5> SUFFICES ASSUME NEW s \in Runners, s[1] = Delete, reply[s] # 0 PROVE FALSE
          BY <3>4 DEF Answered
        <5>1. r = s
          BY <2>2, <3>1 DEF IInv, ReplyOK, Runs
        <5> QED
          BY <3>1, <5>1 DEF IInv, ReplyOK
      <4>2. Answered(o)'
        BY <1>0, <3>1, <3>4 DEF Answered
      <4>3. Cardinality(Left(o)') = 0
        BY <3>2, FS_EmptySet
      <4>4. ran'[o] = ran[o] + 1 /\ abandoned'[o] = abandoned[o]
        BY <1>0, <3>1, <3>4
      <4>5. Counted(o) /\ ran[o] \in Nat /\ abandoned[o] \in Nat
        BY <1>0, <1>c
      <4> QED
        BY <4>1, <4>2, <4>3, <4>4, <4>5, LeftFinite DEF Counted
    <3> QED
      BY <3>3, <3>4
  <2> QED
    BY <2>1, <2>2
<1>6. ASSUME NEW r \in Runners, Accept(r) \/ Claim(r) \/ Replay(r) \/ PollTimeout(r)
               \/ FinishFailed(r) \/ Finish(r)
      PROVE  CountOK'
  <2>1. UNCHANGED <<ran, abandoned, reply, inbox>>
    BY <1>6 DEF Accept, Claim, Replay, PollTimeout, FinishFailed, Finish, threadVars
  <2>2. \A s \in Runners : pc[s] = "await" => pc'[s] = "await"
    <3>1. CASE Accept(r)
      <4>1. pc[r] = "none"
        BY <3>1 DEF Accept, IInv, FramesOK
      <4> QED
        BY <1>0, <3>1, <4>1 DEF Accept, Goes
    <3>2. CASE Claim(r) \/ Replay(r) \/ PollTimeout(r) \/ FinishFailed(r) \/ Finish(r)
      BY <1>0, <3>2 DEF Claim, Replay, PollTimeout, FinishFailed, Finish, Goes
    <3> QED
      BY <1>6, <3>1, <3>2
  <2> QED
    BY <1>2, <2>1, <2>2 DEF At
<1>7. CASE \/ \E o \in Ops : Issue(o)
           \/ Connect \/ Disconnect \/ \E a \in acks : Settle(a)
           \/ Erase \/ UNCHANGED vars
  <2>1. UNCHANGED <<ran, abandoned, reply, inbox, pc>>
    BY <1>7 DEF Issue, Connect, Disconnect, Settle, Erase, vars, threadVars
  <2> QED
    BY <1>2, <2>1 DEF At
<1>8. CASE Exit \/ Crash
  <2>1. inbox' = <<>> /\ UNCHANGED <<ran, abandoned, reply>>
    BY <1>8 DEF Exit, ActorExit, Crash
  <2> QED
    BY <1>2, <2>1 DEF At
<1>9. CASE Handle
  <2> DEFINE r == NextCall[1]
             q == r[1]
  <2>1. /\ inbox # <<>> /\ inbox' = NextCall[2] /\ UNCHANGED abandoned
        /\ pc' = [pc EXCEPT ![r] = IF pc[r] = "await" THEN "replied" ELSE pc[r]]
        /\ \/ /\ ran' = [ran EXCEPT ![q] = @ + 1]
              /\ reply' = [reply EXCEPT ![r] = IF pc[r] = "await" THEN ran[q] + 1 ELSE @]
           \/ UNCHANGED <<ran, reply>>
    BY <1>9 DEF Handle, Goes
  <2>2. /\ r \in Runners /\ q \in Ops /\ inbox \in Seq(Runners)
        /\ inbox' \in Seq(Runners) /\ Len(inbox') = Len(inbox) - 1 /\ Len(inbox) \in Nat
        /\ r = inbox[1]
        /\ \A i \in 1 .. Len(inbox) - 1 : inbox'[i] = inbox[i + 1]
    BY <2>1, CallTaken DEF IInv, TypeOK, RunnerTypeOK
  <2>3. /\ DOMAIN inbox' = 1 .. Len(inbox) - 1 /\ DOMAIN inbox = 1 .. Len(inbox)
        /\ 1 \in DOMAIN inbox
    BY <2>1, <2>2
  <2>4. At(r)
    BY <2>2, <2>3 DEF At
  <2>5. \A s \in Runners : At(s)' => At(s) /\ s # r
    <3> SUFFICES ASSUME NEW s \in Runners, At(s)' PROVE At(s) /\ s # r
      OBVIOUS
    <3>1. PICK i \in DOMAIN inbox' : inbox'[i] = s
      BY DEF At
    <3>2. i + 1 \in DOMAIN inbox /\ inbox[i + 1] = s /\ i + 1 # 1
      BY <2>2, <2>3, <3>1
    <3> QED
      BY <2>2, <2>3, <3>2 DEF IInv, InboxOK, At
  <2>6. \A s \in Runners : s # r => pc'[s] = pc[s]
    BY <1>0, <2>1, <2>2
  <2>7. \A o \in Ops : \A n \in Conns : n \in Left(o)' => n \in Left(o)
    BY <2>5, <2>6 DEF Left, Runners
  <2>8. CASE UNCHANGED <<ran, reply>>
    <3>1. \A o \in Ops : Answered(o) => Answered(o)'
      BY <2>8 DEF Answered
    <3> QED
      BY <1>1, <2>1, <2>7, <2>8, <3>1 DEF CountOK
  <2>9. CASE /\ ran' = [ran EXCEPT ![q] = @ + 1]
             /\ reply' = [reply EXCEPT ![r] = IF pc[r] = "await" THEN ran[q] + 1 ELSE @]
    <3> SUFFICES ASSUME NEW o \in Ops PROVE Counted(o)'
      BY DEF CountOK
    <3>0. ran[q] \in Nat
      BY <1>0, <2>2
    <3>1. \A s \in Runners : reply[s] # 0 => reply'[s] # 0
      BY <1>0, <2>2, <2>9, <3>0
    <3>2. Answered(o) => Answered(o)'
      BY <3>1 DEF Answered
    <3>3. CASE o # q
      BY <1>0, <1>1, <2>1, <2>7, <2>9, <3>2, <3>3
    <3>4. CASE o = q /\ pc[r] = "await"
      <4>1. ~Answered(o)
        <5>1. ~gone /\ ReplyOK
          BY <2>1 DEF IInv, GoneOK
        <5> QED
          BY <2>2, <2>3, <3>4, <5>1 DEF ReplyOK, Answered
      <4>2. Answered(o)'
        <5>1. reply'[r] # 0
          BY <1>0, <2>2, <2>9, <3>0, <3>4
        <5> QED
          BY <2>2, <3>4, <5>1 DEF Answered
      <4>3. Left(o)' \subseteq Left(o)
        BY <2>7 DEF Left
      <4>4. Cardinality(Left(o)') <= Cardinality(Left(o))
        BY <4>3, LeftFinite, FS_Subset
      <4>5. Counted(o) /\ ran[o] \in Nat /\ abandoned[o] \in Nat
        BY <1>0, <1>c
      <4>6. ran'[o] = ran[o] + 1 /\ abandoned'[o] = abandoned[o]
        BY <1>0, <2>1, <2>9, <3>4
      <4> QED
        BY <4>1, <4>2, <4>4, <4>5, <4>6, LeftFinite DEF Counted
    <3>5. CASE o = q /\ pc[r] # "await"
      <4>1. r = <<o, r[2]>> /\ r[2] \in Conns
        BY <1>r, <2>2, <3>5
      <4>2. r[2] \in Left(o) /\ r[2] \notin Left(o)'
        BY <2>2, <2>4, <2>5, <3>5, <4>1 DEF Left
      <4>3. Left(o)' \subseteq Left(o) \ {r[2]}
        BY <2>7, <4>2 DEF Left
      <4>4. /\ IsFiniteSet(Left(o) \ {r[2]})
            /\ Cardinality(Left(o) \ {r[2]}) = Cardinality(Left(o)) - 1
        <5>1. IsFiniteSet(Left(o))
          BY LeftFinite
        <5> QED
          BY <4>2, <5>1, FS_RemoveElement
      <4>5. Cardinality(Left(o)') <= Cardinality(Left(o)) - 1
        BY <4>3, <4>4, FS_Subset
      <4>6. Counted(o) /\ ran[o] \in Nat /\ abandoned[o] \in Nat
        BY <1>0, <1>c
      <4>7. ran'[o] = ran[o] + 1 /\ abandoned'[o] = abandoned[o]
        BY <1>0, <2>1, <2>9, <3>5
      <4>8. CASE Answered(o)
        BY <3>2, <4>5, <4>6, <4>7, <4>8, LeftFinite DEF Counted
      <4>9. CASE ~Answered(o)
        BY <3>2, <4>5, <4>6, <4>7, <4>9, LeftFinite DEF Counted
      <4> QED
        BY <4>8, <4>9
    <3> QED
      BY <3>3, <3>4, <3>5
  <2> QED
    BY <2>1, <2>8, <2>9
<1> QED
  BY <1>3, <1>4, <1>5, <1>6, <1>7, <1>8, <1>9 DEF Next, RunnerStep

LEMMA InvStep == IInv /\ [Next]_vars => IInv'
  BY TypeStep, FramesStep, GoneStep, ClaimStep, InboxStep, ReplyStep, CountStep DEF IInv

LEMMA Invariant == Spec => []IInv
  BY InvInit, InvStep, PTL DEF Spec

-----------------------------------------------------------------------------
(* What follows from the invariant.                                        *)

\* Type correctness, whatever is lost, resent, crashed or deleted.
THEOREM TypeCorrect == Spec => []TypeOK
<1>1. IInv => TypeOK
  BY DEF IInv
<1> QED
  BY <1>1, Invariant, PTL

LEMMA CountsSuffice == IInv => RunsAreAccounted
<1> SUFFICES ASSUME IInv, NEW o \in Ops PROVE ran[o] <= 1 + abandoned[o]
  BY DEF RunsAreAccounted
<1>1. Counted(o) /\ ran[o] \in Nat /\ abandoned[o] \in Nat
  BY DEF IInv, CountOK, TypeOK, CountTypeOK
<1>2. CASE Answered(o)
  BY <1>1, <1>2, LeftFinite DEF Counted
<1>3. CASE ~Answered(o)
  BY <1>1, <1>3, LeftFinite DEF Counted
<1> QED
  BY <1>2, <1>3

LEMMA DoneIsLast ==
  IInv /\ [Next]_vars => \A o \in Ops : claims[o] = "done" => ran'[o] = ran[o]
<1> SUFFICES ASSUME IInv, [Next]_vars, NEW o \in Ops, claims[o] = "done"
    PROVE  ran'[o] = ran[o]
  OBVIOUS
<1>0. ran \in [Ops -> Nat]
  BY DEF IInv, TypeOK, CountTypeOK
<1>1. CASE Handle
  <2>1. inbox # <<>> /\ ~gone
    BY <1>1 DEF Handle, IInv, GoneOK
  <2>2. 1 \in DOMAIN inbox /\ NextCall[1] = inbox[1]
    BY <2>1, CallTaken DEF IInv, TypeOK, RunnerTypeOK
  <2>3. NextCall[1][1] # o
    BY <2>1, <2>2 DEF IInv, ReplyOK, Answered
  <2> QED
    BY <1>0, <1>1, <2>3 DEF Handle
<1>2. ASSUME NEW r \in Runners, RunDelete(r) PROVE ran'[o] = ran[o]
  <2>1. CASE gone
    BY <1>2, <2>1 DEF RunDelete
  <2>2. CASE ~gone
    <3>1. claims[Delete] = "taken"
      BY <1>2, <2>2 DEF RunDelete, IInv, ClaimOK, Runs
    <3> QED
      BY <1>0, <1>2, <2>2, <3>1 DEF RunDelete
  <2> QED
    BY <2>1, <2>2
<1>3. ASSUME NEW r \in Runners, Accept(r) \/ Claim(r) \/ Replay(r) \/ PollTimeout(r)
               \/ Send(r) \/ CallTimeout(r) \/ FinishFailed(r) \/ Finish(r)
      PROVE  ran' = ran
  BY <1>3 DEF Accept, Claim, Replay, PollTimeout, Send, CallTimeout, FinishFailed, Finish
<1>4. CASE \/ \E p \in Ops : Issue(p)
           \/ Connect \/ Disconnect \/ \E a \in acks : Settle(a)
           \/ Erase \/ Exit \/ Crash \/ UNCHANGED vars
  BY <1>4 DEF Issue, Connect, Disconnect, Settle, Erase, Exit, Crash, vars
<1> QED
  BY <1>1, <1>2, <1>3, <1>4 DEF Next, RunnerStep

\* A command id takes effect once, and once more for each call a runner out of
\* time left in the actor's inbox; after its result is recorded, never again
\* (ws.go command, store.go ClaimCommand, actor.go call).
THEOREM OnceEach == Spec => TakesEffectOnce
<1>1. IInv /\ [Next]_vars => [\A o \in Ops : claims[o] = "done" => ran'[o] = ran[o]]_vars
  BY DoneIsLast
<1> QED
  BY <1>1, CountsSuffice, Invariant, PTL DEF Spec, TakesEffectOnce, NothingAfterDone

-----------------------------------------------------------------------------
(* The ledger implements OnceOnly.                                         *)

RunnerAt(o) == IF gone \/ Working(o) = {} THEN NoRunner
               ELSE CHOOSE r \in Working(o) : TRUE
OutcomeAt(o) == IF gone THEN "lost"
                ELSE IF claims[o] = "done" THEN "ended"
                ELSE IF claims[o] = "taken" /\ Working(o) = {} THEN "lost"
                ELSE "none"
RunnerOf == [o \in Ops |-> RunnerAt(o)]
OutcomeOf == [o \in Ops |-> OutcomeAt(o)]

LEMMA Idle == IInv => \A o \in Ops : ~gone /\ claims[o] # "taken" => Working(o) = {}
  BY DEF IInv, ClaimOK, Working, Runs

LEMMA OnceInit == Init => Once!Init
<1> SUFFICES ASSUME Init PROVE Once!Init
  OBVIOUS
<1>1. \A o \in Ops : Working(o) = {} /\ claims[o] = "free" /\ ~gone
  BY DEF Init, Working
<1> QED
  BY <1>1 DEF Once!Init

\* What the abstract ledger shows of an operation depends on these alone.
LEMMA SameOp ==
  ASSUME ~gone, ~gone', NEW o \in Ops, claims'[o] = claims[o], Working(o)' = Working(o)
  PROVE  RunnerAt(o)' = RunnerAt(o) /\ OutcomeAt(o)' = OutcomeAt(o)
<1>1. RunnerAt(o) = IF Working(o) = {} THEN NoRunner ELSE CHOOSE r \in Working(o) : TRUE
  BY DEF RunnerAt
<1>2. RunnerAt(o)' = IF Working(o)' = {} THEN NoRunner ELSE CHOOSE r \in Working(o)' : TRUE
  BY DEF RunnerAt
<1>3. OutcomeAt(o)' = OutcomeAt(o)
  BY DEF OutcomeAt
<1> QED
  BY <1>1, <1>2, <1>3

LEMMA Stutters ==
  ASSUME UNCHANGED gone, gone \in BOOLEAN,
         gone \/ (UNCHANGED claims /\ \A o \in Ops : Working(o)' = Working(o))
  PROVE  UNCHANGED <<RunnerOf, OutcomeOf>>
<1>1. CASE gone
  <2>1. \A o \in Ops : RunnerAt(o) = NoRunner /\ OutcomeAt(o) = "lost"
    BY <1>1 DEF RunnerAt, OutcomeAt
  <2>2. \A o \in Ops : RunnerAt(o)' = NoRunner /\ OutcomeAt(o)' = "lost"
    BY <1>1 DEF RunnerAt, OutcomeAt
  <2> QED
    BY <2>1, <2>2 DEF RunnerOf, OutcomeOf
<1>2. CASE ~gone
  <2>1. \A o \in Ops : RunnerAt(o)' = RunnerAt(o) /\ OutcomeAt(o)' = OutcomeAt(o)
    BY <1>2, SameOp
  <2> QED
    BY <2>1 DEF RunnerOf, OutcomeOf
<1> QED
  BY <1>1, <1>2

OnceStep == [Once!Next]_<<RunnerOf, OutcomeOf>>

LEMMA ClaimTakes ==
  ASSUME IInv, ~gone, NEW r \in Runners, Claim(r)
  PROVE  OnceStep
<1>0. pc \in [Runners -> Steps] /\ claims \in [Ops -> {"free", "taken", "done"}]
  BY DEF IInv, TypeOK, RunnerTypeOK, TableTypeOK
<1> DEFINE q == r[1]
<1>1. /\ q \in Ops /\ claims[q] = "free" /\ UNCHANGED gone
      /\ claims' = [claims EXCEPT ![q] = "taken"] /\ pc' = [pc EXCEPT ![r] = "run"]
      /\ pc[r] = "claim"
  BY DEF Claim, MayClaim, Goes, Runners, threadVars
<1>2. Working(q) = {} /\ Working(q)' = {r}
  <2>1. Working(q) = {}
    BY <1>1, Idle
  <2> QED
    BY <1>0, <1>1, <2>1 DEF Working
<1>3. \A o \in Ops : o # q => Working(o)' = Working(o)
  BY <1>0, <1>1 DEF Working
<1>4. /\ RunnerAt(q) = NoRunner /\ OutcomeAt(q) = "none"
      /\ RunnerAt(q)' = r /\ OutcomeAt(q)' = "none"
  BY <1>0, <1>1, <1>2 DEF RunnerAt, OutcomeAt
<1>5. \A o \in Ops : o # q => RunnerAt(o)' = RunnerAt(o) /\ OutcomeAt(o)' = OutcomeAt(o)
  BY <1>0, <1>1, <1>3, SameOp
<1>6. OutcomeOf[q] = "none" /\ RunnerOf[q] = NoRunner
  BY <1>1, <1>4 DEF RunnerOf, OutcomeOf
<1>7. RunnerOf' = [RunnerOf EXCEPT ![q] = r] /\ OutcomeOf' = OutcomeOf
  BY <1>1, <1>4, <1>5 DEF RunnerOf, OutcomeOf
<1>8. Once!Take(q, r)
  BY <1>6, <1>7 DEF Once!Take, RunnerOf, OutcomeOf, RunnerAt, OutcomeAt
<1> QED
  BY <1>1, <1>8 DEF OnceStep, Once!Next

LEMMA FinishEnds ==
  ASSUME IInv, ~gone, NEW r \in Runners, FinishFailed(r) \/ Finish(r)
  PROVE  OnceStep
<1>0. /\ pc \in [Runners -> Steps] /\ claims \in [Ops -> {"free", "taken", "done"}]
      /\ ClaimOK
  BY DEF IInv, TypeOK, RunnerTypeOK, TableTypeOK
<1> DEFINE q == r[1]
<1>1. /\ q \in Ops /\ UNCHANGED gone /\ pc' = [pc EXCEPT ![r] = "done"] /\ Runs(r)
      /\ \A o \in Ops : o # q => claims'[o] = claims[o]
  BY <1>0 DEF FinishFailed, Finish, Goes, Released, Runners, Runs, threadVars, tableVars
<1>2. claims[q] = "taken" /\ Working(q) = {r} /\ Working(q)' = {}
  <2>1. claims[q] = "taken" /\ \A s \in Runners : Runs(s) /\ s[1] = q => s = r
    BY <1>0, <1>1 DEF ClaimOK
  <2>2. Working(q) = {r}
    BY <1>1, <2>1 DEF Working, Runs
  <2>3. Working(q)' = {}
    BY <1>0, <1>1, <2>1 DEF Working, Runs
  <2> QED
    BY <2>1, <2>2, <2>3
<1>3. \A o \in Ops : o # q => Working(o)' = Working(o)
  BY <1>0, <1>1 DEF Working
<1>4. /\ RunnerAt(q) = r /\ r # NoRunner /\ OutcomeAt(q) = "none"
      /\ RunnerAt(q)' = NoRunner
      /\ claims'[q] = "free" => OutcomeAt(q)' = "none"
      /\ claims'[q] = "taken" => OutcomeAt(q)' = "lost"
      /\ claims'[q] = "done" => OutcomeAt(q)' = "ended"
  BY <1>1, <1>2, LedgerConstants DEF RunnerAt, OutcomeAt
<1>5. \A o \in Ops : o # q => RunnerAt(o)' = RunnerAt(o) /\ OutcomeAt(o)' = OutcomeAt(o)
  BY <1>1, <1>3, SameOp
<1>6. OutcomeOf[q] = "none" /\ RunnerOf[q] # NoRunner
  BY <1>1, <1>4 DEF RunnerOf, OutcomeOf
<1>7. RunnerOf' = [RunnerOf EXCEPT ![q] = NoRunner]
  BY <1>1, <1>4, <1>5 DEF RunnerOf
<1>8. CASE FinishFailed(r)
  <2>1. claims'[q] = "free"
    BY <1>0, <1>1, <1>2, <1>8 DEF FinishFailed, Released
  <2>2. OutcomeOf' = OutcomeOf
    BY <1>1, <1>4, <1>5, <2>1 DEF OutcomeOf
  <2>3. Once!GiveBack(q)
    BY <1>6, <1>7, <2>2 DEF Once!GiveBack, RunnerOf, OutcomeOf, RunnerAt, OutcomeAt
  <2> QED
    BY <1>1, <2>3 DEF OnceStep, Once!Next
<1>9. CASE Finish(r)
  <2>1. claims'[q] = "done" \/ claims'[q] = "taken"
    BY <1>0, <1>1, <1>2, <1>9 DEF Finish, tableVars
  <2>2. OutcomeOf' \in {[OutcomeOf EXCEPT ![q] = "ended"], [OutcomeOf EXCEPT ![q] = "lost"]}
    BY <1>1, <1>4, <1>5, <2>1 DEF OutcomeOf
  <2>3. Once!End(q)
    BY <1>6, <1>7, <2>2 DEF Once!End, RunnerOf, OutcomeOf, RunnerAt, OutcomeAt
  <2> QED
    BY <1>1, <2>3 DEF OnceStep, Once!Next
<1> QED
  BY <1>8, <1>9

LEMMA CrashDies == ASSUME IInv, ~gone, Crash PROVE OnceStep
<1>1. /\ UNCHANGED <<gone, claims>> /\ \A o \in Ops : Working(o)' = {}
  BY DEF Crash, Working, tableVars
<1>2. \A o \in Ops : RunnerAt(o)' = NoRunner
  BY <1>1 DEF RunnerAt
<1>3. \A o \in Ops : OutcomeAt(o)' = IF RunnerAt(o) # NoRunner THEN "lost" ELSE OutcomeAt(o)
  <2> SUFFICES ASSUME NEW o \in Ops
      PROVE  OutcomeAt(o)' = IF RunnerAt(o) # NoRunner THEN "lost" ELSE OutcomeAt(o)
    OBVIOUS
  <2>1. CASE Working(o) = {}
    BY <1>1, <2>1 DEF RunnerAt, OutcomeAt
  <2>2. CASE Working(o) # {}
    <3>1. RunnerAt(o) \in Working(o)
      BY <2>2 DEF RunnerAt
    <3>2. RunnerAt(o) # NoRunner
      BY <3>1, LedgerConstants DEF Working
    <3>3. claims[o] = "taken"
      BY <2>2, Idle
    <3> QED
      BY <1>1, <3>2, <3>3 DEF OutcomeAt
  <2> QED
    BY <2>1, <2>2
<1>4. RunnerOf' = [o \in Ops |-> NoRunner]
  BY <1>2 DEF RunnerOf
<1>5. OutcomeOf' = [o \in Ops |-> IF RunnerOf[o] # NoRunner THEN "lost" ELSE OutcomeOf[o]]
  BY <1>3 DEF RunnerOf, OutcomeOf
<1>6. Once!Die
  BY <1>4, <1>5 DEF Once!Die, RunnerOf, OutcomeOf, RunnerAt, OutcomeAt
<1> QED
  BY <1>6 DEF OnceStep, Once!Next

LEMMA OnceEveryStep == IInv /\ [Next]_vars => OnceStep
<1> SUFFICES ASSUME IInv, [Next]_vars PROVE OnceStep
  OBVIOUS
<1>0. pc \in [Runners -> Steps] /\ gone \in BOOLEAN
  BY DEF IInv, TypeOK, RunnerTypeOK, TableTypeOK
<1>1. ASSUME UNCHANGED <<RunnerOf, OutcomeOf>> PROVE OnceStep
  BY <1>1 DEF OnceStep
<1>2. ASSUME UNCHANGED gone, gone PROVE OnceStep
  BY <1>0, <1>1, <1>2, Stutters
<1>3. ASSUME UNCHANGED <<gone, claims>>, \A s \in Runners : Runs(s)' <=> Runs(s)
      PROVE  OnceStep
  <2>1. \A o \in Ops : Working(o)' = Working(o)
    BY <1>3 DEF Working, Runs
  <2> QED
    BY <1>0, <1>1, <1>3, <2>1, Stutters
<1>4. CASE \/ \E o \in Ops : Issue(o)
           \/ Connect \/ Disconnect \/ \E a \in acks : Settle(a)
           \/ UNCHANGED vars
  <2>1. UNCHANGED <<gone, claims, pc>>
    BY <1>4 DEF Issue, Connect, Disconnect, Settle, vars, threadVars, tableVars
  <2> QED
    BY <1>3, <2>1 DEF Runs
<1>5. ASSUME NEW r \in Runners, Accept(r) \/ Replay(r) \/ PollTimeout(r) \/ Send(r) \/ CallTimeout(r)
      PROVE  OnceStep
  <2>1. UNCHANGED <<gone, claims>>
    BY <1>5 DEF Accept, Replay, PollTimeout, Send, CallTimeout, threadVars, tableVars
  <2>2. CASE Accept(r)
    <3>1. pc[r] = "none"
      BY <2>2 DEF Accept, IInv, FramesOK
    <3>2. \A s \in Runners : Runs(s)' <=> Runs(s)
      BY <1>0, <2>2, <3>1 DEF Accept, Goes, Runs
    <3> QED
      BY <1>3, <2>1, <3>2
  <2>3. CASE Replay(r) \/ PollTimeout(r) \/ Send(r) \/ CallTimeout(r)
    <3>1. \A s \in Runners : Runs(s)' <=> Runs(s)
      BY <1>0, <2>3 DEF Replay, PollTimeout, Send, CallTimeout, Goes, Runs
    <3> QED
      BY <1>3, <2>1, <3>1
  <2> QED
    BY <1>5, <2>2, <2>3
<1>6. ASSUME NEW r \in Runners, Claim(r) \/ FinishFailed(r) \/ Finish(r) PROVE OnceStep
  <2>1. CASE gone
    BY <1>2, <1>6, <2>1 DEF Claim, FinishFailed, Finish, threadVars
  <2>2. CASE ~gone
    BY <1>6, <2>2, ClaimTakes, FinishEnds
  <2> QED
    BY <2>1, <2>2
<1>7. ASSUME NEW r \in Runners, RunDelete(r) PROVE OnceStep
  <2>1. CASE gone
    BY <1>2, <1>7, <2>1 DEF RunDelete
  <2>2. CASE ~gone
    <3>1. gone'
      BY <1>7, <2>2 DEF RunDelete
    <3>2. \A o \in Ops : RunnerAt(o)' = NoRunner /\ OutcomeAt(o)' = "lost"
      BY <3>1 DEF RunnerAt, OutcomeAt
    <3>3. RunnerOf' = [o \in Ops |-> NoRunner] /\ OutcomeOf' = [o \in Ops |-> "lost"]
      BY <3>2 DEF RunnerOf, OutcomeOf
    <3>4. Once!Close
      BY <3>3 DEF Once!Close, RunnerOf, OutcomeOf, RunnerAt, OutcomeAt
    <3> QED
      BY <3>4 DEF OnceStep, Once!Next
  <2> QED
    BY <2>1, <2>2
<1>8. CASE Erase
  BY <1>2, <1>8 DEF Erase, IInv, GoneOK
<1>9. CASE Handle
  <2>1. UNCHANGED <<gone, claims>> /\ inbox # <<>>
    BY <1>9 DEF Handle, tableVars
  <2>2. \A s \in Runners : Runs(s)' <=> Runs(s)
    BY <1>0, <1>9, <2>1, CallTaken DEF Handle, Goes, Runs, IInv, TypeOK
  <2> QED
    BY <1>3, <2>1, <2>2
<1>10. CASE Exit
  <2>1. UNCHANGED <<gone, claims>>
    BY <1>10 DEF Exit, tableVars
  <2>2. \A s \in Runners : Runs(s)' <=> Runs(s)
    BY <1>0, <1>10 DEF Exit, ActorExit, Hung, Runs
  <2> QED
    BY <1>3, <2>1, <2>2
<1>11. CASE Crash
  <2>1. CASE gone
    BY <1>2, <1>11, <2>1 DEF Crash
  <2>2. CASE ~gone
    BY <1>11, <2>2, CrashDies
  <2> QED
    BY <2>1, <2>2
<1> QED
  BY <1>4, <1>5, <1>6, <1>7, <1>8, <1>9, <1>10, <1>11 DEF Next, RunnerStep

\* The claim is a lock with a final outcome: at most one goroutine runs a
\* command, one that dies with the server is not replaced, and an outcome on
\* record stays (store.go ClaimCommand, ReleaseCommand, CompleteCommand).
THEOREM OneRunner == Spec => RunOnce
<1>1. IInv /\ [Next]_vars => [Once!Next]_<<RunnerOf, OutcomeOf>>
  BY OnceEveryStep DEF OnceStep
<1> QED
  BY <1>1, OnceInit, Invariant, PTL DEF Spec, RunOnce, Once!Spec, RunnerOf, OutcomeOf, RunnerAt, OutcomeAt
=============================================================================
