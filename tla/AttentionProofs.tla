--------------------------- MODULE AttentionProofs ---------------------------
(***************************************************************************)
(* Proofs about what a thread asks of a person.                             *)
(*                                                                         *)
(* Questions, for every set of asks, cards and presenters and any number of *)
(* refused events, exits and crashes: a request is settled in one way,      *)
(* nobody waits for an answer that cannot come, and the log is right about  *)
(* a card.                                                                  *)
(*                                                                         *)
(* Presenter, for any turns, calls and jobs and any number of events: a     *)
(* thread that says it waits for a prompt really has nothing under way.     *)
(***************************************************************************)
EXTENDS Questions, Presenter, FiniteSetTheorems, SequenceTheorems, TLAPS

-----------------------------------------------------------------------------
(* The inductive invariant.                                                 *)

ActorTypes ==
  /\ actor \in {"none", "viewed", "live"}
  /\ pending \subseteq Reqs /\ held \subseteq Asks
  /\ logged \in [Reqs -> Seq(Outcomes)]
AskTypes ==
  /\ waiter \in [Asks -> {"new", "asking", "waiting", "done"}]
  /\ chan \in [Asks -> Outcomes \cup {"empty"}]
  /\ got \in [Asks -> Outcomes \cup {"nothing"}]
  /\ orphaned \subseteq Asks
CardTypes ==
  /\ call \in [Cards -> {"new", "raising", "waiting", "over"}]
  /\ raises \subseteq Cards
  /\ book \in [Cards -> {"none", "held", "answered"}]
  /\ applied \in [Cards -> Nat]
ClientTypes == client \in [Clients -> ClientStates]
\* What is refused at once is a part of what is pending.
BoundTypes ==
  /\ fails \in Nat /\ exits \in Nat /\ crashes \in Nat /\ torn \subseteq Reqs
  /\ IsFiniteSet(pending)
Types == ActorTypes /\ AskTypes /\ CardTypes /\ ClientTypes /\ BoundTypes

\* A request that is shown has no resolution, and one that has is not shown.
LogOK ==
  \A r \in Reqs :
    /\ Len(logged[r]) <= 1
    /\ r \in pending => logged[r] = <<>>

\* An ask leaves no trace before the actor has it; what the actor has, its
\* harness waits for, unanswered.
AskOK ==
  \A r \in Asks :
    /\ waiter[r] \in {"new", "asking"} =>
         r \notin pending /\ r \notin held /\ logged[r] = <<>> /\ chan[r] = "empty"
    /\ waiter[r] = "asking" => actor = "live" \/ r \in orphaned
    /\ r \in held => /\ actor = "live" /\ waiter[r] = "waiting" /\ r \notin orphaned
                     /\ chan[r] = "empty" /\ logged[r] = <<>>

\* What is in the channel, and what the harness took out of it, is in the log.
SaidOK ==
  \A r \in Asks :
    /\ chan[r] \in Verdicts => logged[r] = <<chan[r]>> \/ r \in torn
    /\ got[r] \in Verdicts => logged[r] = <<got[r]>> \/ r \in torn
    /\ chan[r] = "cancelled" \/ got[r] = "cancelled" => r \in orphaned

Fresh(c) == /\ c \notin pending /\ logged[c] = <<>> /\ applied[c] = 0
            /\ book[c] # "answered"
            /\ \A p \in Clients : client[p].pc # "idle" => client[p].req # c

\* A card nobody was shown is untouched; one the server holds is undecided.
CardOK ==
  \A c \in Cards :
    /\ call[c] = "new" => c \notin raises /\ book[c] = "none"
    /\ call[c] = "new" \/ c \in raises => Fresh(c)
    /\ call[c] = "raising" => c \in raises
    /\ book[c] = "held" => applied[c] = 0 /\ logged[c] = <<>>
    /\ applied[c] <= 1
    /\ logged[c] = <<"yes">> => applied[c] = 1
    /\ logged[c] = <<"no">> => applied[c] = 0

\* How far a presenter's answer has come says what the card book holds.
ClientOK ==
  \A p \in Clients :
    /\ client[p].pc = "answer" => client[p].req \in Asks
    /\ client[p].pc \in {"find", "lock", "record", "cancel"} => client[p].req \in Cards
    /\ client[p].pc = "lock" => book[client[p].req] # "none"
    /\ client[p].pc = "record" =>
         /\ book[client[p].req] = "answered"
         /\ applied[client[p].req] = IF client[p].verdict = "yes" THEN 1 ELSE 0
    /\ client[p].pc = "cancel" => book[client[p].req] = "none"

IInv == /\ Types /\ LogOK /\ AskOK /\ SaidOK /\ CardOK /\ ClientOK
        /\ NobodyStranded

-----------------------------------------------------------------------------
(* Lemmas about the operators the model is built from.                      *)

LEMMA FirstEntry ==
  ASSUME NEW o
  PROVE  /\ Append(<<>>, o) = <<o>> /\ <<o>> # <<>>
         /\ Len(<<>>) = 0 /\ Len(<<o>>) = 1 /\ <<o>>[1] = o
  OBVIOUS

\* append of a request: shown, or refused and torn.
LEMMA RequestedEffect ==
  ASSUME NEW r, Requested(r)
  PROVE  /\ pending' = pending \cup {r} \/ (pending' = pending /\ r \in torn')
         /\ torn \subseteq torn' /\ torn' \subseteq torn \cup {r}
  BY DEF Requested, Refused

\* append of a resolution: in the log and no longer shown, or refused.
LEMMA ResolvedEffect ==
  ASSUME NEW r, NEW o, Resolved(r, o)
  PROVE  /\ \/ pending' = pending \ {r} /\ logged' = [logged EXCEPT ![r] = Append(@, o)]
            \/ pending' = pending /\ logged' = logged /\ r \in torn'
         /\ torn \subseteq torn' /\ torn' \subseteq torn \cup {r}
  BY DEF Resolved, Refused

\* The same, of a request without a resolution.
LEMMA FirstResolution ==
  ASSUME NEW r \in Reqs, NEW o, Resolved(r, o), ActorTypes, logged[r] = <<>>
  PROVE  /\ \A s \in Reqs : s # r => logged'[s] = logged[s] /\ (s \in pending' <=> s \in pending)
         /\ \/ r \notin pending' /\ logged'[r] = <<o>>
            \/ r \in torn' /\ logged'[r] = <<>>
         /\ torn \subseteq torn' /\ torn' \subseteq torn \cup {r}
<1>1. CASE pending' = pending \ {r} /\ logged' = [logged EXCEPT ![r] = Append(@, o)]
  BY <1>1, ResolvedEffect, FirstEntry DEF ActorTypes
<1>2. CASE pending' = pending /\ logged' = logged /\ r \in torn'
  BY <1>2, ResolvedEffect
<1> QED
  BY <1>1, <1>2, ResolvedEffect

\* A resume cancels what it finds lost, but for what the store refuses.
LEMMA ResumeEffect ==
  ASSUME Types, LogOK, Resume
  PROVE  /\ actor # "live" /\ actor' = "live"
         /\ UNCHANGED <<held, askVars, cardVars, client, exits, crashes>>
         /\ torn \subseteq torn' /\ torn' \subseteq torn \cup pending
         /\ pending' \subseteq pending
         /\ \A r \in Reqs :
              \/ /\ logged'[r] = logged[r]
                 /\ r \in pending' <=> r \in pending
                 /\ r \in LostAtResume => r \in torn'
              \/ r \in LostAtResume /\ r \notin pending' /\ logged[r] = <<>>
                 /\ logged'[r] = <<"cancelled">>
<1>1. PICK R \in SUBSET LostAtResume :
        /\ Refused(R)
        /\ pending' = pending \ (LostAtResume \ R)
        /\ logged' = [r \in Reqs |-> IF r \in LostAtResume \ R
                                     THEN Append(logged[r], "cancelled") ELSE logged[r]]
  BY DEF Resume
<1>2. /\ torn' = torn \cup R /\ LostAtResume \subseteq pending
  BY <1>1 DEF Refused, LostAtResume
<1>3. ASSUME NEW r \in Reqs, r \in LostAtResume, r \notin R
      PROVE  logged[r] = <<>> /\ logged'[r] = <<"cancelled">> /\ r \notin pending'
  <2>1. logged[r] = <<>>
    BY <1>2, <1>3 DEF LogOK
  <2> QED
    BY <1>1, <1>3, <2>1, FirstEntry
<1>4. ASSUME NEW r \in Reqs, r \notin LostAtResume \ R
      PROVE  /\ logged'[r] = logged[r] /\ (r \in pending' <=> r \in pending)
             /\ r \in LostAtResume => r \in torn'
  BY <1>1, <1>2, <1>4
<1>5. /\ actor # "live" /\ actor' = "live"
      /\ UNCHANGED <<held, askVars, cardVars, client, exits, crashes>>
  BY DEF Resume
<1>6. /\ torn \subseteq torn' /\ torn' \subseteq torn \cup pending
      /\ pending' \subseteq pending
  BY <1>1, <1>2
<1> QED
  BY <1>3, <1>4, <1>5, <1>6

-----------------------------------------------------------------------------
(* Types.                                                                   *)

\* The types and the type invariant of the model.
LEMMA TypesSuffice == Types => TypeOK
  BY DEF Types, ActorTypes, AskTypes, CardTypes, ClientTypes, BoundTypes, TypeOK

LEMMA TypesInit == Init => Types
<1> SUFFICES ASSUME Init PROVE Types
  OBVIOUS
<1>1. ActorTypes /\ AskTypes /\ CardTypes
  BY DEF Init, ActorTypes, AskTypes, CardTypes
<1>2. ClientTypes
  BY DEF Init, ClientTypes, ClientStates, Idle, Verdicts
<1>3. BoundTypes
  BY FS_EmptySet DEF Init, BoundTypes
<1> QED
  BY <1>1, <1>2, <1>3 DEF Types

\* Who a presenter's goroutine works for, by how far it is.
LEMMA ClientTyped ==
  ASSUME ClientTypes, NEW p \in Clients
  PROVE  /\ client[p].pc \in {"idle", "answer", "find", "lock", "record", "cancel"}
         /\ client[p].req \in Reqs \cup {NoReq} /\ client[p].verdict \in Verdicts
         /\ client[p] = [pc |-> client[p].pc, req |-> client[p].req, verdict |-> client[p].verdict]
  BY DEF ClientTypes, ClientStates

LEMMA GoesEffect ==
  ASSUME ClientTypes, NEW p \in Clients, NEW step,
         Goes(p, step)
  PROVE  /\ client'[p].pc = step /\ client'[p].req = client[p].req
         /\ client'[p].verdict = client[p].verdict
         /\ \A q \in Clients : q # p => client'[q] = client[q]
         /\ step \in {"idle", "answer", "find", "lock", "record", "cancel"} => ClientTypes'
<1>1. client' = [client EXCEPT ![p] = [client[p] EXCEPT !.pc = step]]
  BY DEF Goes
<1>2. client[p] = [pc |-> client[p].pc, req |-> client[p].req, verdict |-> client[p].verdict]
  BY ClientTyped
<1>3. [client[p] EXCEPT !.pc = step]
        = [pc |-> step, req |-> client[p].req, verdict |-> client[p].verdict]
  BY <1>2
<1>4. client'[p] = [pc |-> step, req |-> client[p].req, verdict |-> client[p].verdict]
  BY <1>1, <1>3 DEF ClientTypes
<1>5. \A q \in Clients : q # p => client'[q] = client[q]
  BY <1>1 DEF ClientTypes
<1>6. ASSUME step \in {"idle", "answer", "find", "lock", "record", "cancel"} PROVE ClientTypes'
  <2>1. [pc |-> step, req |-> client[p].req, verdict |-> client[p].verdict] \in ClientStates
    BY <1>6, ClientTyped DEF ClientStates
  <2> QED
    BY <1>1, <1>3, <2>1 DEF ClientTypes
<1> QED
  BY <1>4, <1>5, <1>6

LEMMA RepliedEffect ==
  ASSUME ClientTypes, NEW p \in Clients, Replied(p)
  PROVE  /\ client'[p].pc = "idle"
         /\ \A q \in Clients : q # p => client'[q] = client[q]
         /\ ClientTypes'
<1>1. Idle \in ClientStates /\ Idle.pc = "idle"
  BY DEF Idle, ClientStates, Verdicts
<1> QED
  BY <1>1 DEF Replied, ClientTypes

\* Appending to the log, and showing or resolving a request, keeps their types.
LEMMA LogTyped ==
  ASSUME ActorTypes, BoundTypes, NEW r \in Reqs, UNCHANGED <<exits, crashes>>,
         \/ Requested(r) /\ UNCHANGED logged
         \/ \E o \in Outcomes : Resolved(r, o)
         \/ UNCHANGED <<pending, logged, fails, torn>>
  PROVE  pending' \subseteq Reqs /\ logged' \in [Reqs -> Seq(Outcomes)] /\ BoundTypes'
<1>1. Cardinality({r}) = 1 /\ IsFiniteSet({r})
  BY FS_Singleton
<1>2. /\ fails' = fails \/ fails' = fails + Cardinality({r})
      /\ torn' = torn \/ torn' = torn \cup {r}
      /\ pending' = pending \/ pending' = pending \cup {r} \/ pending' = pending \ {r}
  BY DEF Requested, Resolved, Refused
<1>3. pending' \subseteq pending \cup {r} /\ pending' \subseteq Reqs
  BY <1>2 DEF ActorTypes
<1>4. IsFiniteSet(pending')
  <2>1. IsFiniteSet(pending \cup {r})
    BY <1>1, FS_Union DEF BoundTypes
  <2> QED
    BY <1>3, <2>1, FS_Subset
<1>5. fails' \in Nat /\ torn' \subseteq Reqs
  BY <1>1, <1>2 DEF BoundTypes
<1>6. ASSUME NEW o \in Outcomes PROVE [logged EXCEPT ![r] = Append(@, o)] \in [Reqs -> Seq(Outcomes)]
  <2>1. logged[r] \in Seq(Outcomes)
    BY DEF ActorTypes
  <2>2. Append(logged[r], o) \in Seq(Outcomes)
    BY <2>1
  <2> QED
    BY <2>2 DEF ActorTypes
<1>7. \/ logged' = logged
      \/ \E o \in Outcomes : logged' = [logged EXCEPT ![r] = Append(@, o)]
  BY DEF Requested, Resolved
<1>8. logged' \in [Reqs -> Seq(Outcomes)]
  BY <1>6, <1>7 DEF ActorTypes
<1> QED
  BY <1>3, <1>4, <1>5, <1>8 DEF BoundTypes

LEMMA TypesStep == Types /\ ClientOK /\ [Next]_vars => Types'
<1> SUFFICES ASSUME Types, ClientOK, [Next]_vars PROVE Types'
  OBVIOUS
<1>0. ActorTypes /\ AskTypes /\ CardTypes /\ ClientTypes /\ BoundTypes
  BY DEF Types
<1> USE DEF actorVars, askVars, cardVars, boundVars
<1>1. ASSUME NEW r \in Asks, Ask(r) \/ TakeAnswer(r) \/ TakeQuit(r) PROVE Types'
  <2>1. AskTypes'
    BY <1>0, <1>1 DEF Ask, TakeAnswer, TakeQuit, Returns, AskTypes, Outcomes
  <2>2. UNCHANGED <<actorVars, cardVars, client, boundVars>>
    BY <1>1 DEF Ask, TakeAnswer, TakeQuit, Returns
  <2> QED
    BY <1>0, <2>1, <2>2 DEF Types, ActorTypes, CardTypes, ClientTypes, BoundTypes
<1>2. ASSUME NEW r \in Asks, HandleAsk(r) PROVE Types'
  <2>1. r \in Reqs /\ Requested(r) /\ UNCHANGED <<actor, logged, exits, crashes>>
    BY <1>2 DEF HandleAsk, Reqs
  <2>4. pending' \subseteq Reqs /\ logged' \in [Reqs -> Seq(Outcomes)] /\ BoundTypes'
    BY <1>0, <2>1, LogTyped
  <2>2. ActorTypes'
    BY <1>0, <1>2, <2>4 DEF HandleAsk, ActorTypes
  <2>3. AskTypes'
    BY <1>0, <1>2 DEF HandleAsk, AskTypes
  <2> QED
    BY <1>0, <1>2, <2>2, <2>3, <2>4 DEF HandleAsk, Types, CardTypes, ClientTypes
<1>3. ASSUME NEW p \in Clients, NEW r \in Reqs, NEW v \in Verdicts, Answer(p, r, v) PROVE Types'
  <2>1. ClientTypes'
    BY <1>0, <1>3 DEF Answer, ClientTypes, ClientStates
  <2> QED
    BY <1>0, <1>3, <2>1 DEF Answer, Types, ActorTypes, AskTypes, CardTypes, BoundTypes
<1>4. ASSUME NEW p \in Clients, HandleAnswer(p) PROVE Types'
  <2> DEFINE r == client[p].req
             v == client[p].verdict
  <2>1. r \in Asks /\ v \in Outcomes
    BY <1>0, <1>4, ClientTyped DEF HandleAnswer, ClientOK, Outcomes
  <2>2. CASE r \in held
    <3>1. Resolved(r, v) /\ UNCHANGED <<actor, exits, crashes>> /\ held' = held \ {r}
      BY <1>4, <2>2 DEF HandleAnswer, LetGo
    <3>4. pending' \subseteq Reqs /\ logged' \in [Reqs -> Seq(Outcomes)] /\ BoundTypes'
      <4>1. r \in Reqs
        BY <2>1 DEF Reqs
      <4> HIDE DEF r, v
      <4> QED
        BY <1>0, <2>1, <3>1, <4>1, LogTyped
    <3>3. ActorTypes'
      BY <1>0, <3>1, <3>4 DEF ActorTypes
    <3>5. AskTypes'
      BY <1>0, <1>4, <2>1, <2>2 DEF HandleAnswer, Deliver, AskTypes
    <3> QED
      BY <1>0, <1>4, <3>3, <3>4, <3>5, RepliedEffect DEF HandleAnswer, Types, CardTypes
  <2>3. CASE r \notin held
    BY <1>0, <1>4, <2>3, RepliedEffect DEF HandleAnswer, Types, ActorTypes, AskTypes, CardTypes, BoundTypes
  <2> QED
    BY <2>2, <2>3
<1>5. ASSUME NEW p \in Clients, FindCard(p) PROVE Types'
  <2>1. ClientTypes'
    BY <1>0, <1>5, GoesEffect, RepliedEffect DEF FindCard
  <2>2. ActorTypes'
    BY <1>0, <1>5 DEF FindCard, View, ActorTypes
  <2> QED
    BY <1>0, <1>5, <2>1, <2>2 DEF FindCard, Types, AskTypes, CardTypes, BoundTypes
<1>6. ASSUME NEW p \in Clients, TakeCard(p) PROVE Types'
  <2>0. client[p].req \in Cards
    BY <1>6 DEF TakeCard, ClientOK
  <2>1. ClientTypes'
    BY <1>0, <1>6, GoesEffect, RepliedEffect DEF TakeCard
  <2>2. CardTypes'
    BY <1>0, <1>6, <2>0 DEF TakeCard, CardTypes
  <2> QED
    BY <1>0, <1>6, <2>1, <2>2 DEF TakeCard, Types, AskTypes, ActorTypes, BoundTypes
<1>7. ASSUME NEW p \in Clients, RecordAnswer(p) \/ CancelLost(p) PROVE Types'
  <2> DEFINE c == client[p].req
  <2>0. c \in Cards /\ c \in Reqs /\ client[p].verdict \in Outcomes /\ "cancelled" \in Outcomes
    BY <1>0, <1>7, ClientTyped DEF RecordAnswer, CancelLost, ClientOK, Outcomes, Reqs
  <2>1. \E o \in Outcomes : RecordOutcome(p, o)
    BY <1>7, <2>0 DEF RecordAnswer, CancelLost
  <2>2. ClientTypes'
    BY <1>0, <2>1, RepliedEffect DEF RecordOutcome
  <2>3. UNCHANGED <<held, exits, crashes>> /\ actor' = View
    BY <2>1 DEF RecordOutcome
  <2>5. pending' \subseteq Reqs /\ logged' \in [Reqs -> Seq(Outcomes)] /\ BoundTypes'
    <3>1. \/ \E o \in Outcomes : Resolved(c, o)
          \/ UNCHANGED <<pending, logged, fails, torn>>
      BY <2>1 DEF RecordOutcome
    <3> HIDE DEF c
    <3> QED
      BY <1>0, <2>0, <2>3, <3>1, LogTyped
  <2>4. ActorTypes'
    BY <1>0, <2>3, <2>5 DEF View, ActorTypes
  <2> QED
    BY <1>0, <2>1, <2>2, <2>4, <2>5 DEF RecordOutcome, Types, AskTypes, CardTypes
<1>8. ASSUME NEW c \in Cards, Raise(c) PROVE Types'
  <2>1. ActorTypes' /\ CardTypes'
    BY <1>0, <1>8 DEF Raise, View, ActorTypes, CardTypes
  <2> QED
    BY <1>0, <1>8, <2>1 DEF Raise, Types, AskTypes, ClientTypes, BoundTypes
<1>9. ASSUME NEW c \in Cards, HandleRaise(c) PROVE Types'
  <2>1. c \in Reqs /\ Requested(c) /\ UNCHANGED <<actor, logged, held, exits, crashes>>
    BY <1>9 DEF HandleRaise, Reqs
  <2>4. pending' \subseteq Reqs /\ logged' \in [Reqs -> Seq(Outcomes)] /\ BoundTypes'
    BY <1>0, <2>1, LogTyped
  <2>2. ActorTypes' /\ BoundTypes'
    BY <1>0, <2>1, <2>4 DEF ActorTypes
  <2>3. CardTypes'
    BY <1>0, <1>9 DEF HandleRaise, CardTypes
  <2> QED
    BY <1>0, <1>9, <2>2, <2>3 DEF HandleRaise, Types, AskTypes, ClientTypes
<1>10. ASSUME NEW c \in Cards, Leave(c) PROVE Types'
  <2>1. CardTypes'
    BY <1>0, <1>10 DEF Leave, CardTypes
  <2> QED
    BY <1>0, <1>10, <2>1 DEF Leave, Types, ActorTypes, AskTypes, ClientTypes, BoundTypes
<1>11. CASE Resume
  <2>1. PICK R \in SUBSET LostAtResume :
          /\ Refused(R)
          /\ pending' = pending \ (LostAtResume \ R)
          /\ logged' = [r \in Reqs |-> IF r \in LostAtResume \ R
                                       THEN Append(logged[r], "cancelled") ELSE logged[r]]
    BY <1>11 DEF Resume
  <2>2. R \subseteq pending /\ pending' \subseteq pending
    BY <2>1 DEF LostAtResume
  <2>3. ActorTypes'
    <3>1. logged' \in [Reqs -> Seq(Outcomes)]
      BY <1>0, <2>1 DEF ActorTypes, Outcomes
    <3> QED
      BY <1>0, <1>11, <2>2, <3>1 DEF Resume, ActorTypes
  <2>4. BoundTypes'
    <3>1. Cardinality(R) \in Nat
      BY <1>0, <2>2, FS_Subset, FS_CardinalityType DEF BoundTypes
    <3>2. IsFiniteSet(pending')
      BY <1>0, <2>2, FS_Subset DEF BoundTypes
    <3>3. torn' = torn \cup R /\ fails' = fails + Cardinality(R)
      BY <2>1 DEF Refused
    <3> QED
      BY <1>0, <1>11, <2>2, <3>1, <3>2, <3>3 DEF Resume, BoundTypes, ActorTypes
  <2> QED
    BY <1>0, <1>11, <2>3, <2>4 DEF Resume, Types, AskTypes, CardTypes, ClientTypes
<1>12. CASE Exit
  <2>1. ActorTypes' /\ BoundTypes'
    BY <1>0, <1>12 DEF Exit, ActorTypes, BoundTypes
  <2>2. AskTypes'
    BY <1>0, <1>12 DEF Exit, Released, Deliver, AskTypes, Outcomes
  <2>3. CardTypes'
    BY <1>0, <1>12 DEF Exit, CardTypes
  <2>4. ClientTypes'
    <3>1. Idle \in ClientStates
      BY DEF Idle, ClientStates, Verdicts
    <3> QED
      BY <1>0, <1>12, <3>1 DEF Exit, ClientTypes
  <2> QED
    BY <2>1, <2>2, <2>3, <2>4 DEF Types
<1>13. CASE Crash
  <2>1. ActorTypes' /\ BoundTypes'
    BY <1>0, <1>13 DEF Crash, ActorTypes, BoundTypes
  <2>2. AskTypes'
    BY <1>0, <1>13 DEF Crash, AskTypes
  <2>3. CardTypes'
    BY <1>0, <1>13 DEF Crash, CardTypes
  <2>4. ClientTypes'
    <3>1. Idle \in ClientStates
      BY DEF Idle, ClientStates, Verdicts
    <3> QED
      BY <1>13, <3>1 DEF Crash, ClientTypes
  <2> QED
    BY <2>1, <2>2, <2>3, <2>4 DEF Types
<1>14. CASE UNCHANGED vars
  BY <1>0, <1>14 DEF vars, Types, ActorTypes, AskTypes, CardTypes, ClientTypes, BoundTypes
<1> QED
  BY <1>1, <1>2, <1>3, <1>4, <1>5, <1>6, <1>7, <1>8, <1>9, <1>10, <1>11, <1>12, <1>13, <1>14 DEF Next

-----------------------------------------------------------------------------
(* Each part of the invariant, over every step.                             *)

LEMMA InvInit == Init => IInv
<1> SUFFICES ASSUME Init PROVE IInv
  OBVIOUS
<1>1. LogOK
  BY DEF Init, LogOK
<1>2. AskOK /\ SaidOK /\ NobodyStranded
  <2>1. \A r \in Asks : r \in Reqs
    BY DEF Reqs
  <2> QED
    BY <2>1 DEF Init, AskOK, SaidOK, NobodyStranded, Verdicts
<1>3. CardOK
  <2>1. \A c \in Cards : c \in Reqs
    BY DEF Reqs
  <2>2. \A p \in Clients : client[p].pc = "idle"
    BY DEF Init, Idle
  <2> QED
    BY <2>1, <2>2 DEF Init, CardOK, Fresh
<1>4. ClientOK
  BY DEF Init, ClientOK, Idle
<1> QED
  BY <1>1, <1>2, <1>3, <1>4, TypesInit DEF IInv

LEMMA LogStep == IInv /\ [Next]_vars => LogOK'
<1> SUFFICES ASSUME IInv, [Next]_vars PROVE LogOK'
  OBVIOUS
<1>0. Types /\ ActorTypes /\ ClientTypes /\ LogOK /\ AskOK /\ CardOK /\ ClientOK
  BY DEF IInv, Types
<1> USE DEF actorVars, askVars, cardVars, boundVars
<1>1. ASSUME UNCHANGED <<pending, logged>> PROVE LogOK'
  BY <1>0, <1>1 DEF LogOK
<1>2. ASSUME NEW r \in Reqs, Requested(r), UNCHANGED logged, logged[r] = <<>> PROVE LogOK'
  BY <1>0, <1>2, RequestedEffect DEF LogOK
<1>3. ASSUME NEW r \in Reqs, NEW o, Resolved(r, o), logged[r] = <<>> PROVE LogOK'
  <2>1. /\ \A s \in Reqs : s # r => logged'[s] = logged[s] /\ (s \in pending' <=> s \in pending)
        /\ \/ r \notin pending' /\ logged'[r] = <<o>>
           \/ logged'[r] = <<>>
    BY <1>0, <1>3, FirstResolution
  <2>2. Len(logged'[r]) <= 1 /\ (r \in pending' => logged'[r] = <<>>)
    <3>1. CASE r \notin pending' /\ logged'[r] = <<o>>
      <4>1. Len(logged'[r]) = 1
        BY <3>1, FirstEntry
      <4> QED
        BY <3>1, <4>1
    <3>2. CASE logged'[r] = <<>>
      <4>1. Len(logged'[r]) = 0
        BY <3>2, FirstEntry
      <4> QED
        BY <3>2, <4>1
    <3> QED
      BY <2>1, <3>1, <3>2
  <2> QED
    BY <1>0, <2>1, <2>2 DEF LogOK
<1>4. ASSUME NEW r \in Asks, HandleAsk(r) PROVE LogOK'
  BY <1>0, <1>2, <1>4 DEF HandleAsk, AskOK, Reqs
<1>5. ASSUME NEW p \in Clients, HandleAnswer(p) PROVE LogOK'
  <2>1. CASE client[p].req \in held
    <3>1. /\ client[p].req \in Reqs /\ logged[client[p].req] = <<>>
          /\ Resolved(client[p].req, client[p].verdict)
      BY <1>0, <1>5, <2>1 DEF HandleAnswer, ClientOK, AskOK, Reqs
    <3> QED
      BY <1>3, <3>1
  <2>2. CASE client[p].req \notin held
    BY <1>1, <1>5, <2>2 DEF HandleAnswer
  <2> QED
    BY <2>1, <2>2
<1>6. ASSUME NEW p \in Clients, NEW o, RecordOutcome(p, o), client[p].req \in Cards PROVE LogOK'
  <2>1. CASE client[p].req \in pending
    <3>1. /\ client[p].req \in Reqs /\ logged[client[p].req] = <<>>
          /\ Resolved(client[p].req, o)
      BY <1>0, <1>6, <2>1 DEF RecordOutcome, Waits, LogOK, Reqs
    <3> QED
      BY <1>3, <3>1
  <2>2. CASE client[p].req \notin pending
    BY <1>1, <1>6, <2>2 DEF RecordOutcome, Waits
  <2> QED
    BY <2>1, <2>2
<1>7. ASSUME NEW p \in Clients, RecordAnswer(p) \/ CancelLost(p) PROVE LogOK'
  BY <1>0, <1>6, <1>7 DEF RecordAnswer, CancelLost, ClientOK
<1>8. ASSUME NEW c \in Cards, HandleRaise(c) PROVE LogOK'
  BY <1>0, <1>2, <1>8 DEF HandleRaise, CardOK, Fresh, Reqs
<1>9. CASE Resume
  <2> SUFFICES ASSUME NEW r \in Reqs
      PROVE  Len(logged'[r]) <= 1 /\ (r \in pending' => logged'[r] = <<>>)
    BY DEF LogOK
  <2>1. \/ logged'[r] = logged[r] /\ (r \in pending' <=> r \in pending)
        \/ r \notin pending' /\ logged'[r] = <<"cancelled">>
    BY <1>0, <1>9, ResumeEffect
  <2>2. CASE logged'[r] = logged[r] /\ (r \in pending' <=> r \in pending)
    BY <1>0, <2>2 DEF LogOK
  <2>3. CASE r \notin pending' /\ logged'[r] = <<"cancelled">>
    <3>1. Len(logged'[r]) = 1
      BY <2>3, FirstEntry
    <3> QED
      BY <2>3, <3>1
  <2> QED
    BY <2>1, <2>2, <2>3
<1>10. CASE \/ \E r \in Asks : Ask(r) \/ TakeAnswer(r) \/ TakeQuit(r)
            \/ \E p \in Clients, r \in Reqs, v \in Verdicts : Answer(p, r, v)
            \/ \E p \in Clients : FindCard(p) \/ TakeCard(p)
            \/ \E c \in Cards : Raise(c) \/ Leave(c)
            \/ Exit \/ Crash \/ UNCHANGED vars
  BY <1>1, <1>10 DEF Ask, TakeAnswer, TakeQuit, Returns, Answer, FindCard, TakeCard,
     Raise, Leave, Exit, Crash, vars
<1> QED
  BY <1>4, <1>5, <1>7, <1>8, <1>9, <1>10 DEF Next

LEMMA AskStep == IInv /\ [Next]_vars => AskOK'
<1> SUFFICES ASSUME IInv, [Next]_vars PROVE AskOK'
  OBVIOUS
<1>0. /\ Types /\ ActorTypes /\ AskTypes /\ ClientTypes /\ LogOK /\ AskOK /\ CardOK /\ ClientOK
      /\ \A s \in Asks : s \in Reqs /\ s \notin Cards
  BY QuestionConstants DEF IInv, Types, Reqs
<1> USE DEF actorVars, askVars, cardVars, boundVars
\* Nothing of an ask changes but whether it is shown.
<1>1. ASSUME UNCHANGED <<held, waiter, chan, orphaned>>, actor = "live" => actor' = "live",
             \A s \in Asks : logged'[s] = logged[s] /\ (s \in pending' => s \in pending)
      PROVE  AskOK'
  BY <1>0, <1>1 DEF AskOK
<1>2. ASSUME NEW r \in Asks, Ask(r) PROVE AskOK'
  BY <1>0, <1>2 DEF Ask, AskOK, AskTypes
<1>3. ASSUME NEW r \in Asks, HandleAsk(r) PROVE AskOK'
  <2>1. /\ waiter[r] = "asking" /\ r \notin orphaned /\ held' = held \cup {r}
        /\ waiter' = [waiter EXCEPT ![r] = "waiting"]
        /\ UNCHANGED <<actor, logged, chan, orphaned>>
    BY <1>3 DEF HandleAsk
  <2>2. pending' \subseteq pending \cup {r}
    BY <1>3, RequestedEffect DEF HandleAsk
  <2> QED
    BY <1>0, <2>1, <2>2 DEF AskOK, AskTypes
<1>4. ASSUME NEW r \in Asks, TakeAnswer(r) \/ TakeQuit(r) PROVE AskOK'
  <2>1. /\ waiter' = [waiter EXCEPT ![r] = "done"]
        /\ UNCHANGED <<actor, pending, logged, held, chan, orphaned>>
        /\ r \notin held
    BY <1>0, <1>4 DEF TakeAnswer, TakeQuit, Returns, AskOK
  <2> QED
    BY <1>0, <2>1 DEF AskOK, AskTypes
<1>5. ASSUME NEW p \in Clients, HandleAnswer(p) PROVE AskOK'
  <2> DEFINE r == client[p].req
  <2>1. CASE r \in held
    <3>1. /\ r \in Asks /\ r \in Reqs /\ logged[r] = <<>> /\ waiter[r] = "waiting"
          /\ Resolved(r, client[p].verdict) /\ held' = held \ {r}
          /\ UNCHANGED <<actor, waiter, orphaned>>
          /\ \A s \in Asks : s # r => chan'[s] = chan[s]
      BY <1>0, <1>5, <2>1 DEF HandleAnswer, LetGo, ClientOK, AskOK, AskTypes
    <3>2. \A s \in Reqs : s # r => logged'[s] = logged[s] /\ (s \in pending' <=> s \in pending)
      BY <1>0, <3>1, FirstResolution
    <3> HIDE DEF r
    <3> QED
      BY <1>0, <3>1, <3>2 DEF AskOK
  <2>2. CASE r \notin held
    BY <1>1, <1>5, <2>2 DEF HandleAnswer
  <2> QED
    BY <2>1, <2>2
<1>6. ASSUME NEW p \in Clients, RecordAnswer(p) \/ CancelLost(p) PROVE AskOK'
  <2> DEFINE c == client[p].req
  <2>1. /\ c \in Cards /\ c \in Reqs /\ UNCHANGED <<held, waiter, chan, orphaned>>
        /\ actor = "live" => actor' = "live"
    BY <1>0, <1>6 DEF RecordAnswer, CancelLost, RecordOutcome, View, ClientOK, Reqs
  <2>2. CASE c \in pending
    <3>1. logged[c] = <<>> /\ \E o \in Outcomes : Resolved(c, o)
      BY <1>0, <1>6, <2>1, <2>2, ClientTyped DEF RecordAnswer, CancelLost, RecordOutcome, Waits,
         Outcomes, LogOK
    <3>2. \A s \in Reqs : s # c => logged'[s] = logged[s] /\ (s \in pending' <=> s \in pending)
      BY <1>0, <2>1, <3>1, FirstResolution
    <3> QED
      BY <1>0, <1>1, <2>1, <3>2
  <2>3. CASE c \notin pending
    BY <1>1, <1>6, <2>1, <2>3 DEF RecordAnswer, CancelLost, RecordOutcome, Waits
  <2> QED
    BY <2>2, <2>3
<1>7. ASSUME NEW c \in Cards, HandleRaise(c) PROVE AskOK'
  <2>1. pending' \subseteq pending \cup {c}
    BY <1>7, RequestedEffect DEF HandleRaise
  <2> QED
    BY <1>0, <1>1, <1>7, <2>1 DEF HandleRaise
<1>8. CASE Resume
  <2>1. /\ actor # "live" /\ actor' = "live" /\ UNCHANGED <<held, waiter, chan, orphaned>>
        /\ pending' \subseteq pending
        /\ \A s \in Reqs : logged'[s] = logged[s] \/ s \in pending
    BY <1>0, <1>8, ResumeEffect DEF LostAtResume
  <2> QED
    BY <1>0, <2>1 DEF AskOK
<1>9. CASE Exit
  <2>1. /\ actor' = "none" /\ held' = {} /\ UNCHANGED <<pending, logged, waiter>>
        /\ \A s \in Asks : s \notin held => chan'[s] = chan[s]
        /\ \A s \in Asks : waiter[s] = "asking" => s \in orphaned'
    BY <1>9 DEF Exit, Released
  <2> QED
    BY <1>0, <2>1 DEF AskOK
<1>10. CASE Crash
  <2>1. /\ held' = {} /\ UNCHANGED <<pending, logged, chan>>
        /\ \A s \in Asks : (waiter'[s] = waiter[s] /\ waiter[s] = "new") \/ waiter'[s] = "done"
    BY <1>10 DEF Crash
  <2> QED
    BY <1>0, <2>1 DEF AskOK
<1>11. CASE \/ \E p \in Clients, r \in Reqs, v \in Verdicts : Answer(p, r, v)
            \/ \E p \in Clients : FindCard(p) \/ TakeCard(p)
            \/ \E c \in Cards : Raise(c) \/ Leave(c)
            \/ UNCHANGED vars
  BY <1>1, <1>11 DEF Answer, FindCard, TakeCard, Raise, Leave, View, vars
<1> QED
  BY <1>2, <1>3, <1>4, <1>5, <1>6, <1>7, <1>8, <1>9, <1>10, <1>11 DEF Next

LEMMA SaidStep == IInv /\ [Next]_vars => SaidOK'
<1> SUFFICES ASSUME IInv, [Next]_vars PROVE SaidOK'
  OBVIOUS
<1>0. /\ Types /\ ActorTypes /\ AskTypes /\ ClientTypes /\ LogOK /\ AskOK /\ SaidOK /\ ClientOK
      /\ \A s \in Asks : s \in Reqs /\ s \notin Cards
      /\ "cancelled" \notin Verdicts /\ "empty" \notin Verdicts /\ "nothing" \notin Verdicts
  BY QuestionConstants DEF IInv, Types, Reqs, Verdicts
<1> USE DEF actorVars, askVars, cardVars, boundVars
\* Nothing is said, and no resolution of an ask is lost.
<1>1. ASSUME UNCHANGED <<chan, got>>, torn \subseteq torn', orphaned \subseteq orphaned',
             \A s \in Asks : logged[s] # <<>> => logged'[s] = logged[s]
      PROVE  SaidOK'
  <2>1. \A v : <<v>> # <<>>
    BY FirstEntry
  <2> QED
    BY <1>0, <1>1, <2>1 DEF SaidOK
<1>2. ASSUME NEW r \in Asks, TakeAnswer(r) PROVE SaidOK'
  BY <1>0, <1>2 DEF TakeAnswer, Returns, SaidOK, AskTypes
<1>3. ASSUME NEW r \in Asks, TakeQuit(r) PROVE SaidOK'
  BY <1>0, <1>3 DEF TakeQuit, Returns, SaidOK, AskTypes
<1>4. ASSUME NEW r \in Asks, HandleAsk(r) PROVE SaidOK'
  BY <1>1, <1>4, RequestedEffect DEF HandleAsk
<1>5. ASSUME NEW p \in Clients, HandleAnswer(p) PROVE SaidOK'
  <2> DEFINE r == client[p].req
             v == client[p].verdict
  <2>1. CASE r \in held
    <3>1. /\ r \in Asks /\ r \in Reqs /\ logged[r] = <<>> /\ chan[r] = "empty" /\ v \in Verdicts
          /\ Resolved(r, v) /\ chan' = [chan EXCEPT ![r] = v]
          /\ UNCHANGED <<got, orphaned>>
      BY <1>0, <1>5, <2>1, ClientTyped DEF HandleAnswer, Deliver, ClientOK, AskOK
    <3>2. /\ \A s \in Reqs : s # r => logged'[s] = logged[s]
          /\ \/ logged'[r] = <<v>>
             \/ r \in torn'
          /\ torn \subseteq torn'
      BY <1>0, <3>1, FirstResolution
    <3>3. got[r] \in Verdicts => r \in torn
      BY <1>0, <3>1, FirstEntry DEF SaidOK
    <3> HIDE DEF r, v
    <3> QED
      BY <1>0, <3>1, <3>2, <3>3 DEF SaidOK, AskTypes
  <2>2. CASE r \notin held
    BY <1>1, <1>5, <2>2 DEF HandleAnswer
  <2> QED
    BY <2>1, <2>2
<1>6. ASSUME NEW p \in Clients, RecordAnswer(p) \/ CancelLost(p) PROVE SaidOK'
  <2> DEFINE c == client[p].req
  <2>1. /\ c \in Cards /\ c \in Reqs /\ UNCHANGED <<chan, got, orphaned>>
    BY <1>0, <1>6 DEF RecordAnswer, CancelLost, RecordOutcome, ClientOK, Reqs
  <2>2. CASE c \in pending
    <3>1. logged[c] = <<>> /\ \E o \in Outcomes : Resolved(c, o)
      BY <1>0, <1>6, <2>1, <2>2, ClientTyped DEF RecordAnswer, CancelLost, RecordOutcome, Waits,
         Outcomes, LogOK
    <3>2. torn \subseteq torn' /\ \A s \in Reqs : s # c => logged'[s] = logged[s]
      BY <1>0, <2>1, <3>1, FirstResolution
    <3> QED
      BY <1>0, <1>1, <2>1, <3>2
  <2>3. CASE c \notin pending
    BY <1>1, <1>6, <2>1, <2>3 DEF RecordAnswer, CancelLost, RecordOutcome, Waits
  <2> QED
    BY <2>2, <2>3
<1>7. ASSUME NEW c \in Cards, HandleRaise(c) PROVE SaidOK'
  BY <1>1, <1>7, RequestedEffect DEF HandleRaise
<1>8. CASE Resume
  <2>1. /\ UNCHANGED <<chan, got, orphaned>> /\ torn \subseteq torn'
        /\ \A s \in Reqs : logged'[s] = logged[s] \/ logged[s] = <<>>
    BY <1>0, <1>8, ResumeEffect
  <2> QED
    BY <1>0, <1>1, <2>1
<1>9. CASE Exit
  <2>1. /\ UNCHANGED <<logged, got, torn>> /\ orphaned \subseteq orphaned'
        /\ \A s \in Asks : s \notin held => chan'[s] = chan[s]
        /\ \A s \in Asks : s \in held => chan'[s] = "cancelled" /\ s \in orphaned'
    BY <1>0, <1>9 DEF Exit, Released, Deliver, AskOK
  <2> QED
    BY <1>0, <2>1 DEF SaidOK
<1>10. CASE \/ \E r \in Asks : Ask(r)
            \/ \E p \in Clients, r \in Reqs, v \in Verdicts : Answer(p, r, v)
            \/ \E p \in Clients : FindCard(p) \/ TakeCard(p)
            \/ \E c \in Cards : Raise(c) \/ Leave(c)
            \/ Crash \/ UNCHANGED vars
  BY <1>1, <1>10 DEF Ask, Answer, FindCard, TakeCard, Raise, Leave, Crash, vars
<1> QED
  BY <1>2, <1>3, <1>4, <1>5, <1>6, <1>7, <1>8, <1>9, <1>10 DEF Next

LEMMA StrandStep == IInv /\ [Next]_vars => NobodyStranded'
<1> SUFFICES ASSUME IInv, [Next]_vars PROVE NobodyStranded'
  OBVIOUS
<1>0. /\ Types /\ ActorTypes /\ AskTypes /\ ClientTypes /\ LogOK /\ AskOK /\ ClientOK
      /\ NobodyStranded
      /\ \A s \in Asks : s \in Reqs /\ s \notin Cards
  BY QuestionConstants DEF IInv, Types, Reqs
<1> USE DEF actorVars, askVars, cardVars, boundVars
\* Nobody new waits, and whoever waited can be answered as before.
<1>1. ASSUME UNCHANGED <<held, chan, orphaned>>, torn \subseteq torn',
             actor' = "live" => actor = "live",
             \A s \in Asks : /\ waiter'[s] = "waiting" => waiter[s] = "waiting"
                             /\ s \in pending' <=> s \in pending
      PROVE  NobodyStranded'
  BY <1>0, <1>1 DEF NobodyStranded
<1>2. ASSUME NEW r \in Asks, Ask(r) \/ TakeAnswer(r) \/ TakeQuit(r) PROVE NobodyStranded'
  <2>1. /\ UNCHANGED <<held, chan, orphaned, torn, actor, pending>>
        /\ \A s \in Asks : waiter'[s] = "waiting" => waiter[s] = "waiting"
    BY <1>0, <1>2 DEF Ask, TakeAnswer, TakeQuit, Returns, AskTypes
  <2> QED
    BY <1>1, <2>1
<1>3. ASSUME NEW r \in Asks, HandleAsk(r) PROVE NobodyStranded'
  <2>1. /\ held' = held \cup {r} /\ UNCHANGED <<actor, chan, orphaned>>
        /\ waiter' = [waiter EXCEPT ![r] = "waiting"]
    BY <1>3 DEF HandleAsk
  <2>2. /\ r \in pending' \/ r \in torn'
        /\ \A s \in Asks : s # r => (s \in pending' <=> s \in pending)
    BY <1>3, RequestedEffect DEF HandleAsk
  <2>3. torn \subseteq torn'
    BY <1>3, RequestedEffect DEF HandleAsk
  <2> QED
    BY <1>0, <2>1, <2>2, <2>3 DEF NobodyStranded, AskTypes
<1>4. ASSUME NEW p \in Clients, HandleAnswer(p) PROVE NobodyStranded'
  <2> DEFINE r == client[p].req
             v == client[p].verdict
  <2>1. CASE r \in held
    <3>1. /\ r \in Asks /\ r \in Reqs /\ logged[r] = <<>> /\ chan[r] = "empty" /\ v # "empty"
          /\ Resolved(r, v) /\ chan' = [chan EXCEPT ![r] = v] /\ held' = held \ {r}
          /\ UNCHANGED <<actor, waiter, orphaned>>
      BY <1>0, <1>4, <2>1, ClientTyped DEF HandleAnswer, LetGo, Deliver, ClientOK, AskOK, Verdicts
    <3>2. /\ \A s \in Reqs : s # r => (s \in pending' <=> s \in pending)
          /\ \/ r \notin pending'
             \/ r \in torn'
          /\ torn \subseteq torn'
      BY <1>0, <3>1, FirstResolution
    <3> HIDE DEF r, v
    <3> QED
      BY <1>0, <3>1, <3>2 DEF NobodyStranded, AskTypes
  <2>2. CASE r \notin held
    BY <1>1, <1>4, <2>2 DEF HandleAnswer
  <2> QED
    BY <2>1, <2>2
<1>5. ASSUME NEW p \in Clients, RecordAnswer(p) \/ CancelLost(p) PROVE NobodyStranded'
  <2> DEFINE c == client[p].req
  <2>1. /\ c \in Cards /\ c \in Reqs /\ UNCHANGED <<held, chan, waiter, orphaned>>
        /\ actor' = "live" => actor = "live"
    BY <1>0, <1>5 DEF RecordAnswer, CancelLost, RecordOutcome, View, ClientOK, Reqs
  <2>2. CASE c \in pending
    <3>1. logged[c] = <<>> /\ \E o \in Outcomes : Resolved(c, o)
      BY <1>0, <1>5, <2>1, <2>2, ClientTyped DEF RecordAnswer, CancelLost, RecordOutcome, Waits,
         Outcomes, LogOK
    <3>2. torn \subseteq torn' /\ \A s \in Reqs : s # c => (s \in pending' <=> s \in pending)
      BY <1>0, <2>1, <3>1, FirstResolution
    <3> QED
      BY <1>0, <1>1, <2>1, <3>2
  <2>3. CASE c \notin pending
    BY <1>1, <1>5, <2>1, <2>3 DEF RecordAnswer, CancelLost, RecordOutcome, Waits
  <2> QED
    BY <2>2, <2>3
<1>6. ASSUME NEW c \in Cards, HandleRaise(c) PROVE NobodyStranded'
  <2>1. /\ torn \subseteq torn' /\ UNCHANGED <<actor, held, chan, waiter, orphaned>>
        /\ \A s \in Asks : s \in pending' <=> s \in pending
    BY <1>0, <1>6, RequestedEffect DEF HandleRaise
  <2> QED
    BY <1>1, <2>1
<1>7. CASE Resume
  <2>1. /\ actor # "live" /\ UNCHANGED <<held, chan, waiter, orphaned>> /\ torn \subseteq torn'
    BY <1>0, <1>7, ResumeEffect
  <2>2. \A s \in Asks : s \notin held
    BY <1>0, <2>1 DEF AskOK
  <2>3. \A s \in Asks : s \in pending' => s \in torn'
    <3> SUFFICES ASSUME NEW s \in Asks, s \in pending' PROVE s \in torn'
      OBVIOUS
    <3>1. s \in LostAtResume
      BY <1>0, <1>7, ResumeEffect DEF LostAtResume
    <3> QED
      BY <1>0, <1>7, <3>1, ResumeEffect
  <2> QED
    BY <1>0, <2>1, <2>2, <2>3 DEF NobodyStranded
<1>8. CASE Exit
  <2>1. /\ actor' = "none" /\ orphaned \subseteq orphaned' /\ UNCHANGED <<waiter, torn>>
        /\ \A s \in Asks : waiter[s] = "waiting" => s \in orphaned'
    BY <1>8 DEF Exit
  <2> QED
    BY <1>0, <2>1 DEF NobodyStranded
<1>9. CASE Crash
  <2>1. actor' = "none" /\ \A s \in Asks : waiter'[s] # "waiting"
    BY <1>9 DEF Crash
  <2> QED
    BY <2>1 DEF NobodyStranded
<1>10. CASE \/ \E p \in Clients, r \in Reqs, v \in Verdicts : Answer(p, r, v)
            \/ \E p \in Clients : FindCard(p) \/ TakeCard(p)
            \/ \E c \in Cards : Raise(c) \/ Leave(c)
            \/ UNCHANGED vars
  BY <1>1, <1>10 DEF Answer, FindCard, TakeCard, Raise, Leave, View, vars
<1> QED
  BY <1>2, <1>3, <1>4, <1>5, <1>6, <1>7, <1>8, <1>9, <1>10 DEF Next

LEMMA ClientStep == IInv /\ [Next]_vars => ClientOK'
<1> SUFFICES ASSUME IInv, [Next]_vars PROVE ClientOK'
  OBVIOUS
<1>0. /\ Types /\ CardTypes /\ ClientTypes /\ CardOK /\ ClientOK
      /\ Asks \cap Cards = {}
  BY QuestionConstants DEF IInv, Types
<1> USE DEF actorVars, askVars, cardVars, boundVars
\* Nobody answers, and no card somebody answers changes.
<1>1. ASSUME UNCHANGED client,
             \A p \in Clients : client[p].pc \in {"lock", "record", "cancel"} =>
               UNCHANGED <<book[client[p].req], applied[client[p].req]>>
      PROVE  ClientOK'
  BY <1>0, <1>1 DEF ClientOK
\* One goroutine has replied.
<1>2. ASSUME NEW p \in Clients, Replied(p), UNCHANGED <<book, applied>> PROVE ClientOK'
  <2>1. client'[p].pc = "idle" /\ \A q \in Clients : q # p => client'[q] = client[q]
    BY <1>0, <1>2, RepliedEffect
  <2> QED
    BY <1>0, <1>2, <2>1 DEF ClientOK
<1>3. ASSUME NEW p \in Clients, NEW r \in Reqs, NEW v \in Verdicts, Answer(p, r, v) PROVE ClientOK'
  <2>1. /\ client'[p].pc = IF r \in Asks THEN "answer" ELSE "find"
        /\ client'[p].req = r /\ \A q \in Clients : q # p => client'[q] = client[q]
        /\ UNCHANGED <<book, applied>>
    BY <1>0, <1>3 DEF Answer, ClientTypes
  <2> QED
    BY <1>0, <2>1 DEF ClientOK, Reqs
<1>4. ASSUME NEW p \in Clients, HandleAnswer(p) \/ RecordAnswer(p) \/ CancelLost(p) PROVE ClientOK'
  BY <1>2, <1>4 DEF HandleAnswer, RecordAnswer, CancelLost, RecordOutcome
<1>5. ASSUME NEW p \in Clients, FindCard(p) PROVE ClientOK'
  <2> DEFINE c == client[p].req
  <2>1. UNCHANGED <<book, applied>> /\ c \in Cards
    BY <1>0, <1>5 DEF FindCard, ClientOK
  <2>2. \/ book[c] # "none" /\ Goes(p, "lock")
        \/ book[c] = "none" /\ Goes(p, "cancel")
        \/ Replied(p)
    BY <1>5 DEF FindCard
  <2>3. CASE Goes(p, "lock") /\ book[c] # "none"
    <3>1. /\ client'[p].pc = "lock" /\ client'[p].req = c
          /\ \A q \in Clients : q # p => client'[q] = client[q]
      BY <1>0, <2>3, GoesEffect
    <3> QED
      BY <1>0, <2>1, <2>3, <3>1 DEF ClientOK
  <2>4. CASE Goes(p, "cancel") /\ book[c] = "none"
    <3>1. /\ client'[p].pc = "cancel" /\ client'[p].req = c
          /\ \A q \in Clients : q # p => client'[q] = client[q]
      BY <1>0, <2>4, GoesEffect
    <3> QED
      BY <1>0, <2>1, <2>4, <3>1 DEF ClientOK
  <2> QED
    BY <1>2, <2>1, <2>2, <2>3, <2>4
<1>6. ASSUME NEW p \in Clients, TakeCard(p) PROVE ClientOK'
  <2> DEFINE c == client[p].req
  <2>1. c \in Cards /\ client[p].pc = "lock" /\ book[c] # "none"
    BY <1>0, <1>6 DEF TakeCard, ClientOK
  <2>2. CASE UNCHANGED <<book, applied>> /\ Replied(p)
    BY <1>2, <2>2
  <2>3. CASE /\ Open(c) /\ Goes(p, "record")
             /\ book' = [book EXCEPT ![c] = "answered"]
             /\ applied' = [applied EXCEPT ![c] = IF client[p].verdict = "yes" THEN @ + 1 ELSE @]
    <3>1. applied[c] = 0 /\ book[c] = "held"
      BY <1>0, <2>1, <2>3 DEF Open, CardOK, CardTypes
    <3>2. /\ client'[p].pc = "record" /\ client'[p].req = c
          /\ client'[p].verdict = client[p].verdict
          /\ \A q \in Clients : q # p => client'[q] = client[q]
      BY <1>0, <2>3, GoesEffect
    <3>3. /\ book'[c] = "answered" /\ applied'[c] = IF client[p].verdict = "yes" THEN 1 ELSE 0
          /\ \A d \in Cards : d # c => book'[d] = book[d] /\ applied'[d] = applied[d]
      BY <1>0, <2>1, <2>3, <3>1 DEF CardTypes
    <3> HIDE DEF c
    <3> QED
      BY <1>0, <2>1, <3>1, <3>2, <3>3 DEF ClientOK
  <2> QED
    BY <1>6, <2>2, <2>3 DEF TakeCard
<1>7. ASSUME NEW c \in Cards, Raise(c) \/ HandleRaise(c) \/ Leave(c) PROVE ClientOK'
  <2>1. CASE Leave(c) /\ call[c] = "waiting"
    <3>1. UNCHANGED <<book, applied, client>>
      BY <1>0, <2>1 DEF Leave, CardTypes
    <3> QED
      BY <1>1, <3>1
  <2>2. CASE Raise(c) \/ HandleRaise(c) \/ (Leave(c) /\ call[c] = "raising")
    <3>1. \A p \in Clients : client[p].pc # "idle" => client[p].req # c
      BY <1>0, <2>2 DEF Raise, HandleRaise, Leave, CardOK, Fresh
    <3>2. /\ UNCHANGED <<applied, client>>
          /\ \A d \in Cards : d # c => book'[d] = book[d]
      BY <1>0, <2>2 DEF Raise, HandleRaise, Leave, CardTypes
    <3> QED
      BY <1>0, <1>1, <3>1, <3>2 DEF ClientOK
  <2> QED
    BY <1>7, <2>1, <2>2 DEF Leave
<1>8. CASE Exit
  <2>1. /\ \A p \in Clients : client'[p] = client[p] \/ client'[p].pc = "idle"
        /\ UNCHANGED applied
        /\ \A c \in Cards : call[c] # "raising" => book'[c] = book[c]
    BY <1>8 DEF Exit, Idle
  <2>2. \A p \in Clients : client[p].pc # "idle" /\ client[p].req \in Cards =>
          call[client[p].req] # "raising"
    BY <1>0 DEF CardOK, Fresh
  <2> QED
    BY <1>0, <2>1, <2>2 DEF ClientOK
<1>9. CASE Crash
  <2>1. \A p \in Clients : client'[p].pc = "idle"
    BY <1>9 DEF Crash, Idle
  <2> QED
    BY <2>1 DEF ClientOK
<1>10. CASE \/ \E r \in Asks : Ask(r) \/ HandleAsk(r) \/ TakeAnswer(r) \/ TakeQuit(r)
            \/ Resume \/ UNCHANGED vars
  BY <1>1, <1>10 DEF Ask, HandleAsk, TakeAnswer, TakeQuit, Returns, Resume, vars
<1> QED
  BY <1>3, <1>4, <1>5, <1>6, <1>7, <1>8, <1>9, <1>10 DEF Next

LEMMA CardStep == IInv /\ [Next]_vars => CardOK'
<1> SUFFICES ASSUME IInv, [Next]_vars PROVE CardOK'
  OBVIOUS
<1>0. /\ Types /\ ActorTypes /\ CardTypes /\ ClientTypes /\ LogOK /\ AskOK /\ CardOK /\ ClientOK
      /\ \A c \in Cards : c \in Reqs /\ c \notin Asks
  BY QuestionConstants DEF IInv, Types, Reqs
<1> USE DEF actorVars, askVars, cardVars, boundVars
\* The cards and their log are as they were, and nobody begins to answer one.
<1>1. ASSUME UNCHANGED <<call, raises, book, applied>>,
             \A c \in Cards : logged'[c] = logged[c] /\ (c \in pending' => c \in pending),
             \A p \in Clients : client'[p].pc # "idle" =>
               client[p].pc # "idle" /\ client'[p].req = client[p].req
      PROVE  CardOK'
  <2>1. \A c \in Cards : Fresh(c) => Fresh(c)'
    BY <1>1 DEF Fresh
  <2> QED
    BY <1>0, <1>1, <2>1 DEF CardOK
<1>2. ASSUME NEW r \in Asks, Ask(r) \/ TakeAnswer(r) \/ TakeQuit(r) PROVE CardOK'
  BY <1>1, <1>2 DEF Ask, TakeAnswer, TakeQuit, Returns
<1>3. ASSUME NEW r \in Asks, HandleAsk(r) PROVE CardOK'
  <2>1. pending' \subseteq pending \cup {r}
    BY <1>3, RequestedEffect DEF HandleAsk
  <2> QED
    BY <1>0, <1>1, <1>3, <2>1 DEF HandleAsk
<1>4. ASSUME NEW p \in Clients, NEW r \in Reqs, NEW v \in Verdicts, Answer(p, r, v) PROVE CardOK'
  <2>1. /\ client'[p].req = r /\ \A q \in Clients : q # p => client'[q] = client[q]
        /\ UNCHANGED <<pending, logged, call, raises, book, applied>>
    BY <1>0, <1>4 DEF Answer, ClientTypes
  <2>2. \A c \in Cards : Fresh(c) => Fresh(c)'
    <3>1. \A c \in Cards : Fresh(c) => c # r
      BY <1>4 DEF Answer, Shown, Fresh
    <3> QED
      BY <2>1, <3>1 DEF Fresh
  <2> QED
    BY <1>0, <2>1, <2>2 DEF CardOK
<1>5. ASSUME NEW p \in Clients, HandleAnswer(p) PROVE CardOK'
  <2>1. /\ UNCHANGED <<call, raises, book, applied>> /\ client'[p].pc = "idle"
        /\ \A q \in Clients : q # p => client'[q] = client[q]
        /\ client[p].req \in Asks
    BY <1>0, <1>5, RepliedEffect DEF HandleAnswer, ClientOK
  <2>2. \A c \in Cards : logged'[c] = logged[c] /\ (c \in pending' => c \in pending)
    <3>1. CASE client[p].req \in held
      <4>1. client[p].req \in Reqs /\ logged[client[p].req] = <<>> /\ Resolved(client[p].req, client[p].verdict)
        BY <1>0, <1>5, <2>1, <3>1 DEF HandleAnswer, AskOK, Reqs
      <4> QED
        BY <1>0, <2>1, <4>1, FirstResolution
    <3>2. CASE client[p].req \notin held
      BY <1>5, <3>2 DEF HandleAnswer
    <3> QED
      BY <3>1, <3>2
  <2> QED
    BY <1>1, <2>1, <2>2
<1>6. ASSUME NEW p \in Clients, FindCard(p) PROVE CardOK'
  <2>1. /\ client'[p].pc # "idle" => client'[p].req = client[p].req
        /\ client[p].pc = "find"
        /\ \A q \in Clients : q # p => client'[q] = client[q]
    BY <1>0, <1>6, GoesEffect, RepliedEffect DEF FindCard
  <2> QED
    BY <1>1, <1>6, <2>1 DEF FindCard
<1>7. ASSUME NEW p \in Clients, TakeCard(p) PROVE CardOK'
  <2> DEFINE c == client[p].req
  <2>1. c \in Cards /\ client[p].pc = "lock" /\ book[c] # "none"
    BY <1>0, <1>7 DEF TakeCard, ClientOK
  <2>2. CASE UNCHANGED <<book, applied>> /\ Replied(p)
    <3>1. client'[p].pc = "idle" /\ \A q \in Clients : q # p => client'[q] = client[q]
      BY <1>0, <2>2, RepliedEffect
    <3> QED
      BY <1>1, <1>7, <2>2, <3>1 DEF TakeCard
  <2>3. CASE /\ Open(c) /\ Goes(p, "record")
             /\ book' = [book EXCEPT ![c] = "answered"]
             /\ applied' = [applied EXCEPT ![c] = IF client[p].verdict = "yes" THEN @ + 1 ELSE @]
    <3>1. /\ applied[c] = 0 /\ logged[c] = <<>> /\ book[c] = "held" /\ ~Fresh(c)
          /\ call[c] # "new" /\ c \notin raises /\ call[c] # "raising"
      BY <1>0, <2>1, <2>3 DEF Open, CardOK, CardTypes, Fresh
    <3>2. /\ client'[p].req = c /\ \A q \in Clients : q # p => client'[q] = client[q]
          /\ UNCHANGED <<pending, logged, call, raises>>
      BY <1>0, <1>7, <2>3, GoesEffect DEF TakeCard
    <3>3. /\ book'[c] = "answered" /\ applied'[c] \in {0, 1}
          /\ \A d \in Cards : d # c => book'[d] = book[d] /\ applied'[d] = applied[d]
      BY <1>0, <2>1, <2>3, <3>1 DEF CardTypes
    <3>4. \A d \in Cards : Fresh(d) => Fresh(d)'
      <4> HIDE DEF c
      <4> QED
        BY <2>1, <3>1, <3>2, <3>3 DEF Fresh
    <3>5. <<>> # <<"yes">> /\ <<>> # <<"no">>
      BY FirstEntry
    <3> HIDE DEF c
    <3> QED
      BY <1>0, <3>1, <3>2, <3>3, <3>4, <3>5 DEF CardOK
  <2> QED
    BY <1>7, <2>2, <2>3 DEF TakeCard
<1>8. ASSUME NEW p \in Clients, RecordAnswer(p) \/ CancelLost(p) PROVE CardOK'
  <2> DEFINE c == client[p].req
  <2>1. /\ c \in Cards /\ c \in Reqs /\ ~Fresh(c) /\ book[c] # "held"
        /\ UNCHANGED <<call, raises, book, applied>>
        /\ client'[p].pc = "idle"
        /\ \A q \in Clients : q # p => client'[q] = client[q]
    BY <1>0, <1>8, RepliedEffect DEF RecordAnswer, CancelLost, RecordOutcome, ClientOK, Fresh
  <2>2. CASE c \in pending
    <3>1. /\ logged[c] = <<>>
          /\ \E o \in Outcomes :
               /\ Resolved(c, o)
               /\ o = "yes" => applied[c] = 1
               /\ o = "no" => applied[c] = 0
      <4>1. CASE RecordAnswer(p)
        <5>1. /\ client[p].verdict \in Outcomes /\ Resolved(c, client[p].verdict)
              /\ applied[c] = IF client[p].verdict = "yes" THEN 1 ELSE 0
          BY <1>0, <2>2, <4>1, ClientTyped DEF RecordAnswer, RecordOutcome, Waits, ClientOK, Outcomes
        <5> QED
          BY <1>0, <2>1, <2>2, <5>1 DEF LogOK
      <4>2. CASE CancelLost(p)
        <5>1. "cancelled" \in Outcomes /\ Resolved(c, "cancelled")
          BY <2>2, <4>2 DEF CancelLost, RecordOutcome, Waits, Outcomes
        <5> QED
          BY <1>0, <2>1, <2>2, <5>1 DEF LogOK
      <4> QED
        BY <1>8, <4>1, <4>2
    <3>2. PICK o \in Outcomes : /\ Resolved(c, o)
                                /\ o = "yes" => applied[c] = 1
                                /\ o = "no" => applied[c] = 0
      BY <3>1
    <3>3. /\ \A s \in Reqs : s # c => logged'[s] = logged[s] /\ (s \in pending' <=> s \in pending)
          /\ logged'[c] = <<o>> \/ logged'[c] = <<>>
      BY <1>0, <2>1, <3>1, <3>2, FirstResolution
    <3>4. /\ logged'[c] = <<"yes">> => o = "yes"
          /\ logged'[c] = <<"no">> => o = "no"
      BY <3>3, FirstEntry
    <3>5. \A d \in Cards : Fresh(d) => Fresh(d)' /\ d # c
      <4> HIDE DEF c
      <4> QED
        BY <1>0, <2>1, <3>3 DEF Fresh
    <3> HIDE DEF c
    <3> QED
      BY <1>0, <2>1, <3>2, <3>3, <3>4, <3>5 DEF CardOK
  <2>3. CASE c \notin pending
    <3>1. UNCHANGED <<pending, logged>>
      BY <1>8, <2>3 DEF RecordAnswer, CancelLost, RecordOutcome, Waits
    <3> QED
      BY <1>1, <2>1, <3>1
  <2> QED
    BY <2>2, <2>3
<1>9. ASSUME NEW c \in Cards, Raise(c) PROVE CardOK'
  <2>1. /\ call[c] = "new" /\ Fresh(c)
        /\ UNCHANGED <<pending, logged, applied, client>>
        /\ call' = [call EXCEPT ![c] = "raising"] /\ raises' = raises \cup {c}
        /\ book' = [book EXCEPT ![c] = "held"]
    BY <1>0, <1>9 DEF Raise, CardOK
  <2>2. \A d \in Cards : Fresh(d) => Fresh(d)'
    BY <1>0, <2>1 DEF Fresh, CardTypes
  <2>3. applied[c] = 0 /\ logged[c] = <<>>
    BY <2>1 DEF Fresh
  <2> QED
    BY <1>0, <2>1, <2>2, <2>3 DEF CardOK, CardTypes
<1>10. ASSUME NEW c \in Cards, HandleRaise(c) PROVE CardOK'
  <2>1. /\ c \in raises /\ Fresh(c) /\ raises' = raises \ {c}
        /\ UNCHANGED <<logged, applied, client>>
        /\ \/ book' = [book EXCEPT ![c] = "none"] /\ call' = [call EXCEPT ![c] = "over"]
           \/ UNCHANGED book /\ call' = [call EXCEPT ![c] = "waiting"]
    BY <1>0, <1>10 DEF HandleRaise, CardOK
  <2>2. pending' \subseteq pending \cup {c}
    BY <1>10, RequestedEffect DEF HandleRaise
  <2>3. \A d \in Cards : d # c => (Fresh(d) => Fresh(d)') /\ book'[d] = book[d] /\ call'[d] = call[d]
    BY <1>0, <2>1, <2>2 DEF Fresh, CardTypes
  <2>4. call'[c] \in {"over", "waiting"} /\ (book'[c] = "held" => book[c] = "held")
    BY <1>0, <2>1 DEF CardTypes
  <2> QED
    BY <1>0, <2>1, <2>3, <2>4 DEF CardOK
<1>11. ASSUME NEW c \in Cards, Leave(c) PROVE CardOK'
  <2>1. /\ call[c] \in {"raising", "waiting"} /\ UNCHANGED <<pending, logged, raises, applied, client>>
        /\ call' = [call EXCEPT ![c] = "over"]
        /\ book' = [book EXCEPT ![c] = IF call[c] = "raising" THEN "none" ELSE @]
    BY <1>11 DEF Leave
  <2>2. /\ \A d \in Cards : book'[d] = book[d] \/ book'[d] = "none"
        /\ \A d \in Cards : call'[d] = call[d] \/ call'[d] = "over"
    BY <1>0, <2>1 DEF CardTypes
  <2>3. \A d \in Cards : Fresh(d) => Fresh(d)'
    BY <2>1, <2>2 DEF Fresh
  <2> QED
    BY <1>0, <2>1, <2>2, <2>3 DEF CardOK
<1>12. CASE Resume
  <2>1. /\ UNCHANGED <<call, raises, book, applied, client>> /\ pending' \subseteq pending
        /\ \A c \in Cards : \/ logged'[c] = logged[c]
                            \/ book[c] # "held" /\ c \in pending /\ logged'[c] = <<"cancelled">>
    BY <1>0, <1>12, ResumeEffect DEF LostAtResume
  <2>2. \A c \in Cards : Fresh(c) => Fresh(c)'
    BY <2>1 DEF Fresh
  <2>3. <<"cancelled">> # <<"yes">> /\ <<"cancelled">> # <<"no">>
    BY FirstEntry
  <2> QED
    BY <1>0, <2>1, <2>2, <2>3 DEF CardOK
<1>13. CASE Exit
  <2>1. /\ raises' = {} /\ UNCHANGED <<pending, logged, applied>>
        /\ \A c \in Cards : book'[c] = book[c] \/ book'[c] = "none"
        /\ \A c \in Cards : (call'[c] = call[c] /\ call[c] # "raising") \/ call'[c] = "over"
        /\ \A p \in Clients : client'[p] = client[p] \/ client'[p].pc = "idle"
    BY <1>13 DEF Exit, Idle
  <2>2. \A c \in Cards : Fresh(c) => Fresh(c)'
    BY <2>1 DEF Fresh
  <2> QED
    BY <1>0, <2>1, <2>2 DEF CardOK
<1>14. CASE Crash
  <2>1. /\ raises' = {} /\ UNCHANGED <<pending, logged, applied>>
        /\ \A c \in Cards : book'[c] = "none"
        /\ \A c \in Cards : (call'[c] = "new" /\ call[c] = "new") \/ call'[c] = "over"
        /\ \A p \in Clients : client'[p].pc = "idle"
    BY <1>14 DEF Crash, Idle
  <2>2. \A c \in Cards : Fresh(c) => Fresh(c)'
    BY <2>1 DEF Fresh
  <2> QED
    BY <1>0, <2>1, <2>2 DEF CardOK
<1>15. CASE UNCHANGED vars
  BY <1>1, <1>15 DEF vars
<1> QED
  BY <1>2, <1>3, <1>4, <1>5, <1>6, <1>7, <1>8, <1>9, <1>10, <1>11, <1>12, <1>13, <1>14, <1>15 DEF Next

LEMMA Invariant == Spec => []IInv
<1>1. IInv /\ [Next]_vars => Types'
  BY TypesStep DEF IInv
<1>2. IInv /\ [Next]_vars => IInv'
  BY <1>1, LogStep, AskStep, SaidStep, CardStep, ClientStep, StrandStep DEF IInv
<1> QED
  BY <1>2, InvInit, PTL DEF Spec

-----------------------------------------------------------------------------
(* What follows from the invariant.                                         *)

\* Type correctness, whoever asks, answers, exits or dies.
THEOREM TypeCorrect == Spec => []TypeOK
<1>1. IInv => TypeOK
  BY TypesSuffice DEF IInv
<1> QED
  BY <1>1, Invariant, PTL

\* A request is settled in one way, whoever answers it and whatever ends in
\* between, and the harness is told what the log says (actor.go cmdResolvePerm,
\* cmdActivate, shutdown; cards.go resolveCard, resolveLostCard).
THEOREM OneSettlement == Spec => []SettledAlike
<1>1. IInv => ResolvedOnce
  BY DEF IInv, LogOK, ResolvedOnce
<1>2. IInv => DeliveredAgrees
  BY DEF IInv, SaidOK, DeliveredAgrees
<1> QED
  BY <1>1, <1>2, Invariant, PTL DEF SettledAlike

\* A harness that waits for a person can still be answered, and a running
\* harness that does not wait shows no question (actor.go cmdAskPerm,
\* cmdActivate, shutdown).
THEOREM NoOneStranded == Spec => []NobodyStranded
<1>1. IInv => NobodyStranded
  BY DEF IInv
<1> QED
  BY <1>1, Invariant, PTL

\* The change behind a card is made at most once, and the log says so only of
\* one that was (server/cards.go resolveCard, thread/cards.go handleCard).
THEOREM LogRightOfCards == Spec => []CardsHonest
<1>1. IInv => CardsHonest
  BY DEF IInv, CardOK, CardsHonest
<1> QED
  BY <1>1, Invariant, PTL

-----------------------------------------------------------------------------
(* The server's state of a thread.  The inductive invariant.                *)

\* The fields a record of each kind has; what a field of text holds is left open.
IsItem(it) == it = [id |-> it.id, kind |-> it.kind, turn |-> it.turn, parent |-> it.parent,
                    text |-> it.text, body |-> it.body, status |-> it.status]
IsTurn(t) == t = [id |-> t.id, prompt |-> t.prompt, done |-> t.done, stop |-> t.stop,
                  recovery |-> t.recovery, diff |-> t.diff]
IsJob(j) == j = [id |-> j.id, call |-> j.call, kind |-> j.kind, status |-> j.status,
                 used |-> j.used, ended |-> j.ended, turn |-> j.turn]
IsState(s) ==
  s = [seq |-> s.seq, phase |-> s.phase, closed |-> s.closed, title |-> s.title,
       model |-> s.model, effort |-> s.effort, ws |-> s.ws, items |-> s.items,
       before |-> s.before, turns |-> s.turns, jobs |-> s.jobs, pending |-> s.pending,
       asks |-> s.asks, queued |-> s.queued, sched |-> s.sched, artefacts |-> s.artefacts]

\* Rows in an order, and no id in two of them.
IsList(l) == l \in Seq({l[i] : i \in DOMAIN l})
Once(l)   == \A i, j \in DOMAIN l : l[i].id = l[j].id => i = j

\* The ids of calls, and a job that still runs for the call an item stands for.
CallIds == {"tool"} \X Tools
Covered(s, it) ==
  \E j \in DOMAIN s.jobs : ~JobDone(s.jobs[j].status) /\ it.id = <<"tool", s.jobs[j].call>>
\* A call in progress belongs to work under way: a turn is open or a job runs for it.
\* An unsettled call is one of the open turn, or of none, or a job runs for it: the end of
\* the open turn cuts no other.
ItemOK(s, it) ==
  /\ IsItem(it) /\ (it.kind = "tool" <=> it.id \in CallIds)
  /\ it.status = "in_progress" =>
       it.kind = "tool" /\ (OpenTurn(s.turns) # None \/ Covered(s, it))
  /\ it.kind = "tool" /\ Unsettled(it) =>
       it.turn \in {OpenTurn(s.turns), None} \/ Covered(s, it)
\* What must hold of the lists of a thread.  Only the last turn may be open, and while
\* one is the thread is in a turn or closed.
ItemsOK(s) == /\ IsList(s.items) /\ Once(s.items)
              /\ \A i \in DOMAIN s.items : ItemOK(s, s.items[i])
JobsOK(s) == /\ IsList(s.jobs) /\ Once(s.jobs)
             /\ \A j \in DOMAIN s.jobs : IsJob(s.jobs[j])
                                         /\ s.jobs[j].kind \in {ClassifyJob(t) : t \in TaskTypes}
TurnsOK(s) == /\ IsList(s.turns) /\ Once(s.turns)
              /\ \A i \in DOMAIN s.turns :
                   /\ IsTurn(s.turns[i]) /\ s.turns[i].id \in Turns
                   /\ s.turns[i].done \in BOOLEAN
                   /\ ~s.turns[i].done => i = Len(s.turns)
              /\ OpenTurn(s.turns) # None => s.phase = "turn" \/ s.closed
\* The inductive invariant.
Sound(s) == /\ IsState(s) /\ s.seq \in Nat /\ s.closed \in BOOLEAN
            /\ ItemsOK(s) /\ JobsOK(s) /\ TurnsOK(s)

-----------------------------------------------------------------------------
(* Lists.                                                                   *)

\* The indices of a list.
LEMMA ListParts ==
  ASSUME NEW l, IsList(l)
  PROVE  Len(l) \in Nat /\ DOMAIN l = 1..Len(l)
  BY LenProperties DEF IsList

\* A list whose entries were changed, but for their ids.
LEMMA ChangedList ==
  ASSUME NEW l, IsList(l), Once(l), NEW c, c = [i \in DOMAIN l |-> c[i]],
         \A i \in DOMAIN l : c[i].id = l[i].id
  PROVE  IsList(c) /\ Once(c) /\ DOMAIN c = DOMAIN l /\ Len(c) = Len(l)
<1>1. Len(l) \in Nat /\ DOMAIN l = 1..Len(l) /\ DOMAIN c = DOMAIN l
  BY ListParts
<1>2. c \in [1..Len(l) -> {c[i] : i \in DOMAIN c}]
  BY <1>1
<1>3. c \in Seq({c[i] : i \in DOMAIN c}) /\ Len(c) = Len(l)
  BY <1>1, <1>2, IsASeq, LenProperties
<1> QED
  BY <1>1, <1>3 DEF IsList, Once

\* A list with one entry more.
LEMMA LongerList ==
  ASSUME NEW l, IsList(l), Once(l), NEW x, ~Holds(l, x.id)
  PROVE  /\ IsList(Append(l, x)) /\ Once(Append(l, x))
         /\ DOMAIN Append(l, x) = DOMAIN l \cup {Len(l) + 1}
         /\ Len(Append(l, x)) = Len(l) + 1 /\ Len(l) + 1 \notin DOMAIN l
         /\ \A i \in DOMAIN l : Append(l, x)[i] = l[i]
         /\ Append(l, x)[Len(l) + 1] = x
<1> DEFINE c == Append(l, x)
<1> DEFINE S == {l[i] : i \in DOMAIN l} \cup {x}
<1>1. Len(l) \in Nat /\ DOMAIN l = 1..Len(l)
  BY ListParts
<1>2. l \in Seq(S) /\ x \in S
  <2>1. \A i \in 1..Len(l) : l[i] \in S
    BY <1>1
  <2>2. l \in Seq({l[i] : i \in DOMAIN l})
    BY DEF IsList
  <2> QED
    BY <1>1, <2>1, <2>2, ElementOfSeq, IsASeq
<1>3. /\ c \in Seq(S) /\ Len(c) = Len(l) + 1 /\ c[Len(l) + 1] = x
      /\ \A i \in 1..Len(l) : c[i] = l[i]
  BY <1>2, AppendProperties
<1>4. DOMAIN c = 1..(Len(l) + 1)
  BY <1>1, <1>3, LenProperties
<1>5. DOMAIN c = DOMAIN l \cup {Len(l) + 1} /\ Len(l) + 1 \notin DOMAIN l
  BY <1>1, <1>4
<1>6. c \in Seq({c[i] : i \in DOMAIN c})
  BY <1>1, <1>3, <1>4, IsASeq, LenProperties
<1>7. Once(c)
  BY <1>1, <1>3, <1>5 DEF Once, Holds
<1> QED
  BY <1>1, <1>3, <1>5, <1>6, <1>7 DEF IsList

\* The entry of an id there is one of.
LEMMA EntryIs ==
  ASSUME NEW l, IsList(l), Once(l), NEW k \in DOMAIN l
  PROVE  Entry(l, l[k].id) = l[k]
<1>1. Len(l) \in Nat /\ DOMAIN l = 1..Len(l)
  BY ListParts
<1> DEFINE P(i) == i \in DOMAIN l /\ l[i].id = l[k].id /\ \A j \in 1 .. i - 1 : l[j].id # l[k].id
<1>2. P(k)
  BY <1>1 DEF Once
<1>3. \A i : P(i) => i = k
  BY DEF Once
<1>4. (CHOOSE i \in DOMAIN l : l[i].id = l[k].id /\ \A j \in 1 .. i - 1 : l[j].id # l[k].id) = k
  BY <1>2, <1>3
<1> QED
  BY <1>4 DEF Entry

-----------------------------------------------------------------------------
(* The open turn.                                                           *)

\* No turn is open if all are done.
LEMMA NoneOpen ==
  ASSUME NEW l, \A i \in DOMAIN l : l[i].done
  PROVE  OpenTurn(l) = None
  BY DEF OpenTurn

\* The one turn that is not done is the open one.
LEMMA OneOpen ==
  ASSUME NEW l, NEW k \in DOMAIN l, k \in Nat, ~l[k].done,
         \A i \in DOMAIN l : ~l[i].done => i = k
  PROVE  OpenTurn(l) = l[k].id
<1> DEFINE open == {i \in DOMAIN l : ~l[i].done}
<1>1. open = {k} /\ open # {}
  OBVIOUS
<1>2. (CHOOSE i \in open : \A j \in open : j <= i) = k
  BY <1>1
<1> QED
  BY <1>1, <1>2 DEF OpenTurn

\* There is an open turn exactly if one is not done.
LEMMA OpenIs ==
  ASSUME NEW s, TurnsOK(s)
  PROVE  /\ OpenTurn(s.turns) = None <=> \A i \in DOMAIN s.turns : s.turns[i].done
         /\ \A i \in DOMAIN s.turns : ~s.turns[i].done => OpenTurn(s.turns) = s.turns[i].id
<1>1. Len(s.turns) \in Nat /\ DOMAIN s.turns = 1..Len(s.turns)
  BY ListParts DEF TurnsOK
<1>2. ASSUME NEW i \in DOMAIN s.turns, ~s.turns[i].done
      PROVE  OpenTurn(s.turns) = s.turns[i].id /\ s.turns[i].id # None
  BY <1>1, <1>2, OneOpen, PresenterConstants DEF TurnsOK
<1> QED
  BY <1>2, NoneOpen

-----------------------------------------------------------------------------
(* What a fold does to the timeline.                                        *)

\* What was right of an item still is.
Keeps(s, t) == \A it : ItemOK(s, it) => ItemOK(t, it)

\* The list m is l with x put under its id, or with f in the place of those it has.
Puts(l, m, id, f, x) ==
  m = IF Holds(l, id) THEN [i \in DOMAIN l |-> IF l[i].id = id THEN f[i] ELSE l[i]]
      ELSE Append(l, x)

\* An event that leaves the work alone.
LEMMA LeavesWork ==
  ASSUME NEW s, Sound(s), NEW t, IsState(t), t.seq \in Nat, t.closed \in BOOLEAN,
         t.items = s.items, t.jobs = s.jobs, t.turns = s.turns,
         \/ t.closed \/ OpenTurn(s.turns) = None
         \/ t.phase = s.phase /\ t.closed = s.closed
  PROVE  Sound(t)
<1>1. \A it : ItemOK(s, it) => ItemOK(t, it)
  BY DEF ItemOK, Covered
<1>2. ItemsOK(t) /\ JobsOK(t) /\ TurnsOK(t)
  BY <1>1 DEF Sound, ItemsOK, JobsOK, TurnsOK
<1> QED
  BY <1>2 DEF Sound

\* One item is put on the timeline, or changed if it is there.
LEMMA PutItem ==
  ASSUME NEW s, Sound(s), NEW t, Keeps(s, t),
         NEW id, NEW f, NEW x,
         Puts(s.items, t.items, id, f, x),
         \A i \in DOMAIN s.items :
           s.items[i].id = id /\ ItemOK(s, s.items[i]) => f[i].id = id /\ ItemOK(t, f[i]),
         x.id = id, ~Holds(s.items, id) => ItemOK(t, x)
  PROVE  ItemsOK(t)
<1>1. IsList(s.items) /\ Once(s.items) /\ \A i \in DOMAIN s.items : ItemOK(s, s.items[i])
  BY DEF Sound, ItemsOK
<1>2. CASE Holds(s.items, id)
  <2>1. /\ t.items = [i \in DOMAIN s.items |-> t.items[i]]
        /\ \A i \in DOMAIN s.items :
             t.items[i] = IF s.items[i].id = id THEN f[i] ELSE s.items[i]
    BY <1>2 DEF Puts
  <2>2. \A i \in DOMAIN s.items : t.items[i].id = s.items[i].id /\ ItemOK(t, t.items[i])
    BY <1>1, <2>1 DEF Keeps
  <2>3. IsList(t.items) /\ Once(t.items) /\ DOMAIN t.items = DOMAIN s.items
    BY <1>1, <2>1, <2>2, ChangedList
  <2> QED
    BY <2>2, <2>3 DEF ItemsOK
<1>3. CASE ~Holds(s.items, id)
  <2>1. t.items = Append(s.items, x) /\ ~Holds(s.items, x.id)
    BY <1>3 DEF Puts
  <2>2. /\ IsList(t.items) /\ Once(t.items)
        /\ DOMAIN t.items = DOMAIN s.items \cup {Len(s.items) + 1}
        /\ \A i \in DOMAIN s.items : t.items[i] = s.items[i]
        /\ t.items[Len(s.items) + 1] = x
    BY <1>1, <1>3, <2>1, LongerList
  <2>3. \A i \in DOMAIN t.items : ItemOK(t, t.items[i])
    BY <1>1, <1>3, <2>2 DEF Keeps
  <2> QED
    BY <2>2, <2>3 DEF ItemsOK
<1> QED
  BY <1>2, <1>3

\* What is no call is not in progress, whatever else is said of it.
LEMMA NoCallOK ==
  ASSUME NEW s, NEW it, IsItem(it), it.kind # "tool", it.id \notin CallIds,
         it.status # "in_progress"
  PROVE  ItemOK(s, it)
  BY DEF ItemOK

\* Items stay right while the open turn and the jobs do.
LEMMA SameWork ==
  ASSUME NEW s, NEW t, OpenTurn(t.turns) = OpenTurn(s.turns), t.jobs = s.jobs
  PROVE  Keeps(s, t)
  BY DEF Keeps, ItemOK, Covered

\* A prompt, a block, a line or a card is put.
LEMMA PutNoCall ==
  ASSUME NEW s, Sound(s), NEW t, Keeps(s, t),
         NEW id, id \notin CallIds, NEW f, NEW x,
         Puts(s.items, t.items, id, f, x),
         \A i \in DOMAIN s.items : s.items[i].id = id =>
           /\ IsItem(f[i]) /\ f[i].id = id /\ f[i].kind # "tool"
           /\ f[i].status \in {s.items[i].status, "pending"},
         IsItem(x), x.id = id, x.kind # "tool", x.status \in {None, "pending"}
  PROVE  ItemsOK(t)
<1>1. ASSUME NEW i \in DOMAIN s.items, s.items[i].id = id, ItemOK(s, s.items[i])
      PROVE  f[i].id = id /\ ItemOK(t, f[i])
  <2>1. s.items[i].status # "in_progress"
    BY <1>1 DEF ItemOK
  <2> QED
    BY <1>1, <2>1, NoCallOK
<1>2. ItemOK(t, x)
  BY NoCallOK DEF None
<1>3. \A i \in DOMAIN s.items :
        s.items[i].id = id /\ ItemOK(s, s.items[i]) => f[i].id = id /\ ItemOK(t, f[i])
  BY <1>1
<1> QED
  BY <1>2, <1>3, PutItem

\* What is left to show of an event that neither closes the thread nor touches its jobs.
LEMMA StateIs ==
  ASSUME NEW s, Sound(s), NEW t, IsState(t), t.seq \in Nat, t.closed = s.closed,
         t.jobs = s.jobs, ItemsOK(t), TurnsOK(t)
  PROVE  Sound(t)
  BY DEF Sound, JobsOK

-----------------------------------------------------------------------------
(* What each event does.                                                    *)

\* An item is blank before its first event.
LEMMA BlankIs ==
  ASSUME NEW id
  PROVE  /\ IsItem(BlankItem(id)) /\ BlankItem(id).id = id
         /\ BlankItem(id).kind = None /\ BlankItem(id).status = None
         /\ BlankItem(id).turn = None
  BY DEF BlankItem, IsItem

\* A prompt lands on the timeline.
LEMMA PromptPut ==
  ASSUME NEW s, Sound(s), NEW t, Keeps(s, t), NEW k \in {"prompt"}, NEW n, NEW prompt, NEW turn,
         t.items = PromptItem(s.items, <<k, n>>, prompt, turn)
  PROVE  ItemsOK(t)
<1> DEFINE id == <<k, n>>
           Mut(it) == [it EXCEPT !.kind = "message", !.text = prompt, !.turn = turn]
           f == [i \in DOMAIN s.items |-> Mut(s.items[i])]
           x == Mut(BlankItem(id))
<1>1. Puts(s.items, t.items, id, f, x)
  BY DEF Puts, PromptItem, Upsert, Change
<1>2. id \notin CallIds
  BY DEF CallIds
<1>3. IsItem(x) /\ x.id = id /\ x.kind # "tool" /\ x.status \in {None, "pending"}
  <2>1. ASSUME NEW b, IsItem(b), b.id = id, b.status = None, NEW c, c = Mut(b)
        PROVE  IsItem(c) /\ c.id = id /\ c.kind # "tool" /\ c.status \in {None, "pending"}
    BY <2>1 DEF IsItem
  <2>2. IsItem(BlankItem(id)) /\ BlankItem(id).id = id /\ BlankItem(id).status = None
    BY BlankIs
  <2> HIDE DEF id
  <2> QED
    BY <2>1, <2>2
<1>4. ASSUME NEW i \in DOMAIN s.items, s.items[i].id = id
      PROVE  /\ IsItem(f[i]) /\ f[i].id = id /\ f[i].kind # "tool"
             /\ f[i].status \in {s.items[i].status, "pending"}
  <2>1. IsItem(s.items[i])
    BY DEF Sound, ItemsOK, ItemOK
  <2> QED
    BY <1>4, <2>1 DEF IsItem
<1> HIDE DEF id, f, x
<1> QED
  BY <1>1, <1>2, <1>3, <1>4, PutNoCall

\* A piece of a message or of reasoning arrives.
LEMMA ChunkStep ==
  ASSUME NEW s, Sound(s), NEW e, NEW t, t = MessageChunk(s, e)
  PROVE  Sound(t)
<1>1. /\ IsState(t) /\ t.seq = s.seq /\ t.closed = s.closed /\ t.jobs = s.jobs /\ t.turns = s.turns
      /\ s.phase = "turn" => t.phase = "turn"
  BY DEF Sound, IsState, MessageChunk, Activity
<1>2. Keeps(s, t) /\ TurnsOK(t) /\ t.seq \in Nat
  BY <1>1, SameWork DEF TurnsOK, Sound
<1> DEFINE id == <<"block", e.block>>
           Mut(it) == [it EXCEPT !.kind = "message", !.turn = e.turn,
                           !.parent = IF e.parent # None THEN e.parent ELSE @,
                           !.body = @ + 1]
           f == [i \in DOMAIN s.items |-> Mut(s.items[i])]
           x == Mut(BlankItem(id))
<1>3. t.items = s.items \/ Puts(s.items, t.items, id, f, x)
  BY DEF Puts, MessageChunk, Activity, Upsert, Change, Sound, IsState
<1>4. id \notin CallIds
  BY DEF CallIds
<1>5. IsItem(x) /\ x.id = id /\ x.kind # "tool" /\ x.status \in {None, "pending"}
  <2>1. ASSUME NEW b, IsItem(b), b.id = id, b.status = None, NEW c, c = Mut(b)
        PROVE  IsItem(c) /\ c.id = id /\ c.kind # "tool" /\ c.status \in {None, "pending"}
    BY <2>1 DEF IsItem
  <2>2. IsItem(BlankItem(id)) /\ BlankItem(id).id = id /\ BlankItem(id).status = None
    BY BlankIs
  <2> HIDE DEF id
  <2> QED
    BY <2>1, <2>2
<1>6. ASSUME NEW i \in DOMAIN s.items, s.items[i].id = id
      PROVE  /\ IsItem(f[i]) /\ f[i].id = id /\ f[i].kind # "tool"
             /\ f[i].status \in {s.items[i].status, "pending"}
  <2>1. IsItem(s.items[i])
    BY DEF Sound, ItemsOK, ItemOK
  <2> QED
    BY <1>6, <2>1 DEF IsItem
<1> HIDE DEF id, f, x
<1>7. ItemsOK(t)
  <2>1. CASE t.items = s.items
    BY <1>2, <2>1 DEF Keeps, Sound, ItemsOK
  <2> QED
    BY <1>2, <1>3, <1>4, <1>5, <1>6, <2>1, PutNoCall
<1> QED
  BY <1>1, <1>2, <1>7, StateIs

\* A line tells of a change.
LEMMA NoticeStep ==
  ASSUME NEW s, Sound(s), NEW e, NEW t, t = Notice(s, e)
  PROVE  Sound(t)
<1>1. /\ IsState(t) /\ t.seq = s.seq /\ t.closed = s.closed /\ t.jobs = s.jobs /\ t.turns = s.turns
      /\ s.phase = "turn" => t.phase = "turn"
  BY DEF Sound, IsState, Notice
<1>2. Keeps(s, t) /\ TurnsOK(t) /\ t.seq \in Nat
  BY <1>1, SameWork DEF TurnsOK, Sound
<1> DEFINE id == <<"notice", e.seq>>
           Mut(it) == [it EXCEPT !.kind = "notice", !.text = e.type]
           f == [i \in DOMAIN s.items |-> Mut(s.items[i])]
           x == Mut(BlankItem(id))
<1>3. t.items = s.items \/ Puts(s.items, t.items, id, f, x)
  BY DEF Puts, Notice, Upsert, Change, Sound, IsState
<1>4. id \notin CallIds
  BY DEF CallIds
<1>5. IsItem(x) /\ x.id = id /\ x.kind # "tool" /\ x.status \in {None, "pending"}
  <2>1. ASSUME NEW b, IsItem(b), b.id = id, b.status = None, NEW c, c = Mut(b)
        PROVE  IsItem(c) /\ c.id = id /\ c.kind # "tool" /\ c.status \in {None, "pending"}
    BY <2>1 DEF IsItem
  <2>2. IsItem(BlankItem(id)) /\ BlankItem(id).id = id /\ BlankItem(id).status = None
    BY BlankIs
  <2> HIDE DEF id
  <2> QED
    BY <2>1, <2>2
<1>6. ASSUME NEW i \in DOMAIN s.items, s.items[i].id = id
      PROVE  /\ IsItem(f[i]) /\ f[i].id = id /\ f[i].kind # "tool"
             /\ f[i].status \in {s.items[i].status, "pending"}
  <2>1. IsItem(s.items[i])
    BY DEF Sound, ItemsOK, ItemOK
  <2> QED
    BY <1>6, <2>1 DEF IsItem
<1> HIDE DEF id, f, x
<1>7. ItemsOK(t)
  <2>1. CASE t.items = s.items
    BY <1>2, <2>1 DEF Keeps, Sound, ItemsOK
  <2> QED
    BY <1>2, <1>3, <1>4, <1>5, <1>6, <2>1, PutNoCall
<1> QED
  BY <1>1, <1>2, <1>7, StateIs

\* An artefact is shown.
LEMMA ArtefactStep ==
  ASSUME NEW s, Sound(s), NEW e, NEW t, t = ArtefactShown(s, e)
  PROVE  Sound(t)
<1>1. /\ IsState(t) /\ t.seq = s.seq /\ t.closed = s.closed /\ t.jobs = s.jobs /\ t.turns = s.turns
      /\ s.phase = "turn" => t.phase = "turn"
  BY DEF Sound, IsState, ArtefactShown
<1>2. Keeps(s, t) /\ TurnsOK(t) /\ t.seq \in Nat
  BY <1>1, SameWork DEF TurnsOK, Sound
<1> DEFINE id == <<"artefact", e.seq>>
           Mut(it) == [it EXCEPT !.kind = "artefact", !.turn = e.turn,
                           !.text = e.artefact]
           f == [i \in DOMAIN s.items |-> Mut(s.items[i])]
           x == Mut(BlankItem(id))
<1>3. t.items = s.items \/ Puts(s.items, t.items, id, f, x)
  BY DEF Puts, ArtefactShown, Upsert, Change, Sound, IsState
<1>4. id \notin CallIds
  BY DEF CallIds
<1>5. IsItem(x) /\ x.id = id /\ x.kind # "tool" /\ x.status \in {None, "pending"}
  <2>1. ASSUME NEW b, IsItem(b), b.id = id, b.status = None, NEW c, c = Mut(b)
        PROVE  IsItem(c) /\ c.id = id /\ c.kind # "tool" /\ c.status \in {None, "pending"}
    BY <2>1 DEF IsItem
  <2>2. IsItem(BlankItem(id)) /\ BlankItem(id).id = id /\ BlankItem(id).status = None
    BY BlankIs
  <2> HIDE DEF id
  <2> QED
    BY <2>1, <2>2
<1>6. ASSUME NEW i \in DOMAIN s.items, s.items[i].id = id
      PROVE  /\ IsItem(f[i]) /\ f[i].id = id /\ f[i].kind # "tool"
             /\ f[i].status \in {s.items[i].status, "pending"}
  <2>1. IsItem(s.items[i])
    BY DEF Sound, ItemsOK, ItemOK
  <2> QED
    BY <1>6, <2>1 DEF IsItem
<1> HIDE DEF id, f, x
<1>7. ItemsOK(t)
  <2>1. CASE t.items = s.items
    BY <1>2, <2>1 DEF Keeps, Sound, ItemsOK
  <2> QED
    BY <1>2, <1>3, <1>4, <1>5, <1>6, <2>1, PutNoCall
<1> QED
  BY <1>1, <1>2, <1>7, StateIs

\* A card is put.
LEMMA ElicitStep ==
  ASSUME NEW s, Sound(s), NEW e, NEW t, t = ElicitationRequested(s, e)
  PROVE  Sound(t)
<1>1. /\ IsState(t) /\ t.seq = s.seq /\ t.closed = s.closed /\ t.jobs = s.jobs /\ t.turns = s.turns
      /\ s.phase = "turn" => t.phase = "turn"
  BY DEF Sound, IsState, ElicitationRequested
<1>2. Keeps(s, t) /\ TurnsOK(t) /\ t.seq \in Nat
  BY <1>1, SameWork DEF TurnsOK, Sound
<1> DEFINE id == <<"card", e.req>>
           Mut(it) == [it EXCEPT !.kind = "card", !.turn = e.turn, !.status = "pending"]
           f == [i \in DOMAIN s.items |-> Mut(s.items[i])]
           x == Mut(BlankItem(id))
<1>3. t.items = s.items \/ Puts(s.items, t.items, id, f, x)
  BY DEF Puts, ElicitationRequested, Upsert, Change, Sound, IsState
<1>4. id \notin CallIds
  BY DEF CallIds
<1>5. IsItem(x) /\ x.id = id /\ x.kind # "tool" /\ x.status \in {None, "pending"}
  <2>1. ASSUME NEW b, IsItem(b), b.id = id, b.status = None, NEW c, c = Mut(b)
        PROVE  IsItem(c) /\ c.id = id /\ c.kind # "tool" /\ c.status \in {None, "pending"}
    BY <2>1 DEF IsItem
  <2>2. IsItem(BlankItem(id)) /\ BlankItem(id).id = id /\ BlankItem(id).status = None
    BY BlankIs
  <2> HIDE DEF id
  <2> QED
    BY <2>1, <2>2
<1>6. ASSUME NEW i \in DOMAIN s.items, s.items[i].id = id
      PROVE  /\ IsItem(f[i]) /\ f[i].id = id /\ f[i].kind # "tool"
             /\ f[i].status \in {s.items[i].status, "pending"}
  <2>1. IsItem(s.items[i])
    BY DEF Sound, ItemsOK, ItemOK
  <2> QED
    BY <1>6, <2>1 DEF IsItem
<1> HIDE DEF id, f, x
<1>7. ItemsOK(t)
  <2>1. CASE t.items = s.items
    BY <1>2, <2>1 DEF Keeps, Sound, ItemsOK
  <2> QED
    BY <1>2, <1>3, <1>4, <1>5, <1>6, <2>1, PutNoCall
<1> QED
  BY <1>1, <1>2, <1>7, StateIs

\* A call starts in the turn that is open.
LEMMA CallStartStep ==
  ASSUME NEW s, Sound(s), NEW e, NEW t, t = ToolStarted(s, e),
         e.tool \in Tools, e.turn = OpenTurn(s.turns), e.status = "pending"
  PROVE  Sound(t)
<1>1. /\ IsState(t) /\ t.seq = s.seq /\ t.closed = s.closed /\ t.jobs = s.jobs /\ t.turns = s.turns
      /\ s.phase = "turn" => t.phase = "turn"
  BY DEF Sound, IsState, ToolStarted, Activity
<1>2. Keeps(s, t) /\ TurnsOK(t) /\ t.seq \in Nat
  BY <1>1, SameWork DEF TurnsOK, Sound
<1> DEFINE id == <<"tool", e.tool>>
           Mut(it) == [it EXCEPT !.kind = "tool", !.turn = e.turn, !.status = e.status,
                           !.parent = IF e.parent # None THEN e.parent ELSE @]
           f == [i \in DOMAIN s.items |-> Mut(s.items[i])]
           x == Mut(BlankItem(id))
<1>3. Puts(s.items, t.items, id, f, x)
  BY DEF Puts, ToolStarted, Upsert, Change, Sound, IsState
<1>4. id \in CallIds
  BY DEF CallIds
<1>5. ASSUME NEW b, IsItem(b), b.id = id, NEW c, c = Mut(b)
      PROVE  c.id = id /\ ItemOK(t, c)
  <2>1. /\ IsItem(c) /\ c.id = id /\ c.kind = "tool" /\ c.status = "pending"
        /\ c.turn = OpenTurn(s.turns)
    BY <1>5 DEF IsItem
  <2> QED
    BY <1>1, <1>4, <2>1 DEF ItemOK
<1>6. ASSUME NEW i \in DOMAIN s.items, s.items[i].id = id, ItemOK(s, s.items[i])
      PROVE  f[i].id = id /\ ItemOK(t, f[i])
  <2>1. IsItem(s.items[i]) /\ f[i] = Mut(s.items[i])
    BY <1>6 DEF ItemOK
  <2> HIDE DEF id, f
  <2> QED
    BY <1>5, <1>6, <2>1
<1>7. x.id = id /\ ItemOK(t, x)
  <2>1. IsItem(BlankItem(id)) /\ BlankItem(id).id = id
    BY BlankIs
  <2> HIDE DEF id
  <2> QED
    BY <1>5, <2>1
<1> HIDE DEF id, f, x
<1>8. ItemsOK(t)
  BY <1>2, <1>3, <1>6, <1>7, PutItem
<1> QED
  BY <1>1, <1>2, <1>8, StateIs

\* A call goes active only while a turn is open, and is not settled; its result may straggle.
LEMMA CallUpdateStep ==
  ASSUME NEW s, Sound(s), NEW e, NEW t, t = ToolUpdated(s, e),
         e.tool \in Tools, e.status \in {"in_progress", "completed"},
         e.status = "in_progress" =>
           /\ OpenTurn(s.turns) # None
           /\ Holds(s.items, <<"tool", e.tool>>)
                => Unsettled(Entry(s.items, <<"tool", e.tool>>))
  PROVE  Sound(t)
<1>1. /\ IsState(t) /\ t.seq = s.seq /\ t.closed = s.closed /\ t.jobs = s.jobs /\ t.turns = s.turns
      /\ s.phase = "turn" => t.phase = "turn"
  BY DEF Sound, IsState, ToolUpdated, Activity
<1>2. Keeps(s, t) /\ TurnsOK(t) /\ t.seq \in Nat
  BY <1>1, SameWork DEF TurnsOK, Sound
<1> DEFINE id == <<"tool", e.tool>>
           Mut(it) == [it EXCEPT !.kind = "tool",
                           !.status = IF e.status # None THEN e.status ELSE @,
                           !.parent = IF e.parent # None THEN e.parent ELSE @,
                           !.body = @ + e.content]
           f == [i \in DOMAIN s.items |-> Mut(s.items[i])]
           x == Mut(BlankItem(id))
<1>3. Puts(s.items, t.items, id, f, x)
  BY DEF Puts, ToolUpdated, Upsert, Change, Sound, IsState
<1>4. id \in CallIds
  BY DEF CallIds
<1>5. ASSUME NEW b, IsItem(b), b.id = id, NEW c, c = Mut(b),
             \/ b.turn = None
             \/ ItemOK(s, b) /\ (e.status = "in_progress" => Unsettled(b))
      PROVE  c.id = id /\ ItemOK(t, c)
  <2>1. /\ IsItem(c) /\ c.id = id /\ c.kind = "tool" /\ c.status = e.status /\ c.turn = b.turn
    BY <1>5 DEF IsItem, None
  <2>2. Covered(s, b) => Covered(t, c)
    BY <1>1, <1>5, <2>1 DEF Covered
  <2> QED
    BY <1>1, <1>4, <1>5, <2>1, <2>2 DEF ItemOK, Unsettled
<1>6. ASSUME NEW i \in DOMAIN s.items, s.items[i].id = id, ItemOK(s, s.items[i])
      PROVE  f[i].id = id /\ ItemOK(t, f[i])
  <2>1. IsItem(s.items[i]) /\ f[i] = Mut(s.items[i])
    BY <1>6 DEF ItemOK
  <2>2. Holds(s.items, id) /\ Entry(s.items, id) = s.items[i]
    BY <1>6, EntryIs DEF Holds, Sound, ItemsOK
  <2> HIDE DEF id, f
  <2>3. e.status = "in_progress" => Unsettled(s.items[i])
    BY <2>2 DEF id
  <2> QED
    BY <1>5, <1>6, <2>1, <2>3
<1>7. x.id = id /\ ItemOK(t, x)
  <2>1. IsItem(BlankItem(id)) /\ BlankItem(id).id = id /\ BlankItem(id).turn = None
    BY BlankIs
  <2> HIDE DEF id
  <2> QED
    BY <1>5, <2>1
<1> HIDE DEF id, f, x
<1>8. ItemsOK(t)
  BY <1>2, <1>3, <1>6, <1>7, PutItem
<1> QED
  BY <1>1, <1>2, <1>8, StateIs

\* A prompt the harness reads moves from the queue to the timeline.
LEMMA InjectedStep ==
  ASSUME NEW s, Sound(s), NEW e, NEW t, t = PromptInjected(s, e)
  PROVE  Sound(t)
<1>1. CASE Holds(s.queued, e.queue)
  <2>1. /\ IsState(t) /\ t.seq = s.seq /\ t.closed = s.closed /\ t.jobs = s.jobs
        /\ t.turns = s.turns /\ s.phase = t.phase
        /\ t.items = PromptItem(s.items, <<"prompt", e.queue>>, Entry(s.queued, e.queue).prompt,
                                e.turn)
    BY <1>1 DEF Sound, IsState, PromptInjected
  <2>2. Keeps(s, t) /\ TurnsOK(t) /\ t.seq \in Nat
    BY <2>1, SameWork DEF TurnsOK, Sound
  <2>3. ItemsOK(t)
    BY <2>1, <2>2, PromptPut
  <2> QED
    BY <2>1, <2>2, <2>3, StateIs
<1> QED
  BY <1>1 DEF PromptInjected

\* An answered card says so.
LEMMA AnsweredStep ==
  ASSUME NEW s, Sound(s), NEW e, NEW t, t = ElicitationResolved(s, e)
  PROVE  Sound(t)
<1>1. /\ IsState(t) /\ t.seq = s.seq /\ t.closed = s.closed /\ t.jobs = s.jobs
      /\ t.turns = s.turns /\ s.phase = t.phase
  BY DEF Sound, IsState, ElicitationResolved
<1>2. Keeps(s, t) /\ TurnsOK(t) /\ t.seq \in Nat
  BY <1>1, SameWork DEF TurnsOK, Sound
<1>3. /\ t.items = [i \in DOMAIN s.items |-> t.items[i]]
      /\ \A i \in DOMAIN s.items :
           t.items[i] = IF s.items[i].id = <<"card", e.req>> /\ s.items[i].kind = "card"
                        THEN [s.items[i] EXCEPT !.status = CardResult(e)] ELSE s.items[i]
  BY DEF ElicitationResolved, Change, Sound, IsState
<1>4. ASSUME NEW i \in DOMAIN s.items
      PROVE  t.items[i].id = s.items[i].id /\ ItemOK(t, t.items[i])
  <2>1. ItemOK(s, s.items[i]) /\ IsItem(s.items[i]) /\ ItemOK(t, s.items[i])
    BY <1>2 DEF Sound, ItemsOK, Keeps, ItemOK
  <2>2. CASE s.items[i].id = <<"card", e.req>> /\ s.items[i].kind = "card"
    <3> DEFINE c == t.items[i]
    <3>1. c = [s.items[i] EXCEPT !.status = CardResult(e)] /\ CardResult(e) # "in_progress"
      BY <1>3, <2>2 DEF CardResult
    <3> HIDE DEF c
    <3>2. IsItem(c) /\ c.id = s.items[i].id /\ c.kind = "card" /\ c.status # "in_progress"
      BY <2>1, <2>2, <3>1 DEF IsItem
    <3>3. c.id \notin CallIds
      BY <2>2, <3>2 DEF CallIds
    <3> QED
      BY <3>2, <3>3, NoCallOK DEF c
  <2> QED
    BY <1>3, <2>1, <2>2
<1>5. IsList(t.items) /\ Once(t.items) /\ DOMAIN t.items = DOMAIN s.items
  BY <1>3, <1>4, ChangedList DEF Sound, ItemsOK
<1>6. ItemsOK(t)
  BY <1>4, <1>5 DEF ItemsOK
<1> QED
  BY <1>1, <1>2, <1>6, StateIs

\* A turn starts while none is open.
LEMMA StartStep ==
  ASSUME NEW s, Sound(s), NEW e, NEW t, t = TurnStarted(s, e),
         OpenTurn(s.turns) = None, e.turn \in Turns, ~Holds(s.turns, e.turn)
  PROVE  Sound(t)
<1> DEFINE r == t.turns[Len(s.turns) + 1]
<1>1. /\ IsState(t) /\ t.seq = s.seq /\ t.closed = s.closed /\ t.jobs = s.jobs /\ t.phase = "turn"
      /\ \E p : /\ t.turns = Append(s.turns, [id |-> e.turn, prompt |-> p, done |-> FALSE,
                                             stop |-> None, recovery |-> e.recovery, diff |-> 0])
                /\ \/ t.items = s.items
                   \/ t.items = PromptItem(s.items, <<"prompt", e.turn>>, p, e.turn)
  BY DEF Sound, IsState, TurnStarted
<1>2. PICK p : /\ t.turns = Append(s.turns, [id |-> e.turn, prompt |-> p, done |-> FALSE,
                                            stop |-> None, recovery |-> e.recovery, diff |-> 0])
               /\ \/ t.items = s.items
                  \/ t.items = PromptItem(s.items, <<"prompt", e.turn>>, p, e.turn)
  BY <1>1
<1>3. Keeps(s, t)
  BY <1>1 DEF Keeps, ItemOK, Covered
<1>4. ItemsOK(t)
  <2>1. CASE t.items = s.items
    BY <1>3, <2>1 DEF Keeps, Sound, ItemsOK
  <2> QED
    BY <1>2, <1>3, <2>1, PromptPut
<1>5. TurnsOK(t)
  <2> DEFINE x == [id |-> e.turn, prompt |-> p, done |-> FALSE,
                   stop |-> None, recovery |-> e.recovery, diff |-> 0]
  <2>1. x.id = e.turn /\ IsTurn(x) /\ x.done = FALSE
    BY DEF IsTurn
  <2>2. IsList(s.turns) /\ Once(s.turns) /\ t.turns = Append(s.turns, x)
    BY <1>2 DEF Sound, TurnsOK
  <2> HIDE DEF x
  <2>3. /\ IsList(t.turns) /\ Once(t.turns)
        /\ DOMAIN t.turns = DOMAIN s.turns \cup {Len(s.turns) + 1}
        /\ Len(t.turns) = Len(s.turns) + 1
        /\ \A i \in DOMAIN s.turns : t.turns[i] = s.turns[i]
        /\ t.turns[Len(s.turns) + 1] = x
    BY <2>1, <2>2, LongerList
  <2>4. \A i \in DOMAIN s.turns : s.turns[i].done
    BY OpenIs DEF Sound
  <2> QED
    BY <1>1, <2>1, <2>3, <2>4 DEF TurnsOK, Sound
<1> QED
  BY <1>1, <1>4, <1>5, StateIs DEF Sound

\* The turns of a list whose entries were changed, but for their ids, and are done if they were.
LEMMA ChangedTurns ==
  ASSUME NEW s, TurnsOK(s), NEW t, t.turns = [i \in DOMAIN s.turns |-> t.turns[i]],
         \A i \in DOMAIN s.turns : /\ t.turns[i].id = s.turns[i].id /\ IsTurn(t.turns[i])
                                   /\ t.turns[i].done \in BOOLEAN
                                   /\ s.turns[i].done => t.turns[i].done,
         OpenTurn(t.turns) # None => t.phase = "turn" \/ t.closed
  PROVE  TurnsOK(t)
<1>1. IsList(t.turns) /\ Once(t.turns) /\ DOMAIN t.turns = DOMAIN s.turns
      /\ Len(t.turns) = Len(s.turns)
  BY ChangedList DEF TurnsOK
<1> QED
  BY <1>1 DEF TurnsOK

\* A turn's diff is hung on it.
LEMMA DiffStep ==
  ASSUME NEW s, Sound(s), NEW e, NEW t, t = TurnDiff(s, e)
  PROVE  Sound(t)
<1>1. /\ IsState(t) /\ t.seq = s.seq /\ t.closed = s.closed /\ t.jobs = s.jobs
      /\ t.items = s.items /\ s.phase = t.phase
      /\ t.turns = [i \in DOMAIN s.turns |-> t.turns[i]]
      /\ \A i \in DOMAIN s.turns :
           t.turns[i] = IF s.turns[i].id = e.turn THEN [s.turns[i] EXCEPT !.diff = e.seq]
                        ELSE s.turns[i]
  BY DEF Sound, IsState, TurnDiff, Change
<1>2. \A i \in DOMAIN s.turns : /\ t.turns[i].id = s.turns[i].id /\ IsTurn(t.turns[i])
                                /\ t.turns[i].done = s.turns[i].done
  <2> TAKE i \in DOMAIN s.turns
  <2>1. IsTurn(s.turns[i])
    BY DEF Sound, TurnsOK
  <2> QED
    BY <1>1, <2>1 DEF IsTurn
<1>3. OpenTurn(t.turns) = OpenTurn(s.turns)
  <2>1. {i \in DOMAIN t.turns : ~t.turns[i].done} = {i \in DOMAIN s.turns : ~s.turns[i].done}
    BY <1>1, <1>2
  <2>2. CASE OpenTurn(s.turns) = None
    <3>1. \A i \in DOMAIN t.turns : t.turns[i].done
      BY <1>1, <1>2, <2>2, OpenIs DEF Sound
    <3> QED
      BY <2>2, <3>1, NoneOpen
  <2>3. CASE OpenTurn(s.turns) # None
    <3>1. PICK k \in DOMAIN s.turns : ~s.turns[k].done
      BY <2>3, OpenIs DEF Sound
    <3>2. k \in Nat /\ k \in DOMAIN t.turns /\ \A i \in DOMAIN s.turns : ~s.turns[i].done => i = k
      BY <1>1, <3>1, ListParts DEF Sound, TurnsOK
    <3>3. ~t.turns[k].done /\ \A i \in DOMAIN t.turns : ~t.turns[i].done => i = k
      BY <1>1, <1>2, <3>1, <3>2
    <3>4. OpenTurn(t.turns) = t.turns[k].id
      BY <3>2, <3>3, OneOpen
    <3> QED
      BY <1>2, <3>1, <3>4, OpenIs DEF Sound
  <2> QED
    BY <2>2, <2>3
<1>4. TurnsOK(t)
  <2>1. \A i \in DOMAIN s.turns : s.turns[i].done \in BOOLEAN
    BY DEF Sound, TurnsOK
  <2>2. OpenTurn(t.turns) # None => t.phase = "turn" \/ t.closed
    BY <1>1, <1>3 DEF Sound, TurnsOK
  <2> QED
    BY <1>1, <1>2, <2>1, <2>2, ChangedTurns DEF Sound
<1>5. ItemsOK(t)
  BY <1>1, <1>3, SameWork DEF Keeps, Sound, ItemsOK
<1> QED
  BY <1>1, <1>4, <1>5, StateIs DEF Sound

\* A turn finishes; if it is the open one, or none is, its calls are cut off, but for
\* those a live job stands for.
LEMMA FinishStep ==
  ASSUME NEW s, Sound(s), NEW e, NEW t, t = TurnFinished(s, e), e.turn \in Turns
  PROVE  Sound(t)
<1> DEFINE open == OpenTurn(s.turns)
           match == open = None \/ e.turn = open
           Live(it) == Covered(s, it)
           Cut(it) == /\ it.kind = "tool" /\ Unsettled(it)
                      /\ it.turn \in {e.turn, None} /\ ~Live(it)
<1>1. /\ IsState(t) /\ t.seq = s.seq /\ t.closed = s.closed /\ t.jobs = s.jobs
      /\ ~match => t.phase = s.phase
      /\ t.turns = [i \in DOMAIN s.turns |-> t.turns[i]]
      /\ \A i \in DOMAIN s.turns :
           t.turns[i] = IF s.turns[i].id = e.turn
                        THEN [s.turns[i] EXCEPT !.done = TRUE, !.stop = e.stop]
                        ELSE s.turns[i]
      /\ ~match => t.items = s.items
  BY DEF Sound, IsState, TurnFinished, Change
<1>2. match => /\ t.items = [i \in DOMAIN s.items |-> t.items[i]]
               /\ \A i \in DOMAIN s.items :
                    t.items[i] = IF Cut(s.items[i])
                                 THEN [s.items[i] EXCEPT !.status = "cancelled"]
                                 ELSE s.items[i]
  <2> SUFFICES ASSUME match
               PROVE  /\ t.items = [i \in DOMAIN s.items |-> t.items[i]]
                      /\ \A i \in DOMAIN s.items :
                           t.items[i] = IF Cut(s.items[i])
                                        THEN [s.items[i] EXCEPT !.status = "cancelled"]
                                        ELSE s.items[i]
    OBVIOUS
  <2>1. \A it : (\E i \in DOMAIN s.jobs : /\ ~JobDone(s.jobs[i].status)
                                          /\ <<"tool", s.jobs[i].call>> = it.id)
                  <=> Covered(s, it)
    BY DEF Covered
  <2> QED
    BY <2>1 DEF Sound, IsState, TurnFinished, Change
<1>3. \A i \in DOMAIN s.turns : /\ t.turns[i].id = s.turns[i].id /\ IsTurn(t.turns[i])
                                /\ t.turns[i].done = (s.turns[i].done \/ s.turns[i].id = e.turn)
  <2> TAKE i \in DOMAIN s.turns
  <2>1. IsTurn(s.turns[i]) /\ s.turns[i].done \in BOOLEAN
    BY DEF Sound, TurnsOK
  <2> QED
    BY <1>1, <2>1 DEF IsTurn
<1>4. match => OpenTurn(t.turns) = None
  <2>1. ASSUME match, NEW i \in DOMAIN s.turns PROVE t.turns[i].done
    BY <1>3, <2>1, OpenIs DEF Sound
  <2> QED
    BY <1>1, <2>1, NoneOpen
<1>5. ~match => OpenTurn(t.turns) = open
  <2> SUFFICES ASSUME ~match PROVE OpenTurn(t.turns) = open
    OBVIOUS
  <2>1. PICK k \in DOMAIN s.turns : ~s.turns[k].done
    BY OpenIs DEF Sound
  <2>2. open = s.turns[k].id
    BY <2>1, OpenIs DEF Sound
  <2>3. k \in Nat /\ k \in DOMAIN t.turns /\ \A i \in DOMAIN s.turns : ~s.turns[i].done => i = k
    BY <1>1, <2>1, ListParts DEF Sound, TurnsOK
  <2>4. ~t.turns[k].done /\ t.turns[k].id = open
    BY <1>3, <2>1, <2>2
  <2>5. \A i \in DOMAIN t.turns : ~t.turns[i].done => i = k
    BY <1>1, <1>3, <2>3
  <2> QED
    BY <2>3, <2>4, <2>5, OneOpen
<1>6. TurnsOK(t)
  <2>1. \A i \in DOMAIN s.turns : s.turns[i].done \in BOOLEAN
    BY DEF Sound, TurnsOK
  <2>2. OpenTurn(t.turns) # None => t.phase = "turn" \/ t.closed
    BY <1>1, <1>4, <1>5 DEF Sound, TurnsOK
  <2> QED
    BY <1>1, <1>3, <2>1, <2>2, ChangedTurns DEF Sound
<1>7. ItemsOK(t)
  <2>1. CASE ~match
    BY <1>1, <1>5, <2>1, SameWork DEF Keeps, Sound, ItemsOK
  <2>2. CASE match
    <3>1. ASSUME NEW i \in DOMAIN s.items
          PROVE  t.items[i].id = s.items[i].id /\ ItemOK(t, t.items[i])
      <4>1. ItemOK(s, s.items[i]) /\ IsItem(s.items[i])
        BY DEF Sound, ItemsOK, ItemOK
      <4>2. \A c : c.id = s.items[i].id => (Covered(t, c) <=> Covered(s, s.items[i]))
        BY <1>1 DEF Covered
      <4>3. CASE Cut(s.items[i])
        <5> DEFINE c == t.items[i]
        <5>1. c = [s.items[i] EXCEPT !.status = "cancelled"]
          BY <1>2, <2>2, <4>3
        <5> HIDE DEF c
        <5>2. /\ IsItem(c) /\ c.id = s.items[i].id /\ c.kind = s.items[i].kind
              /\ c.status = "cancelled"
          BY <4>1, <5>1 DEF IsItem
        <5> QED
          BY <4>1, <5>2 DEF ItemOK, Unsettled, c
      <4>4. CASE ~Cut(s.items[i])
        <5>1. t.items[i] = s.items[i]
          BY <1>2, <2>2, <4>4
        <5>2. s.items[i].kind = "tool" /\ Unsettled(s.items[i]) => Covered(s, s.items[i])
          BY <2>2, <4>1, <4>4 DEF ItemOK
        <5>3. s.items[i].status = "in_progress" => Unsettled(s.items[i])
          BY DEF Unsettled
        <5> QED
          BY <4>1, <4>2, <5>1, <5>2, <5>3 DEF ItemOK
      <4> QED
        BY <4>3, <4>4
    <3>2. IsList(t.items) /\ Once(t.items) /\ DOMAIN t.items = DOMAIN s.items
      BY <1>2, <2>2, <3>1, ChangedList DEF Sound, ItemsOK
    <3> QED
      BY <3>1, <3>2 DEF ItemsOK
  <2> QED
    BY <2>1, <2>2
<1> QED
  BY <1>1, <1>6, <1>7, StateIs DEF Sound

\* A job's row keeps the call it stands for, and is live until it is said to have ended;
\* then the call it stands for is settled.
LEMMA JobStep ==
  ASSUME NEW s, Sound(s), NEW e, NEW t, t = JobRow(s, e),
         e.kind = None, e.task \in TaskTypes, e.type \in {"job.updated", "job.finished"},
         e.type = "job.finished" <=> JobDone(e.status),
         e.status \in {None, "stopped", "completed"},
         Holds(s.jobs, e.job) => Entry(s.jobs, e.job).call \in {None, e.call}
  PROVE  Sound(t)
<1> DEFINE first == [id |-> e.job, call |-> None, kind |-> None,
                     status |-> "running", used |-> 0, ended |-> FALSE,
                     turn |-> OpenTurn(s.turns)]
           old    == IF Holds(s.jobs, e.job) THEN Entry(s.jobs, e.job) ELSE first
           kind   == IF e.kind # None THEN e.kind ELSE old.kind
           said   == IF e.status # None THEN e.status ELSE old.status
           status == IF e.type = "job.finished" /\ ~JobDone(said) THEN "completed" ELSE said
           job == [old EXCEPT !.call = IF e.call # None THEN e.call ELSE @,
                              !.kind = IF kind = None THEN ClassifyJob(e.task) ELSE kind,
                              !.used = IF e.used > 0 THEN e.used ELSE @,
                              !.status = status, !.ended = @ \/ JobDone(status)]
           Kinds == {ClassifyJob(task) : task \in TaskTypes}
           fin == e.type = "job.finished"
<1>1. /\ IsState(t) /\ t.seq = s.seq /\ t.closed = s.closed /\ t.turns = s.turns
      /\ t.phase = s.phase /\ t.jobs = Replace(s.jobs, job)
      /\ ~fin => t.items = s.items
  BY DEF Sound, IsState, JobRow
<1>2. fin => /\ t.items = [i \in DOMAIN s.items |-> t.items[i]]
             /\ \A i \in DOMAIN s.items :
                  t.items[i] = IF s.items[i].id = <<"tool", job.call>> /\ Unsettled(s.items[i])
                               THEN [s.items[i] EXCEPT !.status = SettledBy(job.status)]
                               ELSE s.items[i]
  BY DEF Sound, IsState, JobRow, Change
<1>3. /\ IsJob(old) /\ old.id = e.job
      /\ \A k \in DOMAIN s.jobs : s.jobs[k].id = e.job => old = s.jobs[k]
      /\ old.kind \in Kinds \cup {None}
  <2>1. CASE Holds(s.jobs, e.job)
    <3>1. \A k \in DOMAIN s.jobs : s.jobs[k].id = e.job => old = s.jobs[k]
      BY <2>1, EntryIs DEF Sound, JobsOK
    <3>2. PICK k \in DOMAIN s.jobs : s.jobs[k].id = e.job
      BY <2>1 DEF Holds
    <3>3. old = s.jobs[k] /\ IsJob(s.jobs[k]) /\ s.jobs[k].kind \in Kinds
      BY <3>1, <3>2 DEF Sound, JobsOK
    <3> QED
      BY <3>1, <3>2, <3>3
  <2>2. CASE ~Holds(s.jobs, e.job)
    <3>1. IsJob(first) /\ first.id = e.job /\ first.kind = None
      BY DEF IsJob
    <3> QED
      BY <2>2, <3>1 DEF Holds
  <2> QED
    BY <2>1, <2>2
<1> HIDE DEF old
<1>4. /\ IsJob(job) /\ job.id = e.job /\ job.status = status
      /\ job.call = IF e.call # None THEN e.call ELSE old.call
      /\ job.kind = IF kind = None THEN ClassifyJob(e.task) ELSE kind
  <2>1. ASSUME NEW j, j = job
        PROVE  /\ IsJob(j) /\ j.id = e.job /\ j.status = status
               /\ j.call = IF e.call # None THEN e.call ELSE old.call
               /\ j.kind = IF kind = None THEN ClassifyJob(e.task) ELSE kind
    BY <1>3, <2>1 DEF IsJob
  <2> HIDE DEF job, status, kind
  <2> QED
    BY <2>1
<1>5. job.kind \in Kinds
  BY <1>3, <1>4
<1>6. /\ fin => JobDone(status)
      /\ ~fin => status = old.status
  BY DEF JobDone, None
<1> HIDE DEF job, status, said, kind
<1>7. /\ IsList(t.jobs) /\ Once(t.jobs)
      /\ \A j \in DOMAIN s.jobs :
           /\ j \in DOMAIN t.jobs
           /\ t.jobs[j] = IF s.jobs[j].id = e.job THEN job ELSE s.jobs[j]
      /\ \A j \in DOMAIN t.jobs : t.jobs[j] = job \/ (j \in DOMAIN s.jobs /\ t.jobs[j] = s.jobs[j])
  <2>0. IsList(s.jobs) /\ Once(s.jobs)
    BY DEF Sound, JobsOK
  <2>1. CASE Holds(s.jobs, e.job)
    <3>1. /\ t.jobs = [j \in DOMAIN s.jobs |-> t.jobs[j]]
          /\ \A j \in DOMAIN s.jobs :
               t.jobs[j] = IF s.jobs[j].id = e.job THEN job ELSE s.jobs[j]
      BY <1>1, <1>4, <2>1 DEF Replace, Change
    <3>2. \A j \in DOMAIN s.jobs : t.jobs[j].id = s.jobs[j].id
      BY <1>4, <3>1
    <3> QED
      BY <2>0, <3>1, <3>2, ChangedList
  <2>2. CASE ~Holds(s.jobs, e.job)
    <3>1. t.jobs = Append(s.jobs, job) /\ ~Holds(s.jobs, job.id)
      BY <1>1, <1>4, <2>2 DEF Replace
    <3>2. \A j \in DOMAIN s.jobs : s.jobs[j].id # e.job
      BY <2>2 DEF Holds
    <3> QED
      BY <2>0, <3>1, <3>2, LongerList
  <2> QED
    BY <2>1, <2>2
<1>8. JobsOK(t)
  <2>1. \A j \in DOMAIN s.jobs : IsJob(s.jobs[j]) /\ s.jobs[j].kind \in Kinds
    BY DEF Sound, JobsOK
  <2> QED
    BY <1>4, <1>5, <1>7, <2>1 DEF JobsOK
<1>9. ASSUME NEW it, it.id \in CallIds, Covered(s, it)
      PROVE  Covered(t, it) \/ (fin /\ it.id = <<"tool", job.call>>)
  <2>1. PICK j \in DOMAIN s.jobs : ~JobDone(s.jobs[j].status) /\ it.id = <<"tool", s.jobs[j].call>>
    BY <1>9 DEF Covered
  <2>2. CASE s.jobs[j].id # e.job
    BY <1>7, <2>1, <2>2 DEF Covered
  <2>3. CASE s.jobs[j].id = e.job
    <3>1. old = s.jobs[j] /\ t.jobs[j] = job /\ j \in DOMAIN t.jobs
      BY <1>3, <1>7, <2>3
    <3>2. old.call \in Tools /\ old.call # None
      BY <1>9, <2>1, <3>1, PresenterConstants DEF CallIds
    <3>3. Holds(s.jobs, e.job) /\ Entry(s.jobs, e.job) = old
      BY <2>3, <3>1, EntryIs DEF Holds, Sound, JobsOK
    <3>4. job.call = old.call
      BY <1>4, <3>2, <3>3
    <3>5. ~fin => ~JobDone(job.status)
      BY <1>4, <1>6, <2>1, <3>1
    <3> QED
      BY <2>1, <3>1, <3>4, <3>5 DEF Covered
  <2> QED
    BY <2>2, <2>3
<1>10. ASSUME NEW i \in DOMAIN s.items
       PROVE  t.items[i].id = s.items[i].id /\ ItemOK(t, t.items[i])
  <2>1. ItemOK(s, s.items[i]) /\ IsItem(s.items[i])
    BY DEF Sound, ItemsOK, ItemOK
  <2>2. s.items[i].status = "in_progress" => Unsettled(s.items[i])
    BY DEF Unsettled
  <2>3. CASE fin /\ s.items[i].id = <<"tool", job.call>> /\ Unsettled(s.items[i])
    <3> DEFINE c == t.items[i]
    <3>1. c = [s.items[i] EXCEPT !.status = SettledBy(job.status)]
      BY <1>2, <2>3
    <3>2. SettledBy(job.status) \notin {"in_progress", "pending"}
      BY DEF SettledBy
    <3> HIDE DEF c
    <3>3. IsItem(c) /\ c.id = s.items[i].id /\ c.kind = s.items[i].kind
          /\ c.status = SettledBy(job.status)
      BY <2>1, <3>1 DEF IsItem
    <3> QED
      BY <2>1, <3>2, <3>3 DEF ItemOK, Unsettled, c
  <2>4. CASE ~(fin /\ s.items[i].id = <<"tool", job.call>> /\ Unsettled(s.items[i]))
    <3>1. t.items[i] = s.items[i]
      BY <1>1, <1>2, <2>4
    <3>2. s.items[i].kind = "tool" /\ Unsettled(s.items[i]) /\ Covered(s, s.items[i])
            => Covered(t, s.items[i])
      BY <1>9, <2>1, <2>4 DEF ItemOK
    <3> QED
      BY <1>1, <2>1, <2>2, <3>1, <3>2 DEF ItemOK
  <2> QED
    BY <2>3, <2>4
<1>11. ItemsOK(t)
  <2>1. CASE ~fin
    BY <1>1, <1>10, <2>1 DEF Sound, ItemsOK
  <2>2. CASE fin
    <3>1. IsList(t.items) /\ Once(t.items) /\ DOMAIN t.items = DOMAIN s.items
      BY <1>2, <1>10, <2>2, ChangedList DEF Sound, ItemsOK
    <3> QED
      BY <1>10, <3>1 DEF ItemsOK
  <2> QED
    BY <2>1, <2>2
<1>12. TurnsOK(t)
  BY <1>1 DEF Sound, TurnsOK
<1> QED
  BY <1>1, <1>8, <1>11, <1>12 DEF Sound

-----------------------------------------------------------------------------
(* The server's state, event by event.                                      *)

\* An event that is given the next seq is folded by its own branch of Apply.
LEMMA EmitFolds ==
  ASSUME NEW s, Sound(s), NEW e, e.seq = s.seq + 1
  PROVE  LET b == [s EXCEPT !.seq = e.seq]
         IN  /\ Sound(b) /\ b.items = s.items /\ b.jobs = s.jobs /\ b.turns = s.turns
             /\ b.phase = s.phase /\ b.closed = s.closed
  <1>1. ASSUME NEW b, b = [s EXCEPT !.seq = e.seq]
        PROVE  /\ Sound(b) /\ b.items = s.items /\ b.jobs = s.jobs /\ b.turns = s.turns
               /\ b.phase = s.phase /\ b.closed = s.closed
    <2>1. /\ IsState(b) /\ b.items = s.items /\ b.jobs = s.jobs /\ b.turns = s.turns
          /\ b.phase = s.phase /\ b.closed = s.closed /\ b.seq \in Nat /\ b.closed \in BOOLEAN
      BY <1>1 DEF Sound, IsState
    <2> QED
      BY <2>1, LeavesWork
  <1> QED
    BY <1>1

\* The event Emit folds is the one it is given, stamped.
LEMMA Emitted ==
  ASSUME Sound(srv), NEW e, Emit(e)
  PROVE  /\ srv' = Apply(srv, Stamped(e)) /\ Stamped(e).seq = srv.seq + 1
         /\ \A f \in DOMAIN e \ {"seq"} : Stamped(e)[f] = e[f]
  BY DEF Emit, Stamped

\* A turn starts.
LEMMA StartTurnKept ==
  ASSUME Sound(srv), StartTurn
  PROVE  Sound(srv')
<1>1. PICK t \in Turns, q \in Queue \cup Plans \cup {None},
        prompt \in {None, "go"}, recovery \in BOOLEAN :
        /\ Now = None /\ ~Holds(srv.turns, t)
        /\ Emit([type |-> "turn.started", turn |-> t, queue |-> q,
                 prompt |-> prompt, recovery |-> recovery])
  BY DEF StartTurn, Work, Aside
<1> DEFINE e == [type |-> "turn.started", turn |-> t, queue |-> q,
                 prompt |-> prompt, recovery |-> recovery]
           ev == Stamped(e)
           b == [srv EXCEPT !.seq = ev.seq]
<1>2. /\ srv' = Apply(srv, ev) /\ ev.seq = srv.seq + 1 /\ srv.seq \in Nat
      /\ ev.type = "turn.started" /\ ev.turn = t
  BY <1>1, Emitted DEF Sound
<1> HIDE DEF ev
<1>3. srv' = TurnStarted(b, ev)
  BY <1>2 DEF Apply
<1>4. /\ Sound(b) /\ b.items = srv.items /\ b.jobs = srv.jobs /\ b.turns = srv.turns
      /\ b.phase = srv.phase /\ b.closed = srv.closed
  BY <1>2, EmitFolds
<1> HIDE DEF b
<1> QED
  BY <1>1, <1>2, <1>3, <1>4, StartStep DEF Now

\* A turn finishes, in order, late, or a second time.
LEMMA FinishTurnKept ==
  ASSUME Sound(srv), FinishTurn
  PROVE  Sound(srv')
<1>1. PICK t \in Turns, stop \in {"end_turn", "error"} :
        /\ t \in Turns
        /\ Emit([type |-> "turn.finished", turn |-> t, stop |-> stop])
  BY DEF FinishTurn, Work, Aside
<1> DEFINE e == [type |-> "turn.finished", turn |-> t, stop |-> stop]
           ev == Stamped(e)
           b == [srv EXCEPT !.seq = ev.seq]
<1>2. /\ srv' = Apply(srv, ev) /\ ev.seq = srv.seq + 1 /\ srv.seq \in Nat
      /\ ev.type = "turn.finished" /\ ev.turn = t
  BY <1>1, Emitted DEF Sound
<1> HIDE DEF ev
<1>3. srv' = TurnFinished(b, ev)
  BY <1>2 DEF Apply
<1>4. /\ Sound(b) /\ b.items = srv.items /\ b.jobs = srv.jobs /\ b.turns = srv.turns
      /\ b.phase = srv.phase /\ b.closed = srv.closed
  BY <1>2, EmitFolds
<1> HIDE DEF b
<1> QED
  BY <1>2, <1>3, <1>4, FinishStep

\* A diff is measured.
LEMMA MeasureDiffKept ==
  ASSUME Sound(srv), MeasureDiff
  PROVE  Sound(srv')
<1>1. PICK t \in Turns :
        /\ t \in Turns
        /\ Emit([type |-> "turn.diff", turn |-> t])
  BY DEF MeasureDiff, Work, Aside
<1> DEFINE e == [type |-> "turn.diff", turn |-> t]
           ev == Stamped(e)
           b == [srv EXCEPT !.seq = ev.seq]
<1>2. /\ srv' = Apply(srv, ev) /\ ev.seq = srv.seq + 1 /\ srv.seq \in Nat
      /\ ev.type = "turn.diff"
  BY <1>1, Emitted DEF Sound
<1> HIDE DEF ev
<1>3. srv' = TurnDiff(b, ev)
  BY <1>2 DEF Apply
<1>4. /\ Sound(b) /\ b.items = srv.items /\ b.jobs = srv.jobs /\ b.turns = srv.turns
      /\ b.phase = srv.phase /\ b.closed = srv.closed
  BY <1>2, EmitFolds
<1> HIDE DEF b
<1> QED
  BY <1>3, <1>4, DiffStep

\* Text is streamed.
LEMMA StreamTextKept ==
  ASSUME Sound(srv), StreamText
  PROVE  Sound(srv')
<1>1. PICK k \in Blocks, parent \in Calls \cup {None} :
        /\ k \in Blocks
        /\ Emit([type |-> "message.chunk", block |-> k, turn |-> Now,
                 parent |-> parent])
  BY DEF StreamText, Work, Aside
<1> DEFINE e == [type |-> "message.chunk", block |-> k, turn |-> Now,
                 parent |-> parent]
           ev == Stamped(e)
           b == [srv EXCEPT !.seq = ev.seq]
<1>2. /\ srv' = Apply(srv, ev) /\ ev.seq = srv.seq + 1 /\ srv.seq \in Nat
      /\ ev.type = "message.chunk"
  BY <1>1, Emitted DEF Sound
<1> HIDE DEF ev
<1>3. srv' = MessageChunk(b, ev)
  BY <1>2 DEF Apply
<1>4. /\ Sound(b) /\ b.items = srv.items /\ b.jobs = srv.jobs /\ b.turns = srv.turns
      /\ b.phase = srv.phase /\ b.closed = srv.closed
  BY <1>2, EmitFolds
<1> HIDE DEF b
<1> QED
  BY <1>3, <1>4, ChunkStep

\* A call starts.
LEMMA StartCallKept ==
  ASSUME Sound(srv), StartCall
  PROVE  Sound(srv')
<1>1. PICK t \in Tools :
        /\ t \in Tools
        /\ Emit([type |-> "tool_call.started", tool |-> t, turn |-> Now,
                 status |-> "pending", parent |-> None])
  BY DEF StartCall, Work, Aside
<1> DEFINE e == [type |-> "tool_call.started", tool |-> t, turn |-> Now,
                 status |-> "pending", parent |-> None]
           ev == Stamped(e)
           b == [srv EXCEPT !.seq = ev.seq]
<1>2. /\ srv' = Apply(srv, ev) /\ ev.seq = srv.seq + 1 /\ srv.seq \in Nat
      /\ ev.type = "tool_call.started" /\ ev.tool = t /\ ev.turn = Now /\ ev.status = "pending"
  BY <1>1, Emitted DEF Sound
<1> HIDE DEF ev
<1>3. srv' = ToolStarted(b, ev)
  BY <1>2 DEF Apply
<1>4. /\ Sound(b) /\ b.items = srv.items /\ b.jobs = srv.jobs /\ b.turns = srv.turns
      /\ b.phase = srv.phase /\ b.closed = srv.closed
  BY <1>2, EmitFolds
<1> HIDE DEF b
<1> QED
  BY <1>2, <1>3, <1>4, CallStartStep DEF Now

\* A call reports, perhaps after its turn.
LEMMA UpdateCallKept ==
  ASSUME Sound(srv), UpdateCall
  PROVE  Sound(srv')
<1>0. PICK t \in (IF Unseen THEN Tools ELSE Calls), status \in {"in_progress", "completed"} :
        /\ status = "in_progress" =>
             /\ Now # None
             /\ t \in Calls => Unsettled(Entry(srv.items, <<"tool", t>>))
        /\ Work([type |-> "tool_call.updated", tool |-> t, status |-> status,
                 content |-> IF status = "completed" THEN 1 ELSE 0,
                 parent |-> None])
  BY DEF UpdateCall
<1>1. /\ t \in Tools
      /\ status = "in_progress" =>
           /\ Now # None
           /\ Holds(srv.items, <<"tool", t>>) => Unsettled(Entry(srv.items, <<"tool", t>>))
      /\ Emit([type |-> "tool_call.updated", tool |-> t, status |-> status,
               content |-> IF status = "completed" THEN 1 ELSE 0,
               parent |-> None])
  BY <1>0 DEF Calls, Work
<1> DEFINE e == [type |-> "tool_call.updated", tool |-> t, status |-> status,
                 content |-> IF status = "completed" THEN 1 ELSE 0,
                 parent |-> None]
           ev == Stamped(e)
           b == [srv EXCEPT !.seq = ev.seq]
<1>2. /\ srv' = Apply(srv, ev) /\ ev.seq = srv.seq + 1 /\ srv.seq \in Nat
      /\ ev.type = "tool_call.updated" /\ ev.tool = t /\ ev.status = status
  BY <1>1, Emitted DEF Sound
<1> HIDE DEF ev
<1>3. srv' = ToolUpdated(b, ev)
  BY <1>2 DEF Apply
<1>4. /\ Sound(b) /\ b.items = srv.items /\ b.jobs = srv.jobs /\ b.turns = srv.turns
      /\ b.phase = srv.phase /\ b.closed = srv.closed
  BY <1>2, EmitFolds
<1> HIDE DEF b
<1> QED
  BY <1>1, <1>2, <1>3, <1>4, CallUpdateStep DEF Now

\* A job is reported.
LEMMA ReportJobKept ==
  ASSUME Sound(srv), ReportJob
  PROVE  Sound(srv')
<1>0. PICK j \in Jobs, c \in Calls \cup {None}, task \in TaskTypes,
           type \in {"job.updated", "job.finished"},
           status \in {None, "stopped", "completed"} :
        /\ (type = "job.finished") = JobDone(status)
        /\ Holds(srv.jobs, j) =>
             /\ Entry(srv.jobs, j).kind = ClassifyJob(task)
             /\ Entry(srv.jobs, j).call \in {None, c}
        /\ Work([type |-> type, job |-> j, call |-> c, task |-> task,
                 kind |-> None, status |-> status,
                 used |-> IF status = None THEN 1 ELSE 0])
  BY DEF ReportJob
<1>1. /\ type = "job.finished" <=> JobDone(status)
      /\ Holds(srv.jobs, j) => Entry(srv.jobs, j).call \in {None, c}
      /\ Emit([type |-> type, job |-> j, call |-> c, task |-> task,
               kind |-> None, status |-> status,
               used |-> IF status = None THEN 1 ELSE 0])
  BY <1>0 DEF Work, JobDone
<1> DEFINE e == [type |-> type, job |-> j, call |-> c, task |-> task,
                 kind |-> None, status |-> status,
                 used |-> IF status = None THEN 1 ELSE 0]
           ev == Stamped(e)
           b == [srv EXCEPT !.seq = ev.seq]
<1>2. /\ srv' = Apply(srv, ev) /\ ev.seq = srv.seq + 1 /\ srv.seq \in Nat
      /\ ev.type = type /\ ev.job = j /\ ev.call = c /\ ev.task = task
      /\ ev.kind = None /\ ev.status = status
  BY <1>1, Emitted DEF Sound
<1> HIDE DEF ev
<1>3. srv' = JobRow(b, ev)
  BY <1>2 DEF Apply
<1>4. /\ Sound(b) /\ b.items = srv.items /\ b.jobs = srv.jobs /\ b.turns = srv.turns
      /\ b.phase = srv.phase /\ b.closed = srv.closed
  BY <1>2, EmitFolds
<1> HIDE DEF b
<1> QED
  BY <1>1, <1>2, <1>3, <1>4, JobStep

\* A card is answered.
LEMMA AnswerElicitKept ==
  ASSUME Sound(srv), AnswerElicit
  PROVE  Sound(srv')
<1>1. PICK r \in Requests, action \in {"accept", "decline", "cancel"} :
        /\ r \in Requests
        /\ Emit([type |-> "elicitation.resolved", req |-> r, action |-> action])
  BY DEF AnswerElicit, Work, Aside
<1> DEFINE e == [type |-> "elicitation.resolved", req |-> r, action |-> action]
           ev == Stamped(e)
           b == [srv EXCEPT !.seq = ev.seq]
<1>2. /\ srv' = Apply(srv, ev) /\ ev.seq = srv.seq + 1 /\ srv.seq \in Nat
      /\ ev.type = "elicitation.resolved"
  BY <1>1, Emitted DEF Sound
<1> HIDE DEF ev
<1>3. srv' = ElicitationResolved(b, ev)
  BY <1>2 DEF Apply
<1>4. /\ Sound(b) /\ b.items = srv.items /\ b.jobs = srv.jobs /\ b.turns = srv.turns
      /\ b.phase = srv.phase /\ b.closed = srv.closed
  BY <1>2, EmitFolds
<1> HIDE DEF b
<1> QED
  BY <1>3, <1>4, AnsweredStep

\* A card is asked for.
LEMMA ElicitKept ==
  ASSUME Sound(srv), Elicit
  PROVE  Sound(srv')
<1>1. PICK r \in Requests, card \in BOOLEAN :
        /\ r \in Requests
        /\ Emit([type |-> "elicitation.requested", req |-> r, card |-> card,
                 turn |-> Now])
  BY DEF Elicit, Work, Aside
<1> DEFINE e == [type |-> "elicitation.requested", req |-> r, card |-> card,
                 turn |-> Now]
           ev == Stamped(e)
           b == [srv EXCEPT !.seq = ev.seq]
<1>2. /\ srv' = Apply(srv, ev) /\ ev.seq = srv.seq + 1 /\ srv.seq \in Nat
      /\ ev.type = "elicitation.requested"
  BY <1>1, Emitted DEF Sound
<1> HIDE DEF ev
<1>3. srv' = ElicitationRequested(b, ev)
  BY <1>2 DEF Apply
<1>4. /\ Sound(b) /\ b.items = srv.items /\ b.jobs = srv.jobs /\ b.turns = srv.turns
      /\ b.phase = srv.phase /\ b.closed = srv.closed
  BY <1>2, EmitFolds
<1> HIDE DEF b
<1> QED
  BY <1>3, <1>4, ElicitStep

\* A change is noted.
LEMMA NoteChangeKept ==
  ASSUME Sound(srv), NoteChange
  PROVE  Sound(srv')
<1>1. PICK type \in {"context.compacted", "thread.account_changed"} :
        /\ type \in {"context.compacted", "thread.account_changed"}
        /\ Emit([type |-> type])
  BY DEF NoteChange, Work, Aside
<1> DEFINE e == [type |-> type]
           ev == Stamped(e)
           b == [srv EXCEPT !.seq = ev.seq]
<1>2. /\ srv' = Apply(srv, ev) /\ ev.seq = srv.seq + 1 /\ srv.seq \in Nat
      /\ ev.type = type
  BY <1>1, Emitted DEF Sound
<1> HIDE DEF ev
<1>3. srv' = Notice(b, ev)
  BY <1>2 DEF Apply
<1>4. /\ Sound(b) /\ b.items = srv.items /\ b.jobs = srv.jobs /\ b.turns = srv.turns
      /\ b.phase = srv.phase /\ b.closed = srv.closed
  BY <1>2, EmitFolds
<1> HIDE DEF b
<1> QED
  BY <1>3, <1>4, NoticeStep

\* An artefact is shown to the thread.
LEMMA ShowArtefactKept ==
  ASSUME Sound(srv), ShowArtefact
  PROVE  Sound(srv')
<1>1. PICK upload \in BOOLEAN :
        /\ upload \in BOOLEAN
        /\ Emit([type |-> "artefact.shown", artefact |-> "file", upload |-> upload,
                 turn |-> Now])
  BY DEF ShowArtefact, Work, Aside
<1> DEFINE e == [type |-> "artefact.shown", artefact |-> "file", upload |-> upload,
                 turn |-> Now]
           ev == Stamped(e)
           b == [srv EXCEPT !.seq = ev.seq]
<1>2. /\ srv' = Apply(srv, ev) /\ ev.seq = srv.seq + 1 /\ srv.seq \in Nat
      /\ ev.type = "artefact.shown"
  BY <1>1, Emitted DEF Sound
<1> HIDE DEF ev
<1>3. srv' = ArtefactShown(b, ev)
  BY <1>2 DEF Apply
<1>4. /\ Sound(b) /\ b.items = srv.items /\ b.jobs = srv.jobs /\ b.turns = srv.turns
      /\ b.phase = srv.phase /\ b.closed = srv.closed
  BY <1>2, EmitFolds
<1> HIDE DEF b
<1> QED
  BY <1>3, <1>4, ArtefactStep

\* A prompt is queued, or sent into the turn.
LEMMA QueuePromptKept ==
  ASSUME Sound(srv), QueuePrompt
  PROVE  Sound(srv')
<1>1. PICK q \in Queue :
        Emit([type |-> "prompt.queued", queue |-> q, prompt |-> "held",
                 sent |-> TRUE])
  BY DEF QueuePrompt, Work, Aside
<1> DEFINE e == [type |-> "prompt.queued", queue |-> q, prompt |-> "held",
                 sent |-> TRUE]
           ev == Stamped(e)
           b == [srv EXCEPT !.seq = ev.seq]
<1>2. /\ srv' = Apply(srv, ev) /\ ev.seq = srv.seq + 1 /\ srv.seq \in Nat
      /\ ev.type = "prompt.queued"
  BY <1>1, Emitted DEF Sound
<1> HIDE DEF ev
<1>3. srv' = PromptQueued(b, ev)
  BY <1>2 DEF Apply
<1>4. /\ Sound(b) /\ b.items = srv.items /\ b.jobs = srv.jobs /\ b.turns = srv.turns
      /\ b.phase = srv.phase /\ b.closed = srv.closed
  BY <1>2, EmitFolds
<1> HIDE DEF b
<1>5. /\ IsState(srv') /\ srv'.seq \in Nat /\ srv'.closed \in BOOLEAN
      /\ srv'.items = b.items /\ srv'.jobs = b.jobs /\ srv'.turns = b.turns
      /\ srv'.phase = b.phase /\ srv'.closed = b.closed
  BY <1>1, <1>3, <1>4 DEF Sound, IsState, PromptQueued
<1> QED
  BY <1>4, <1>5, LeavesWork

\* A prompt is planned.
LEMMA PlanPromptKept ==
  ASSUME Sound(srv), PlanPrompt
  PROVE  Sound(srv')
<1>0. PICK p \in Plans, status \in {"scheduled", "cancelled"} :
        \E rev : Emit([type |-> "prompt.scheduled",
                      plan |-> [id |-> p, status |-> status, turn |-> None, rev |-> rev]])
  BY DEF PlanPrompt, Aside
<1>1. PICK rev : Emit([type |-> "prompt.scheduled",
                      plan |-> [id |-> p, status |-> status, turn |-> None, rev |-> rev]])
  BY <1>0
<1> DEFINE e == [type |-> "prompt.scheduled",
                 plan |-> [id |-> p, status |-> status, turn |-> None, rev |-> rev]]
           ev == Stamped(e)
           b == [srv EXCEPT !.seq = ev.seq]
<1>2. /\ srv' = Apply(srv, ev) /\ ev.seq = srv.seq + 1 /\ srv.seq \in Nat
      /\ ev.type = "prompt.scheduled"
  BY <1>1, Emitted DEF Sound
<1> HIDE DEF ev
<1>3. srv' = [b EXCEPT !.sched = Replace(@, ev.plan)]
  BY <1>2 DEF Apply
<1>4. /\ Sound(b) /\ b.items = srv.items /\ b.jobs = srv.jobs /\ b.turns = srv.turns
      /\ b.phase = srv.phase /\ b.closed = srv.closed
  BY <1>2, EmitFolds
<1> HIDE DEF b
<1>5. /\ IsState(srv') /\ srv'.seq \in Nat /\ srv'.closed \in BOOLEAN
      /\ srv'.items = b.items /\ srv'.jobs = b.jobs /\ srv'.turns = b.turns
      /\ srv'.phase = b.phase /\ srv'.closed = b.closed
  BY <1>1, <1>3, <1>4 DEF Sound, IsState
<1> QED
  BY <1>4, <1>5, LeavesWork

\* A permission is asked for or resolved.
LEMMA AskPermissionKept ==
  ASSUME Sound(srv), AskPermission
  PROVE  Sound(srv')
<1>1. PICK r \in Requests, type \in {"permission.requested", "permission.resolved"} :
        Emit([type |-> type, req |-> r, call |-> None])
  BY DEF AskPermission, Work, Aside
<1> DEFINE e == [type |-> type, req |-> r, call |-> None]
           ev == Stamped(e)
           b == [srv EXCEPT !.seq = ev.seq]
<1>2. /\ srv' = Apply(srv, ev) /\ ev.seq = srv.seq + 1 /\ srv.seq \in Nat
      /\ ev.type = type
  BY <1>1, Emitted DEF Sound
<1> HIDE DEF ev
<1>3. \/ srv' = [b EXCEPT !.pending = Append(@, [id |-> ev.req, call |-> ev.call])]
      \/ srv' = [b EXCEPT !.pending = Without(@, ev.req)]
  <2>1. CASE type = "permission.requested"
    BY <1>2, <2>1 DEF Apply
  <2>2. CASE type = "permission.resolved"
    BY <1>2, <2>2 DEF Apply
  <2> QED
    BY <2>1, <2>2
<1>4. /\ Sound(b) /\ b.items = srv.items /\ b.jobs = srv.jobs /\ b.turns = srv.turns
      /\ b.phase = srv.phase /\ b.closed = srv.closed
  BY <1>2, EmitFolds
<1> HIDE DEF b
<1>5. /\ IsState(srv') /\ srv'.seq \in Nat /\ srv'.closed \in BOOLEAN
      /\ srv'.items = b.items /\ srv'.jobs = b.jobs /\ srv'.turns = b.turns
      /\ srv'.phase = b.phase /\ srv'.closed = b.closed
  BY <1>1, <1>3, <1>4 DEF Sound, IsState
<1> QED
  BY <1>4, <1>5, LeavesWork

\* The settings of the thread change.
LEMMA ChangeConfigKept ==
  ASSUME Sound(srv), ChangeConfig
  PROVE  Sound(srv')
<1>1. PICK model \in {None, "m"}, effort \in {None, "high"},
           touched \in BOOLEAN, replace \in BOOLEAN :
        Emit([type |-> "thread.config_changed", model |-> model,
              effort |-> effort, touched |-> touched, replace |-> replace])
  BY DEF ChangeConfig, Work, Aside
<1> DEFINE e == [type |-> "thread.config_changed", model |-> model,
              effort |-> effort, touched |-> touched, replace |-> replace]
           ev == Stamped(e)
           b == [srv EXCEPT !.seq = ev.seq]
<1>2. /\ srv' = Apply(srv, ev) /\ ev.seq = srv.seq + 1 /\ srv.seq \in Nat
      /\ ev.type = "thread.config_changed"
  BY <1>1, Emitted DEF Sound
<1> HIDE DEF ev
<1>3. srv' = ConfigChanged(b, ev)
  BY <1>2 DEF Apply
<1>4. /\ Sound(b) /\ b.items = srv.items /\ b.jobs = srv.jobs /\ b.turns = srv.turns
      /\ b.phase = srv.phase /\ b.closed = srv.closed
  BY <1>2, EmitFolds
<1> HIDE DEF b
<1>5. /\ IsState(srv') /\ srv'.seq \in Nat /\ srv'.closed \in BOOLEAN
      /\ srv'.items = b.items /\ srv'.jobs = b.jobs /\ srv'.turns = b.turns
      /\ srv'.phase = b.phase /\ srv'.closed = b.closed
  BY <1>1, <1>3, <1>4 DEF Sound, IsState, ConfigChanged
<1> QED
  BY <1>4, <1>5, LeavesWork

\* The thread is closed.
LEMMA CloseThreadKept ==
  ASSUME Sound(srv), CloseThread
  PROVE  Sound(srv')
<1>1. PICK type \in {"thread.closed"} :
        Emit([type |-> type])
  BY DEF CloseThread, Work, Aside
<1> DEFINE e == [type |-> type]
           ev == Stamped(e)
           b == [srv EXCEPT !.seq = ev.seq]
<1>2. /\ srv' = Apply(srv, ev) /\ ev.seq = srv.seq + 1 /\ srv.seq \in Nat
      /\ ev.type = "thread.closed"
  BY <1>1, Emitted DEF Sound
<1> HIDE DEF ev
<1>3. srv' = [b EXCEPT !.closed = TRUE, !.phase = "closed"]
  BY <1>2 DEF Apply
<1>4. /\ Sound(b) /\ b.items = srv.items /\ b.jobs = srv.jobs /\ b.turns = srv.turns
      /\ b.phase = srv.phase /\ b.closed = srv.closed
  BY <1>2, EmitFolds
<1> HIDE DEF b
<1>5. /\ IsState(srv') /\ srv'.seq \in Nat /\ srv'.closed \in BOOLEAN
      /\ srv'.items = b.items /\ srv'.jobs = b.jobs /\ srv'.turns = b.turns
      /\ srv'.closed
  BY <1>1, <1>3, <1>4 DEF Sound, IsState
<1> QED
  BY <1>4, <1>5, LeavesWork

\* The workspace moves on.
LEMMA MoveWorkspaceKept ==
  ASSUME Sound(srv), MoveWorkspace
  PROVE  Sound(srv')
<1>1. PICK type \in {"workspace.requested", "workspace.hook_started",
                    "workspace.ready", "workspace.failed",
                    "workspace.cleanup_started", "workspace.cleanup_failed",
                    "workspace.cleanup_finished"},
           hook \in {"provision", "deprovision"}, purge \in BOOLEAN :
        Emit([type |-> type, hook |-> hook, purge |-> purge])
  BY DEF MoveWorkspace, Work, Aside
<1> DEFINE e == [type |-> type, hook |-> hook, purge |-> purge]
           ev == Stamped(e)
           b == [srv EXCEPT !.seq = ev.seq]
<1>2. /\ srv' = Apply(srv, ev) /\ ev.seq = srv.seq + 1 /\ srv.seq \in Nat
      /\ ev.type = type
  BY <1>1, Emitted DEF Sound
<1> HIDE DEF ev
<1>3. srv' = Workspace(b, ev)
  BY <1>2 DEF Apply
<1>4. /\ Sound(b) /\ b.items = srv.items /\ b.jobs = srv.jobs /\ b.turns = srv.turns
      /\ b.phase = srv.phase /\ b.closed = srv.closed
  BY <1>2, EmitFolds
<1> HIDE DEF b
<1>5. /\ IsState(srv') /\ srv'.seq \in Nat /\ srv'.closed \in BOOLEAN
      /\ srv'.items = b.items /\ srv'.jobs = b.jobs /\ srv'.turns = b.turns
      /\ OpenTurn(b.turns) = None
  BY <1>1, <1>3, <1>4 DEF Sound, IsState, Workspace, MoveWorkspace, Now
<1> QED
  BY <1>4, <1>5, LeavesWork

\* A prompt leaves the queue.
LEMMA LeaveQueueKept ==
  ASSUME Sound(srv), LeaveQueue
  PROVE  Sound(srv')
<1>1. PICK q \in Queue, type \in {"prompt.injected", "prompt.dequeued"} :
        Emit([type |-> type, queue |-> q, turn |-> Now])
  BY DEF LeaveQueue, Work
<1> DEFINE e == [type |-> type, queue |-> q, turn |-> Now]
           ev == Stamped(e)
           b == [srv EXCEPT !.seq = ev.seq]
<1>2. /\ srv' = Apply(srv, ev) /\ ev.seq = srv.seq + 1 /\ srv.seq \in Nat
      /\ ev.type = type
  BY <1>1, Emitted DEF Sound
<1> HIDE DEF ev
<1>3. srv' = PromptInjected(b, ev) \/ srv' = [b EXCEPT !.queued = Without(@, ev.queue)]
  <2>1. CASE type = "prompt.injected"
    BY <1>2, <2>1 DEF Apply
  <2>2. CASE type = "prompt.dequeued"
    BY <1>2, <2>2 DEF Apply
  <2> QED
    BY <2>1, <2>2
<1>4. Sound(b)
  BY <1>2, EmitFolds
<1> HIDE DEF b
<1>5. CASE srv' = PromptInjected(b, ev)
  BY <1>4, <1>5, InjectedStep
<1>6. CASE srv' = [b EXCEPT !.queued = Without(@, ev.queue)]
  <2>1. /\ IsState(srv') /\ srv'.seq \in Nat /\ srv'.closed \in BOOLEAN
        /\ srv'.items = b.items /\ srv'.jobs = b.jobs /\ srv'.turns = b.turns
        /\ srv'.phase = b.phase /\ srv'.closed = b.closed
    BY <1>4, <1>6 DEF Sound, IsState
  <2> QED
    BY <1>4, <2>1, LeavesWork
<1> QED
  BY <1>3, <1>5, <1>6

-----------------------------------------------------------------------------
(* The theorem.                                                             *)

\* The server's fold of any log is sound.
LEMMA FoldsAreSound == PresenterSpec => []Sound(srv)
<1>1. PresenterInit => Sound(srv)
  <2> SUFFICES ASSUME PresenterInit PROVE Sound(srv)
    OBVIOUS
  <2>1. srv = NewState
    BY DEF PresenterInit
  <2>2. IsState(srv) /\ srv.seq \in Nat /\ srv.closed \in BOOLEAN
        /\ srv.items = <<>> /\ srv.jobs = <<>> /\ srv.turns = <<>>
    BY <2>1 DEF NewState, IsState
  <2>3. ASSUME NEW l, l = <<>>
        PROVE  IsList(l) /\ Once(l) /\ DOMAIN l = {} /\ OpenTurn(l) = None
    <3>1. DOMAIN l = {}
      BY <2>3
    <3> QED
      BY <2>3, <3>1, EmptySeq, NoneOpen DEF IsList, Once
  <2>4. ItemsOK(srv)
    BY <2>2, <2>3 DEF ItemsOK
  <2>5. JobsOK(srv)
    BY <2>2, <2>3 DEF JobsOK
  <2>6. TurnsOK(srv)
    BY <2>2, <2>3 DEF TurnsOK
  <2> QED
    BY <2>2, <2>4, <2>5, <2>6 DEF Sound
<1>2. Sound(srv) /\ [PresenterNext]_presenterVars => Sound(srv)'
  <2> SUFFICES ASSUME Sound(srv), [PresenterNext]_presenterVars PROVE Sound(srv')
    OBVIOUS
  <2>1. CASE Events
    BY <2>1, StartTurnKept, FinishTurnKept, MeasureDiffKept, StreamTextKept, StartCallKept,
       UpdateCallKept, ReportJobKept, QueuePromptKept, LeaveQueueKept, PlanPromptKept,
       AskPermissionKept, ElicitKept, AnswerElicitKept, NoteChangeKept, ShowArtefactKept,
       ChangeConfigKept, MoveWorkspaceKept, CloseThreadKept DEF Events
  <2>2. CASE \/ Receive \/ Snapshot \/ AskPage \/ ReadPage \/ TakePage \/ LosePage
             \/ UNCHANGED presenterVars
    BY <2>2 DEF Receive, Snapshot, AskPage, ReadPage, TakePage, LosePage, presenterVars
  <2> QED
    BY <2>1, <2>2 DEF PresenterNext
<1> QED
  BY <1>1, <1>2, PTL DEF PresenterSpec

\* A thread that says it only waits for a prompt has no turn open, and no call in
\* progress but those a job nobody waits for stands for, whatever was logged and however
\* late: stale and duplicate finishes, straggling results, jobs that outlive their turn
\* (state.go TurnFinished, Attention).
THEOREM IdleThreadIsQuiet == PresenterSpec => []IdleIsQuiet
<1>1. Sound(srv) => IdleIsQuiet
  <2> SUFFICES ASSUME Sound(srv), Attention(srv) = "needs_prompt" PROVE
         /\ Now = None
         /\ \A i \in DOMAIN srv.items :
              srv.items[i].status = "in_progress" =>
                \E j \in DOMAIN srv.jobs : /\ ~JobDone(srv.jobs[j].status)
                                           /\ srv.jobs[j].kind \in {"shell", "inert"}
                                           /\ <<"tool", srv.jobs[j].call>> = srv.items[i].id
    BY DEF IdleIsQuiet
  <2>1. ~srv.closed /\ srv.phase # "turn" /\ ~Working(srv.jobs)
    BY DEF Attention
  <2>2. OpenTurn(srv.turns) = None
    BY <2>1 DEF Sound, TurnsOK
  <2>3. ASSUME NEW i \in DOMAIN srv.items, srv.items[i].status = "in_progress"
        PROVE  \E j \in DOMAIN srv.jobs : /\ ~JobDone(srv.jobs[j].status)
                                          /\ srv.jobs[j].kind \in {"shell", "inert"}
                                          /\ <<"tool", srv.jobs[j].call>> = srv.items[i].id
    <3>1. Covered(srv, srv.items[i])
      BY <2>2, <2>3 DEF Sound, ItemsOK, ItemOK
    <3>2. PICK j \in DOMAIN srv.jobs : /\ ~JobDone(srv.jobs[j].status)
                                       /\ srv.items[i].id = <<"tool", srv.jobs[j].call>>
      BY <3>1 DEF Covered
    <3>3. srv.jobs[j].kind \notin {"agent", "monitor"}
      BY <2>1, <3>2 DEF Working, Sound, JobsOK
    <3>4. srv.jobs[j].kind \in {"shell", "agent", "monitor", "inert"}
      BY DEF Sound, JobsOK, ClassifyJob
    <3> QED
      BY <3>2, <3>3, <3>4
  <2> QED
    BY <2>2, <2>3 DEF Now
<1> QED
  BY <1>1, FoldsAreSound, PTL
==============================================================================
