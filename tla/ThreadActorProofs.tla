------------------------- MODULE ThreadActorProofs -------------------------
(* Proofs about ThreadActor, for every value of its constants: that no     *)
(* prompt is lost, repeated or read twice, that the log only grows, and    *)
(* that the busy guard, the continuation of interrupted work and the phase *)
(* are right.                                                              *)
EXTENDS ThreadActor, SequenceTheorems, WellFoundedInduction, TLAPS

-----------------------------------------------------------------------------
(* Lemmas about the operators the model is built from.                     *)

\* A non-empty set of positions has a last one.
LEMMA LastPosition ==
  ASSUME NEW n \in Nat, NEW T \in SUBSET (1..n), T # {}
  PROVE  \E m \in T : \A k \in T : k <= m
<1> DEFINE R == OpToRel(<, Nat)
           D == {d \in Nat : n - d \in T}
<1>1. \A k \in T : n - k \in D
  OBVIOUS
<1>2. \A d, e \in Nat : e < d => <<e, d>> \in R
  BY DEF OpToRel
<1>3. PICK d \in D : \A e \in D : ~ (<<e, d>> \in R)
  <2>1. D \subseteq Nat /\ D # {}
    BY <1>1
  <2>2. IsWellFoundedOn(R, Nat)
    BY NatLessThanWellFounded
  <2> HIDE DEF D, R
  <2> QED BY <2>1, <2>2, WFMin
<1>4. \A e \in D : d <= e
  <2>1. \A e \in D : e \in Nat
    OBVIOUS
  <2>2. \A e \in D : ~ (e < d)
    <3> HIDE DEF R, D
    <3> QED BY <1>2, <1>3, <2>1
  <2>3. QED BY <2>1, <2>2
<1>5. QED
  <2>1. n - d \in T /\ \A k \in T : k <= n - d
    BY <1>1, <1>4
  <2>2. QED BY <2>1

\* SequencesExt's RemoveAt takes one position out and closes the gap.
LEMMA RemoveAtProperties ==
  ASSUME NEW S, NEW s \in Seq(S), NEW i \in 1..Len(s)
  PROVE  /\ RemoveAt(s, i) \in Seq(S)
         /\ Len(RemoveAt(s, i)) = Len(s) - 1
         /\ \A j \in 1..(Len(s) - 1) :
              RemoveAt(s, i)[j] = IF j < i THEN s[j] ELSE s[j + 1]
<1> DEFINE front == SubSeq(s, 1, i - 1)
           back  == SubSeq(s, i + 1, Len(s))
<1>1. /\ front \in Seq(S) /\ Len(front) = i - 1
      /\ \A j \in 1..(i - 1) : front[j] = s[j]
  BY ElementOfSeq, SubSeqProperties
<1>2. /\ back \in Seq(S) /\ Len(back) = Len(s) - i
      /\ \A j \in 1..(Len(s) - i) : back[j] = s[i + j]
  BY ElementOfSeq, SubSeqProperties
<1>3. RemoveAt(s, i) = front \o back
  BY DEF RemoveAt
<1> HIDE DEF front, back
<1>4. /\ front \o back \in Seq(S)
      /\ Len(front \o back) = Len(s) - 1
      /\ \A j \in 1..(Len(s) - 1) :
           (front \o back)[j] = IF j <= i - 1 THEN front[j] ELSE back[j - (i - 1)]
  <2>1. /\ front \o back \in Seq(S)
        /\ Len(front \o back) = Len(front) + Len(back)
        /\ \A j \in 1..(Len(front) + Len(back)) :
             (front \o back)[j] = IF j <= Len(front) THEN front[j]
                                  ELSE back[j - Len(front)]
    BY <1>1, <1>2, ConcatProperties, Zenon
  <2>2. Len(front) + Len(back) = Len(s) - 1
    BY <1>1, <1>2
  <2>3. QED
    BY <1>1, <2>1, <2>2
<1>5. ASSUME NEW j \in 1..(Len(s) - 1)
      PROVE  RemoveAt(s, i)[j] = IF j < i THEN s[j] ELSE s[j + 1]
  <2>1. CASE j < i
    BY <1>1, <1>3, <1>4, <2>1
  <2>2. CASE ~ (j < i)
    <3>1. j - (i - 1) \in 1..(Len(s) - i) /\ i + (j - (i - 1)) = j + 1
      BY <2>2
    <3>2. back[j - (i - 1)] = s[j + 1]
      BY <1>2, <3>1
    <3>3. (front \o back)[j] = back[j - (i - 1)]
      <4>1. ~ (j <= i - 1)
        BY <2>2
      <4>2. QED BY <1>4, <4>1
    <3>4. QED BY <1>3, <2>2, <3>2, <3>3
  <2>3. QED BY <2>1, <2>2
<1>6. QED
  BY <1>3, <1>4, <1>5

Elems(s) == {s[i] : i \in DOMAIN s}
Distinct(s) == \A i, j \in DOMAIN s : s[i] = s[j] => i = j

\* Without takes the named entry out of a queue and nothing else
\* (projection removeQueued).
LEMMA WithoutProperties ==
  ASSUME NEW S, NEW s \in Seq(S), NEW q
  PROVE  /\ Without(s, q) \in Seq(S)
         /\ Elems(s) \ {q} \subseteq Elems(Without(s, q))
         /\ Distinct(s) => /\ Distinct(Without(s, q))
                           /\ Elems(Without(s, q)) = Elems(s) \ {q}
<1>1. CASE ~ \E i \in DOMAIN s : s[i] = q
  BY <1>1 DEF Without, Elems
<1>2. CASE \E i \in DOMAIN s : s[i] = q
  <2> DEFINE k == CHOOSE i \in DOMAIN s : s[i] = q
             w == RemoveAt(s, k)
  <2>1. k \in 1..Len(s) /\ s[k] = q
    BY <1>2
  <2>2. Without(s, q) = w
    BY <1>2 DEF Without
  <2> HIDE DEF k
  <2>3. /\ w \in Seq(S) /\ DOMAIN w = 1..(Len(s) - 1)
        /\ \A j \in 1..(Len(s) - 1) : w[j] = IF j < k THEN s[j] ELSE s[j + 1]
    BY <2>1, RemoveAtProperties
  <2> HIDE DEF w
  <2>4. Elems(s) \ {q} \subseteq Elems(w)
    <3> SUFFICES ASSUME NEW i \in 1..Len(s), s[i] # q
                 PROVE  \E j \in DOMAIN w : w[j] = s[i]
      BY DEF Elems
    <3>1. CASE i < k
      <4>1. i \in 1..(Len(s) - 1)
        BY <2>1, <3>1
      <4>2. w[i] = s[i] /\ i \in DOMAIN w
        BY <2>3, <3>1, <4>1
      <4>3. QED BY <4>2
    <3>2. CASE i > k
      <4>1. i - 1 \in 1..(Len(s) - 1) /\ ~ (i - 1 < k) /\ (i - 1) + 1 = i
        BY <2>1, <3>2
      <4>2. QED BY <2>3, <4>1
    <3>3. QED
      BY <2>1, <3>1, <3>2
  <2>5. ASSUME Distinct(s)
        PROVE  Distinct(w) /\ Elems(w) \subseteq Elems(s) \ {q}
    <3>1. ASSUME NEW i \in DOMAIN w, NEW j \in DOMAIN w, w[i] = w[j]
          PROVE  i = j
      <4> DEFINE at(n) == IF n < k THEN n ELSE n + 1
      <4>1. \A n \in DOMAIN w : at(n) \in DOMAIN s /\ w[n] = s[at(n)]
        BY <2>1, <2>3
      <4>2. s[at(i)] = s[at(j)]
        BY <3>1, <4>1
      <4>3. at(i) = at(j)
        <5> HIDE DEF at
        <5> QED BY <2>5, <4>1, <4>2 DEF Distinct
      <4>4. i \in Nat /\ j \in Nat /\ k \in Nat
        BY <2>1, <2>3
      <4>5. QED BY <4>3, <4>4
    <3>2. ASSUME NEW j \in DOMAIN w
          PROVE  w[j] \in Elems(s) /\ w[j] # q
      BY <2>1, <2>3, <2>5 DEF Distinct, Elems
    <3>3. QED
      BY <3>1, <3>2 DEF Distinct, Elems
  <2>6. QED
    BY <2>2, <2>3, <2>4, <2>5
<1>3. QED
  BY <1>1, <1>2

\* The turn a restored thread is busy with has an identity (actor.go
\* RestoreIdle).
LEMMA LastOpenType ==
  ASSUME NEW ts \in Seq(Turns)
  PROVE  LastOpen(ts) \in Nat
<1>1. CASE OpenAt(ts) = {}
  BY <1>1 DEF LastOpen, NoTurn
<1>2. CASE OpenAt(ts) # {}
  <2>1. OpenAt(ts) \in SUBSET (1..Len(ts)) /\ Len(ts) \in Nat
    BY DEF OpenAt
  <2>2. \E i \in OpenAt(ts) : \A j \in OpenAt(ts) : j <= i
    BY <1>2, <2>1, LastPosition
  <2> DEFINE k == CHOOSE i \in OpenAt(ts) : \A j \in OpenAt(ts) : j <= i
  <2>3. k \in 1..Len(ts)
    BY <2>1, <2>2
  <2> HIDE DEF k
  <2>4. ts[k].id \in Nat
    <3>1. ts[k] \in Turns
      BY <2>3, ElementOfSeq
    <3>2. QED BY <3>1 DEF Turns
  <2>5. LastOpen(ts) = ts[k].id
    BY <1>2 DEF LastOpen, k
  <2>6. QED
    BY <2>4, <2>5
<1>3. QED
  BY <1>1, <1>2

-----------------------------------------------------------------------------
(* What one write of the log leaves well typed.                            *)

LogWriteTypeOK ==
  /\ LogTypeOK
  /\ rowdue \in Phases \cup {"none"} /\ turnActive \in Nat

\* Starting a turn in the log keeps its types (append of turn.started).
LEMMA StartedType ==
  ASSUME TypeOK, NEW t \in Nat, NEW p \in Texts, NEW c \in Causes,
         NEW a \in Nat, NEW o \in Nat, LogStarted(t, p, c, a, o)
  PROVE  LogWriteTypeOK' /\ sent' \subseteq Prompts
<1>1. turns' \in Seq(Turns)
  <2>1. [id |-> t, prompt |-> p, cause |-> c, attempt |-> a, of |-> o,
         stop |-> "open"] \in Turns
    BY DEF Turns, Stops
  <2>2. QED
    BY <2>1, AppendProperties DEF LogStarted, TypeOK, LogTypeOK
<1>2. queue' \in Seq(Prompts)
  BY WithoutProperties DEF LogStarted, TypeOK, LogTypeOK
<1>3. QED
  BY <1>1, <1>2 DEF LogStarted, OwePhase, LogWriteTypeOK, TypeOK, LogTypeOK,
                    ActorTypeOK, Phases

\* Finishing a turn in the log keeps its types (append of turn.finished).
LEMMA FinishedType ==
  ASSUME TypeOK, NEW t \in Nat, NEW stop \in Stops, LogFinished(t, stop)
  PROVE  LogWriteTypeOK'
<1>1. turns' \in Seq(Turns)
  <2> DEFINE e(i) == IF turns[i].id = t THEN [turns[i] EXCEPT !.stop = stop]
                     ELSE turns[i]
  <2>1. turns \in Seq(Turns) /\ Len(turns) \in Nat /\ DOMAIN turns = 1..Len(turns)
    BY DEF TypeOK, LogTypeOK
  <2>2. \A i \in 1..Len(turns) : e(i) \in Turns
    <3> SUFFICES ASSUME NEW i \in 1..Len(turns) PROVE e(i) \in Turns
      OBVIOUS
    <3>1. turns[i] \in Turns
      BY <2>1, ElementOfSeq
    <3>2. QED
      BY <3>1 DEF Turns
  <2>3. turns' = [i \in 1..Len(turns) |-> e(i)]
    BY <2>1 DEF LogFinished
  <2> HIDE DEF e
  <2>4. QED
    BY <2>1, <2>2, <2>3, IsASeq
<1>2. QED
  BY <1>1 DEF LogFinished, OwePhase, GuardAfter, NoTurn, LogWriteTypeOK, TypeOK,
              LogTypeOK, ActorTypeOK, Phases

\* Showing a read prompt in the log keeps its types (prompt.injected).
LEMMA InjectedType ==
  ASSUME TypeOK, NEW q, LogInjected(q)
  PROVE  LogWriteTypeOK' /\ sent' \subseteq Prompts
<1>1. queue' \in Seq(Prompts)
  BY WithoutProperties DEF LogInjected, TypeOK, LogTypeOK
<1>2. Queued \subseteq Prompts
  BY ElementOfSeq DEF Queued, TypeOK, LogTypeOK
<1>3. QED
  BY <1>1, <1>2 DEF LogInjected, LogWriteTypeOK, TypeOK, LogTypeOK, ActorTypeOK

\* Streamed output keeps the log's types (message chunks).
LEMMA ChunkType ==
  ASSUME TypeOK, LogChunk
  PROVE  LogWriteTypeOK' /\ sent' \subseteq Prompts
BY DEF LogChunk, OwePhase, LogWriteTypeOK, TypeOK, LogTypeOK, ActorTypeOK, Phases

-----------------------------------------------------------------------------
(* Type correctness.  The prompt a command is about to queue is a real one. *)

Typing == TypeOK /\ (pc = "queueing" => job.prompt \in Prompts)

\* The job startTurn leaves behind is well formed.
LEMMA StartTurnType ==
  ASSUME TypeOK, NEW p \in Texts, NEW c \in Causes, NEW a \in Nat, NEW o \in Nat,
         StartTurn(p, c, a, o)
  PROVE  turnActive' \in Nat /\ born' \in Nat /\ job' \in Jobs /\ pc' = "starting"
BY DEF StartTurn, Jobs, TypeOK, HarnessTypeOK

\* An actor that is gone leaves well-typed state behind (shutdown, a crash).
LEMMA GoneType ==
  ASSUME ActorGone
  PROVE  /\ ActorTypeOK' /\ pc' = "loop"
         /\ gets' \in Nat /\ recs' \in Nat /\ held' \in Nat
         /\ recovering' \in BOOLEAN /\ plan' \in Plans
         /\ alive' \in BOOLEAN /\ hturn' \in Nat /\ steers' \subseteq Prompts
         /\ events' \in Seq(Events) /\ given' \in [Prompts -> Nat]
<1>1. NoJob \in Jobs /\ NoPlan \in Plans /\ NoTurn \in Nat
  BY DEF NoJob, Jobs, NoPlan, Plans, NoTurn, Texts, Causes
<1>2. <<>> \in Seq(Events) /\ [p \in Prompts |-> 0] \in [Prompts -> Nat]
  BY EmptySeq
<1>3. QED
  BY <1>1, <1>2 DEF ActorGone, ActorTypeOK

\* What the session puts on its channel is an event (session.emit).
LEMMA EmitType ==
  ASSUME TypeOK, NEW kind \in Kinds, NEW t \in Nat, NEW p \in Texts,
         NEW stop \in Stops, Emit(kind, t, p, stop)
  PROVE  events' \in Seq(Events)
<1>1. [kind |-> kind, turn |-> t, prompt |-> p, stop |-> stop] \in Events
  BY DEF Events
<1>2. QED
  BY <1>1, AppendProperties DEF Emit, TypeOK, HarnessTypeOK

\* Every step of the model keeps the types: one step per action of Next.
LEMMA TypingStep == Typing /\ [Next]_vars => Typing'
<1> SUFFICES ASSUME Typing, [Next]_vars PROVE Typing'
  OBVIOUS
<1> USE DEF Typing, TypeOK, LogTypeOK, ServerTypeOK, ActorTypeOK, HarnessTypeOK,
            logVars, managerVars, recoverVars, actorVars, harnessVars, historyVars
<1>1. CASE CloseThread
  BY <1>1 DEF CloseThread, OwePhase, Waiting, At, Phases
<1>2. CASE OtherCommand
  BY <1>2 DEF OtherCommand, AfterCommand
<1>3. CASE GetIdle
  BY <1>3 DEF GetIdle, Activate
<1>4. CASE GetTurn
  BY <1>4 DEF GetTurn, ReadTurnRow
<1>5. CASE SyncRow
  BY <1>5 DEF SyncRow
<1>6. CASE Exiting
  BY <1>6, GoneType DEF Exiting, RowAtShutdown, Phases
<1>7. CASE FinishGet
  <2>1. CASE sess \/ closed
    BY <1>7, <2>1 DEF FinishGet, AfterCommand
  <2>2. CASE ~ (sess \/ closed)
    <3>1. gets' \in Nat /\ recs' \in Nat
      BY <1>7 DEF FinishGet
    <3>2. LogTypeOK' /\ ServerTypeOK'
      BY <1>7, <3>1 DEF FinishGet
    <3>3. ActorTypeOK' /\ HarnessTypeOK' /\ pc' # "queueing"
      BY <1>7, <2>2 DEF FinishGet, Activate
    <3>4. QED
      BY <3>2, <3>3
  <2>3. QED
    BY <2>1, <2>2
<1>8. CASE RecoverRead
  BY <1>8 DEF RecoverRead
<1>9. CASE RecoverPrompt
  <2>1. /\ NoPrompt \in Texts /\ "restart" \in Causes
        /\ plan.attempt \in Nat /\ plan.of \in Nat
    BY DEF Texts, Causes, Plans
  <2>2. CASE closed
    BY <1>9, <2>2 DEF RecoverPrompt
  <2>3. CASE ~closed /\ turnActive = NoTurn /\ sess
    <3>1. /\ turnActive' \in Nat /\ born' \in Nat /\ job' \in Jobs
          /\ pc' = "starting"
      BY <1>9, <2>1, <2>3, StartTurnType DEF RecoverPrompt
    <3>2. held' \in Nat /\ recovering' = FALSE
      BY <1>9, <2>3 DEF RecoverPrompt, TakePlan
    <3>3. UNCHANGED <<logVars, row, managerVars, gets, recs, plan, live, sess,
                      preparing, sent, rowdue, harnessVars, accepted>>
      BY <1>9 DEF RecoverPrompt
    <3>4. LogTypeOK' /\ ServerTypeOK'
      BY <3>2, <3>3
    <3>5. ActorTypeOK' /\ HarnessTypeOK' /\ pc' # "queueing"
      BY <3>1, <3>2, <3>3
    <3>6. QED
      BY <3>4, <3>5
  <2>4. CASE ~closed /\ ~ (turnActive = NoTurn /\ sess)
    <3>1. held' \in Nat /\ recovering' = FALSE
      BY <1>9, <2>4 DEF RecoverPrompt, TakePlan
    <3>2. pc' = "tail" /\ UNCHANGED <<turnActive, born, job>>
      BY <1>9, <2>4 DEF RecoverPrompt, AfterCommand
    <3>3. UNCHANGED <<logVars, row, managerVars, gets, recs, plan, live, sess,
                      preparing, sent, rowdue, harnessVars, accepted>>
      BY <1>9 DEF RecoverPrompt
    <3>4. LogTypeOK' /\ ServerTypeOK'
      BY <3>1, <3>3
    <3>5. ActorTypeOK' /\ HarnessTypeOK' /\ pc' # "queueing"
      BY <3>1, <3>2, <3>3
    <3>6. QED
      BY <3>4, <3>5
  <2>5. QED
    BY <2>2, <2>3, <2>4
<1>10. CASE BootScan
  BY <1>10 DEF BootScan, ReadTurnRow
<1>11. CASE ProvActivate
  <2>1. LogTypeOK' /\ ServerTypeOK'
    BY <1>11 DEF ProvActivate
  <2>2. ActorTypeOK' /\ HarnessTypeOK' /\ pc' # "queueing"
    BY <1>11 DEF ProvActivate, AfterCommand
  <2>3. QED
    BY <2>1, <2>2
<1>12. CASE ProvRow
  BY <1>12 DEF ProvRow, AfterCommand, Phases
<1>13. CASE ProvReady
  BY <1>13 DEF ProvReady, AfterCommand, Phases
<1>14. CASE ProvError
  BY <1>14 DEF ProvError, AfterCommand, Phases
<1>15. CASE ProvFailed
  BY <1>15 DEF ProvFailed, AfterCommand, Phases
<1>16. CASE ProvReport
  BY <1>16 DEF ProvReport, AfterCommand, Phases
<1>17. CASE Stop
  BY <1>17 DEF Stop
<1>18. CASE Halt
  <2>1. LogTypeOK' /\ ServerTypeOK'
    BY <1>18 DEF Halt
  <2>2. ActorTypeOK' /\ HarnessTypeOK'
    BY <1>18 DEF Halt
  <2>3. pc' = pc /\ job' = job
    BY <1>18 DEF Halt
  <2>4. QED
    BY <2>1, <2>2, <2>3
<1>19. CASE Start
  BY <1>19 DEF Start
<1>20. CASE Crash
  <2>1. stops' \in Nat
    BY <1>20 DEF Crash
  <2>2. ServerTypeOK'
    BY <1>20, <2>1, GoneType DEF Crash
  <2>3. HarnessTypeOK'
    BY <1>20, GoneType DEF Crash
  <2>4. LogTypeOK' /\ ActorTypeOK' /\ pc' # "queueing"
    BY <1>20, GoneType DEF Crash
  <2>5. QED
    BY <2>2, <2>3, <2>4
<1>21. CASE UNCHANGED vars
  BY <1>21 DEF vars
<1>22. CASE \E p \in Prompts : Prompt(p)
  <2> PICK p \in Prompts : Prompt(p)
    BY <1>22
  <2>1. p \in Texts /\ [NoJob EXCEPT !.prompt = p] \in Jobs
        /\ [NoJob EXCEPT !.prompt = p].prompt = p
    BY DEF Texts, NoJob, Jobs, NoTurn, Causes
  <2>2. CASE turnActive # NoTurn
    <3>1. steers' \subseteq Prompts /\ sent' \subseteq Prompts
      BY <2>2 DEF Prompt
    <3>2. /\ pc' = "queueing" /\ job' = [NoJob EXCEPT !.prompt = p]
          /\ UNCHANGED <<turnActive, born>>
      BY <2>2 DEF Prompt
    <3>3. UNCHANGED <<logVars, row, managerVars, recoverVars, live, sess,
                      preparing, rowdue, alive, hturn, events, given, accepted>>
      BY DEF Prompt
    <3>4. LogTypeOK' /\ ServerTypeOK'
      BY <3>3
    <3>5. ActorTypeOK' /\ HarnessTypeOK'
      BY <2>1, <3>1, <3>2, <3>3
    <3>6. job'.prompt \in Prompts
      BY <2>1, <3>2
    <3>7. QED
      BY <3>4, <3>5, <3>6
  <2>3. CASE turnActive = NoTurn /\ ~sess
    <3>1. /\ pc' = "queueing" /\ job' = [NoJob EXCEPT !.prompt = p]
          /\ UNCHANGED <<turnActive, born, steers, sent>>
      BY <2>3 DEF Prompt
    <3>2. UNCHANGED <<logVars, row, managerVars, recoverVars, live, sess,
                      preparing, rowdue, alive, hturn, events, given, accepted>>
      BY DEF Prompt
    <3>3. LogTypeOK' /\ ServerTypeOK'
      BY <3>2
    <3>4. ActorTypeOK' /\ HarnessTypeOK'
      BY <2>1, <3>1, <3>2
    <3>5. job'.prompt \in Prompts
      BY <2>1, <3>1
    <3>6. QED
      BY <3>3, <3>4, <3>5
  <2>4. CASE turnActive = NoTurn /\ sess
    <3>1. StartTurn(p, "user", 0, NoTurn)
      BY <2>4 DEF Prompt
    <3>2. /\ turnActive' \in Nat /\ born' \in Nat /\ job' \in Jobs
          /\ pc' = "starting"
      BY <2>1, <3>1, StartTurnType DEF Causes, NoTurn
    <3>3. QED
      BY <2>4, <3>2 DEF Prompt
  <2>5. QED
    BY <2>2, <2>3, <2>4
<1>23. CASE \E q \in Prompts : Dequeue(q)
  BY <1>23, WithoutProperties DEF Dequeue, AfterCommand
<1>24. CASE Cancel
  <2>1. job' \in Jobs
    <3>1. NoJob \in Jobs /\ [NoJob EXCEPT !.turn = turnActive] \in Jobs
      BY DEF NoJob, Jobs, NoTurn, Texts, Causes
    <3>2. job' = NoJob \/ job' = [NoJob EXCEPT !.turn = turnActive]
      BY <1>24 DEF Cancel
    <3>3. QED
      BY <3>1, <3>2
  <2>2. hturn' \in Nat /\ steers' \subseteq Prompts
    BY <1>24 DEF Cancel, NoTurn
  <2>3. events' \in Seq(Events)
    <3>1. [kind |-> "finished", turn |-> hturn, prompt |-> NoPrompt,
           stop |-> "cancelled"] \in Events
      BY DEF Events, Kinds, Texts, Stops
    <3>2. QED
      <4>1. events' = events \/ CancelledEvent
        BY <1>24 DEF Cancel
      <4>2. CASE events' = events
        BY <4>2
      <4>3. CASE CancelledEvent
        <5>1. events \in Seq(Events)
          OBVIOUS
        <5> DEFINE e == [kind |-> "finished", turn |-> hturn,
                         prompt |-> NoPrompt, stop |-> "cancelled"]
        <5>2. events' = Append(events, e)
          BY <4>3 DEF CancelledEvent
        <5> HIDE DEF e, TypeOK
        <5>3. Append(events, e) \in Seq(Events)
          BY <3>1, <5>1, AppendProperties DEF e
        <5>4. QED BY <5>2, <5>3
      <4>4. QED
        BY <4>1, <4>2, <4>3
  <2>4. recovering' \in BOOLEAN
    BY <1>24 DEF Cancel, TakePlan
  <2>5. QED
    BY SMTT(30), <1>24, <2>1, <2>2, <2>3, <2>4 DEF Cancel
<1>25. CASE Continue
  <2> DEFINE last == turns[Len(turns)]
  <2>1. /\ NoPrompt \in Texts /\ "continue" \in Causes
        /\ last.attempt + 1 \in Nat /\ last.id \in Nat
    <3>1. turns # <<>>
      BY <1>25 DEF Continue
    <3>2. last \in Turns
      BY <3>1, EmptySeq, ElementOfSeq
    <3>3. QED
      BY <3>2 DEF Turns, Texts, Causes
  <2>2. CASE turnActive = NoTurn /\ sess
    <3>1. StartTurn(NoPrompt, "continue", last.attempt + 1, last.id)
      BY <1>25, <2>2 DEF Continue
    <3>2. /\ turnActive' \in Nat /\ born' \in Nat /\ job' \in Jobs
          /\ pc' = "starting"
      BY <2>1, <3>1, StartTurnType
    <3>3. /\ recovering' = FALSE
          /\ UNCHANGED <<logVars, row, managerVars, gets, recs, held, plan, live,
                         sess, preparing, sent, rowdue, harnessVars, accepted>>
      BY <1>25 DEF Continue, TakePlan
    <3>4. LogTypeOK' /\ ServerTypeOK'
      BY <3>3
    <3>5. ActorTypeOK' /\ HarnessTypeOK' /\ pc' # "queueing"
      BY <3>2, <3>3
    <3>6. QED
      BY <3>4, <3>5
  <2>3. CASE ~ (turnActive = NoTurn /\ sess)
    <3>1. /\ recovering' = FALSE
          /\ UNCHANGED <<logVars, row, managerVars, gets, recs, held, plan, live,
                         sess, preparing, sent, rowdue, harnessVars, accepted>>
      BY <1>25 DEF Continue, TakePlan
    <3>2. pc' = "tail" /\ UNCHANGED <<turnActive, born, job>>
      BY <1>25, <2>3 DEF Continue, AfterCommand
    <3>3. LogTypeOK' /\ ServerTypeOK'
      BY <3>1
    <3>4. ActorTypeOK' /\ HarnessTypeOK' /\ pc' # "queueing"
      BY <3>1, <3>2
    <3>5. QED
      BY <3>3, <3>4
  <2>4. QED
    BY <2>2, <2>3
<1>26. CASE Starting
  <2>1. LogStarted(job.turn, job.prompt, job.cause, job.attempt, job.of)
    BY <1>26 DEF Starting
  <2>2. /\ job.turn \in Nat /\ job.prompt \in Texts /\ job.cause \in Causes
        /\ job.attempt \in Nat /\ job.of \in Nat
    BY DEF Jobs
  <2>3. LogWriteTypeOK' /\ sent' \subseteq Prompts
    BY <2>1, <2>2, StartedType
  <2>4. accepted' \subseteq Prompts
    BY <1>26, <2>2 DEF Starting, Texts
  <2>5. QED
    BY <1>26, <2>3, <2>4 DEF Starting, LogWriteTypeOK
<1>27. CASE Sending
  <2>1. hturn' \in Nat /\ job' \in Jobs
    BY <1>27 DEF Sending, Jobs, NoJob, NoTurn, Texts, Causes
  <2>2. given' \in [Prompts -> Nat]
    BY <1>27 DEF Sending
  <2>3. pc' \in {"loop", "tail"}
    BY <1>27 DEF Sending, AfterTurn, AfterCommand
  <2>4. QED
    BY <1>27, <2>1, <2>2, <2>3 DEF Sending
<1>28. CASE Refused
  <2>1. job.turn \in Nat /\ "error" \in Stops /\ job' \in Jobs
    BY <1>28 DEF Refused, Jobs, NoJob, NoTurn, Texts, Causes, Stops
  <2>2. LogWriteTypeOK'
    BY <1>28, <2>1, FinishedType DEF Refused
  <2>3. pc' \in {"loop", "tail"}
    BY <1>28 DEF Refused, AfterTurn, AfterCommand
  <2>4. QED
    BY <1>28, <2>1, <2>2, <2>3 DEF Refused, LogWriteTypeOK
<1>29. CASE Dispatch
  <2>1. CASE /\ pc' = "loop"
             /\ UNCHANGED <<turnActive, born, job>>
    BY <1>29, <2>1 DEF Dispatch
  <2>2. CASE \E i \in Unsent : StartTurn(queue[i], "queue", 0, NoTurn)
    <3> PICK i \in Unsent : StartTurn(queue[i], "queue", 0, NoTurn)
      BY <2>2
    <3>1. queue[i] \in Texts
      BY ElementOfSeq DEF Unsent, Texts
    <3>2. /\ turnActive' \in Nat /\ born' \in Nat /\ job' \in Jobs
          /\ pc' = "starting"
      BY <3>1, StartTurnType DEF Causes, NoTurn
    <3>3. QED
      BY <1>29, <3>2 DEF Dispatch
  <2>3. QED
    BY <1>29, <2>1, <2>2 DEF Dispatch
<1>30. CASE Queueing
  <2>1. job.prompt \in Prompts
    BY <1>30 DEF Queueing, At
  <2>2. queue' \in Seq(Prompts) /\ accepted' \subseteq Prompts
    BY <1>30, <2>1, AppendProperties DEF Queueing
  <2>3. job' \in Jobs
    BY <1>30 DEF Queueing, Jobs, NoJob, NoTurn, Texts, Causes
  <2>4. QED
    BY <1>30, <2>2, <2>3 DEF Queueing, AfterCommand
<1>31. CASE Dropping
  <2>1. CASE queue # <<>> /\ queue' = Tail(queue)
    <3>1. queue' \in Seq(Prompts) /\ Head(queue) \in Prompts
      BY <2>1, HeadTailProperties
    <3>2. CASE cancelled' = cancelled \cup {Head(queue)}
      BY <1>31, <2>1, <3>1, <3>2 DEF Dropping
    <3>3. QED
      BY <1>31, <2>1, <3>2 DEF Dropping
  <2>2. CASE queue = <<>>
    <3>1. job' \in Jobs /\ sent' \subseteq Prompts /\ pc' = "tail"
      BY <1>31, <2>2 DEF Dropping, Jobs, NoJob, NoTurn, Texts, Causes, AfterCommand
    <3>2. LogWriteTypeOK'
      <4>1. job.turn \in Nat /\ "cancelled" \in Stops
        BY DEF Jobs, Stops
      <4>2. CASE LogFinished(job.turn, "cancelled")
        BY <4>1, <4>2, FinishedType
      <4>3. CASE UNCHANGED <<logVars, rowdue, turnActive>>
        BY <4>3 DEF LogWriteTypeOK
      <4>4. QED
        BY <1>31, <2>2, <4>2, <4>3 DEF Dropping
    <3>3. QED
      BY <1>31, <3>1, <3>2 DEF Dropping, LogWriteTypeOK
  <2>3. QED
    BY <1>31, <2>1, <2>2 DEF Dropping
<1>32. CASE Closing
  <2>1. pc' \in {"tail", "closing"}
    BY <1>32 DEF Closing, At, AfterCommand
  <2>2. LogWriteTypeOK'
    <3>1. CASE UNCHANGED <<logVars, rowdue, turnActive>>
      BY <3>1 DEF LogWriteTypeOK
    <3>2. CASE \E i \in OpenAt(turns) : LogFinished(turns[i].id, "error")
      <4> PICK i \in OpenAt(turns) : LogFinished(turns[i].id, "error")
        BY <3>2
      <4>1. turns[i] \in Turns
        BY ElementOfSeq DEF OpenAt
      <4>2. turns[i].id \in Nat /\ "error" \in Stops
        BY <4>1 DEF Turns, Stops
      <4>3. QED
        BY <4>2, FinishedType
    <3>3. QED
      BY <1>32, <3>1, <3>2 DEF Closing
  <2>3. QED
    BY <1>32, <2>1, <2>2 DEF Closing, LogWriteTypeOK
<1>33. CASE HandleEvent
  <2> DEFINE e == Head(events)
  <2>1. e \in Events /\ events' \in Seq(Events)
    BY <1>33, HeadTailProperties DEF HandleEvent
  <2>2. /\ e.kind \in Kinds /\ e.turn \in Nat /\ e.prompt \in Texts
        /\ e.stop \in Stops
    BY <2>1 DEF Events
  <2>3. LogWriteTypeOK' /\ sent' \subseteq Prompts
    <3>1. CASE LogStarted(e.turn, e.prompt, "harness", 0, NoTurn)
      BY <2>2, <3>1, StartedType DEF Causes, NoTurn
    <3>2. CASE LogFinished(e.turn, e.stop) /\ UNCHANGED sent
      BY <2>2, <3>2, FinishedType
    <3>3. CASE LogInjected(e.prompt)
      BY <3>3, InjectedType
    <3>4. CASE LogChunk
      BY <3>4, ChunkType
    <3>5. QED
      BY <1>33, <3>1, <3>2, <3>3, <3>4 DEF HandleEvent
  <2>4. QED
    BY <1>33, <2>1, <2>3 DEF HandleEvent, AfterCommand, LogWriteTypeOK
<1>34. CASE HandleExit
  <2>1. LogWriteTypeOK'
    <3>1. CASE LogFinished(turnActive, "error")
      BY <3>1, FinishedType DEF Stops
    <3>2. CASE UNCHANGED <<logVars, turnActive, rowdue>>
      BY <3>2 DEF LogWriteTypeOK
    <3>3. QED
      BY <1>34, <3>1, <3>2 DEF HandleExit
  <2>2. QED
    BY <1>34, <2>1 DEF HandleExit, LogWriteTypeOK
<1>35. CASE HSelfStart
  <2>1. events' \in Seq(Events) /\ born' \in Nat /\ hturn' \in Nat
    BY <1>35, EmitType DEF HSelfStart, Kinds, Texts, Stops
  <2>2. QED
    BY <1>35, <2>1 DEF HSelfStart
<1>36. CASE \E q \in Prompts : HRead(q)
  <2> PICK q \in Prompts : HRead(q)
    BY <1>36
  <2>1. CASE hturn # NoTurn
    <3>1. events' \in Seq(Events) /\ born' = born /\ hturn' = hturn
      BY <2>1, EmitType DEF HRead, Kinds, Texts, Stops
    <3>2. steers' \subseteq Prompts /\ given' \in [Prompts -> Nat]
      BY DEF HRead
    <3>3. QED
      BY <3>1, <3>2 DEF HRead
  <2>2. CASE hturn = NoTurn
    <3>1. events' \in Seq(Events) /\ born' \in Nat /\ hturn' \in Nat
      BY <2>2, EmitType DEF HRead, Kinds, Texts, Stops
    <3>2. steers' \subseteq Prompts /\ given' \in [Prompts -> Nat]
      BY DEF HRead
    <3>3. QED
      BY <3>1, <3>2 DEF HRead
  <2>3. QED
    BY <2>1, <2>2
<1>37. CASE HChunk
  <2>1. events' \in Seq(Events)
    BY <1>37, EmitType DEF HChunk, Kinds, Texts, Stops
  <2>2. QED
    BY <1>37, <2>1 DEF HChunk
<1>38. CASE HFinish
  <2>1. events' \in Seq(Events) /\ hturn' \in Nat
    BY <1>38, EmitType DEF HFinish, Kinds, Texts, Stops, NoTurn
  <2>2. QED
    BY <1>38, <2>1 DEF HFinish
<1>39. CASE HExit
  <2>1. events' \in Seq(Events) /\ hturn' \in Nat /\ steers' \subseteq Prompts
    BY <1>39, EmitType DEF HExit, Kinds, Texts, Stops, NoTurn
  <2>2. QED
    <3>1. LogTypeOK' /\ ServerTypeOK' /\ ActorTypeOK'
      BY <1>39 DEF HExit
    <3>2. HarnessTypeOK' /\ (pc' = "queueing" => job'.prompt \in Prompts)
      BY <1>39, <2>1 DEF HExit
    <3>3. QED
      BY <3>1, <3>2
<1>40. CASE Restore
  <2>1. turnActive' \in Nat
    BY <1>40, LastOpenType DEF Restore
  <2>2. plan' \in Plans /\ recovering' \in BOOLEAN
    <3>1. PlanRecovery(turns) \in Plans
      <4>1. CASE turns = <<>> \/ closed
        BY <4>1 DEF PlanRecovery, NoPlan, Plans, NoTurn
      <4>2. CASE ~ (turns = <<>> \/ closed)
        <5>1. turns[Len(turns)] \in Turns
          BY <4>2, EmptySeq, ElementOfSeq
        <5> DEFINE last == turns[Len(turns)]
        <5>2. last.id \in Nat /\ last.attempt + 1 \in Nat
          BY <5>1 DEF Turns
        <5>3. \/ PlanRecovery(turns) = NoPlan
              \/ PlanRecovery(turns) = [of |-> last.id, attempt |-> last.attempt + 1]
          BY <4>2 DEF PlanRecovery
        <5>4. NoPlan \in Plans
          BY DEF NoPlan, Plans, NoTurn
        <5>5. [of |-> last.id, attempt |-> last.attempt + 1] \in Plans
          <6> HIDE DEF last
          <6> QED BY <5>2 DEF Plans
        <5> HIDE DEF last, Typing, TypeOK
        <5>6. QED
          BY <5>3, <5>4, <5>5
      <4> HIDE DEF Typing, TypeOK
      <4>3. QED
        BY <4>1, <4>2
    <3>2. QED
      BY <1>40, <3>1 DEF Restore
  <2>3. closed' \in BOOLEAN /\ phase' \in Phases /\ row' \in Phases
    BY <1>40 DEF Restore, Phases
  <2>4. QED
    BY <1>40, <2>1, <2>2, <2>3 DEF Restore
<1>41. QED
  BY <1>1, <1>2, <1>3, <1>4, <1>5, <1>6, <1>7, <1>8, <1>9, <1>10, <1>11,
     <1>12, <1>13, <1>14, <1>15, <1>16, <1>17, <1>18, <1>19, <1>20, <1>21,
     <1>22, <1>23, <1>24, <1>25, <1>26, <1>27, <1>28, <1>29, <1>30, <1>31,
     <1>32, <1>33, <1>34, <1>35, <1>36, <1>37, <1>38, <1>39, <1>40
  DEF Next, Presenter, ActorStep, Reaction, Provision, HarnessStep, Server

\* The initial states are well typed.
LEMMA InitTyping == Init => Typing
<1> SUFFICES ASSUME Init PROVE Typing
  OBVIOUS
<1>1. LogTypeOK
  BY EmptySeq DEF Init, LogTypeOK, Phases
<1>2. ServerTypeOK
  BY DEF Init, ServerTypeOK, Phases, NoPlan, Plans, NoTurn
<1>3. ActorTypeOK /\ pc = "loop"
  <2>1. job \in Jobs
    BY DEF Init, NoJob, Jobs, NoTurn, Texts, Causes
  <2>2. QED
    BY <2>1 DEF Init, ActorTypeOK, NoTurn
<1>4. HarnessTypeOK
  <2>1. given \in [Prompts -> Nat]
    BY DEF Init
  <2>2. QED
    BY <2>1, EmptySeq DEF Init, HarnessTypeOK, NoTurn
<1>5. QED
  BY <1>1, <1>2, <1>3, <1>4 DEF Typing, TypeOK

\* Type correctness, for every set of prompts and every bound: no schedule of
\* the loop, the harness, a stop or a crash leaves a variable out of its type.
THEOREM TypeCorrect == Spec => []TypeOK
<1>1. Init => Typing
  BY InitTyping
<1>2. Typing /\ [Next]_vars => Typing'
  BY TypingStep
<1>3. Typing => TypeOK
  BY DEF Typing
<1>4. QED
  BY <1>1, <1>2, <1>3, PTL DEF Spec

-----------------------------------------------------------------------------
(* Where an accepted prompt is.  NothingLost and WaitsOnce are not         *)
(* inductive on their own: a steer travels through the harness and comes   *)
(* back as an event, so what is in flight has to be accounted for too.     *)

\* Prompts that no longer wait.
Left == StartedPrompts \cup shown \cup removed \cup cancelled

\* Prompts the harness may still name in an event.
EventPrompts == {events[i].prompt : i \in DOMAIN events}
InFlight == steers \cup EventPrompts

\* The prompt of a command between its steer and its queueing.
Coming == IF pc = "queueing" THEN {job.prompt} ELSE {}

Placement ==
  /\ Distinct(queue)
  /\ Queued \cap Left = {}
  /\ accepted \subseteq Queued \cup Left
  /\ Queued \cup (Left \ {NoPrompt}) \subseteq accepted
  /\ InFlight \subseteq accepted \cup Coming \cup {NoPrompt}
  /\ Coming \cap accepted = {}

\* Taking a prompt out of a queue leaves every other one waiting, once.
LEMMA WithoutMoves ==
  ASSUME Typing, Distinct(queue), NEW q, queue' = Without(queue, q)
  PROVE  Distinct(queue)' /\ Queued' = Queued \ {q}
<1>1. queue \in Seq(Prompts)
  BY DEF Typing, TypeOK, LogTypeOK
<1>2. /\ Distinct(Without(queue, q))
      /\ Elems(Without(queue, q)) = Elems(queue) \ {q}
  BY <1>1, WithoutProperties
<1>3. Queued = Elems(queue) /\ Queued' = Elems(queue')
  BY DEF Queued, Elems
<1>4. Distinct(queue') => Distinct(queue)'
  BY DEF Distinct
<1>5. QED
  BY <1>2, <1>3, <1>4

\* Each log write, as a move of prompts between places.
LEMMA StartedMoves ==
  ASSUME Typing, Distinct(queue), NEW t, NEW p, NEW c, NEW a, NEW o,
         LogStarted(t, p, c, a, o)
  PROVE  /\ Distinct(queue)' /\ Queued' = Queued \ {p}
         /\ StartedPrompts' = StartedPrompts \cup {p}
         /\ UNCHANGED <<shown, removed, cancelled>>
<1>1. queue \in Seq(Prompts) /\ turns \in Seq(Turns)
  BY DEF Typing, TypeOK, LogTypeOK
<1>2. queue' = Without(queue, p)
  BY DEF LogStarted
<1>3. Distinct(queue)' /\ Queued' = Queued \ {p}
  BY <1>2, WithoutMoves
<1>4. StartedPrompts' = StartedPrompts \cup {p}
  <2> DEFINE r == [id |-> t, prompt |-> p, cause |-> c, attempt |-> a, of |-> o,
                   stop |-> "open"]
  <2>1. turns' = Append(turns, r) /\ r.prompt = p
    BY DEF LogStarted
  <2> HIDE DEF r
  <2>2. /\ DOMAIN turns = 1..Len(turns) /\ DOMAIN turns' = 1..(Len(turns) + 1)
        /\ \A i \in 1..Len(turns) : turns'[i] = turns[i]
        /\ turns'[Len(turns) + 1] = r
        /\ Len(turns) \in Nat
    BY <1>1, <2>1
  <2>3. QED
    BY <2>1, <2>2 DEF StartedPrompts
<1>5. QED
  BY <1>3, <1>4 DEF LogStarted

\* A finish moves no prompt: the started ones stay started.
LEMMA FinishedMoves ==
  ASSUME Typing, NEW t, NEW stop, LogFinished(t, stop)
  PROVE  /\ StartedPrompts' = StartedPrompts
         /\ UNCHANGED <<queue, shown, removed, cancelled>>
<1>1. /\ DOMAIN turns' = DOMAIN turns
      /\ \A i \in DOMAIN turns : turns'[i].prompt = turns[i].prompt
  <2>1. turns \in Seq(Turns)
    BY DEF Typing, TypeOK, LogTypeOK
  <2>2. \A i \in DOMAIN turns : turns[i] \in Turns
    BY <2>1, ElementOfSeq
  <2>3. \A i \in DOMAIN turns :
          [turns[i] EXCEPT !.stop = stop].prompt = turns[i].prompt
    BY <2>2 DEF Turns
  <2>4. QED
    BY <2>3 DEF LogFinished
<1>2. QED
  BY <1>1 DEF StartedPrompts, LogFinished

\* Showing a prompt moves it from the queue to the transcript.
LEMMA InjectedMoves ==
  ASSUME Typing, Distinct(queue), NEW q, LogInjected(q)
  PROVE  /\ Distinct(queue)' /\ Queued' = Queued \ {q}
         /\ shown' = shown \cup (Queued \cap {q})
         /\ UNCHANGED <<turns, removed, cancelled>>
<1>1. Distinct(queue)' /\ Queued' = Queued \ {q}
  BY WithoutMoves DEF LogInjected
<1>2. QED
  BY <1>1 DEF LogInjected

\* The prompts in flight after an emission are those before and its own.
LEMMA EmitFlight ==
  ASSUME Typing, NEW kind, NEW t, NEW p, NEW stop, Emit(kind, t, p, stop)
  PROVE  EventPrompts' = EventPrompts \cup {p}
<1> DEFINE r == [kind |-> kind, turn |-> t, prompt |-> p, stop |-> stop]
<1>1. events' = Append(events, r) /\ r.prompt = p /\ events \in Seq(Events)
  BY DEF Emit, Typing, TypeOK, HarnessTypeOK
<1> HIDE DEF r
<1>2. /\ DOMAIN events = 1..Len(events) /\ DOMAIN events' = 1..(Len(events) + 1)
      /\ \A i \in 1..Len(events) : events'[i] = events[i]
      /\ events'[Len(events) + 1] = r
      /\ Len(events) \in Nat
  BY <1>1
<1>3. QED
  BY <1>1, <1>2 DEF EventPrompts

\* A step that moves no accepted prompt has only the ones in flight to answer for.
LEMMA NothingMoves ==
  ASSUME Placement, UNCHANGED <<queue, shown, removed, cancelled, accepted>>,
         StartedPrompts' = StartedPrompts,
         InFlight' \subseteq accepted \cup Coming' \cup {NoPrompt},
         Coming' \cap accepted = {}
  PROVE  Placement'
<1>1. Distinct(queue)' /\ Queued' = Queued /\ Left' = Left
  BY DEF Placement, Distinct, Queued, Left
<1>2. QED
  BY <1>1 DEF Placement

\* A step that moves no prompt and brings none in flight keeps Placement.
LEMMA Quiet ==
  ASSUME Placement, UNCHANGED <<queue, shown, removed, cancelled, accepted>>,
         StartedPrompts' = StartedPrompts,
         InFlight' \subseteq InFlight \cup {NoPrompt},
         UNCHANGED <<pc, job>> \/ (pc # "queueing" /\ pc' # "queueing")
  PROVE  Placement'
<1>1. Coming' = Coming
  BY DEF Coming
<1>2. QED
  BY <1>1, NothingMoves DEF Placement

\* A step that leaves the log and the prompts in flight alone keeps Placement.
LEMMA Still ==
  ASSUME Placement,
         UNCHANGED <<turns, queue, shown, removed, cancelled, accepted, steers, events>>,
         UNCHANGED <<pc, job>> \/ (pc # "queueing" /\ pc' # "queueing")
  PROVE  Placement'
<1>1. StartedPrompts' = StartedPrompts /\ InFlight' = InFlight
  BY DEF StartedPrompts, InFlight, EventPrompts
<1>2. QED
  BY <1>1, Quiet

\* Every step of the model keeps Placement: one step per action of Next.
LEMMA PlacementStep == Typing /\ Placement /\ [Next]_vars => Placement'
<1> SUFFICES ASSUME Typing, Placement, [Next]_vars PROVE Placement'
  OBVIOUS
<1> USE DEF logVars, managerVars, recoverVars, actorVars, harnessVars, historyVars
<1>1. CASE CloseThread
  BY <1>1, Still DEF CloseThread, Waiting, At
<1>2. CASE OtherCommand
  BY <1>2, Still DEF OtherCommand, Waiting, At, AfterCommand
<1>3. CASE GetIdle
  BY <1>3, Still DEF GetIdle, Activate, Waiting, At
<1>4. CASE GetTurn
  BY <1>4, Still DEF GetTurn
<1>5. CASE SyncRow
  BY <1>5, Still DEF SyncRow
<1>6. CASE Sending
  BY <1>6, Still DEF Sending, At, AfterTurn, AfterCommand
<1>7. CASE Dispatch
  BY <1>7, Still DEF Dispatch, StartTurn, At
<1>8. CASE FinishGet
  BY <1>8, Still DEF FinishGet, Activate, Waiting, At, AfterCommand
<1>9. CASE RecoverRead
  BY <1>9, Still DEF RecoverRead
<1>10. CASE RecoverPrompt
  BY <1>10, Still DEF RecoverPrompt, StartTurn, Waiting, At, AfterCommand
<1>11. CASE Continue
  BY <1>11, Still DEF Continue, StartTurn, Waiting, At, AfterCommand
<1>12. CASE BootScan
  BY <1>12, Still DEF BootScan
<1>13. CASE ProvActivate
  BY <1>13, Still DEF ProvActivate, Waiting, At, AfterCommand
<1>14. CASE ProvRow
  BY <1>14, Still DEF ProvRow
<1>15. CASE ProvReady
  BY <1>15, Still DEF ProvReady, Waiting, At, AfterCommand
<1>16. CASE ProvError
  BY <1>16, Still DEF ProvError
<1>17. CASE ProvFailed
  BY <1>17, Still DEF ProvFailed
<1>18. CASE ProvReport
  BY <1>18, Still DEF ProvReport, Waiting, At, AfterCommand
<1>19. CASE Restore
  BY <1>19, Still DEF Restore
<1>20. CASE Stop
  BY <1>20, Still DEF Stop, Waiting, At
<1>21. CASE Halt
  BY <1>21, Still DEF Halt
<1>22. CASE Start
  BY <1>22, Still DEF Start
<1>23. CASE UNCHANGED vars
  BY <1>23, Still DEF vars
<1>24. CASE Exiting \/ Crash
  <2>1. InFlight' = {} /\ Coming' = {}
    BY <1>24 DEF Exiting, Crash, ActorGone, InFlight, EventPrompts, Coming
  <2>2. /\ StartedPrompts' = StartedPrompts
        /\ UNCHANGED <<queue, shown, removed, cancelled, accepted>>
    BY <1>24 DEF Exiting, Crash, StartedPrompts
  <2>3. QED
    BY <2>1, <2>2, NothingMoves
<1>25. CASE Refused \/ Closing \/ HandleExit
  <2>1. /\ StartedPrompts' = StartedPrompts
        /\ UNCHANGED <<queue, shown, removed, cancelled>>
    <3>1. CASE UNCHANGED logVars
      BY <3>1 DEF StartedPrompts
    <3>2. CASE \E t : LogFinished(t, "error")
      BY <3>2, FinishedMoves
    <3>3. QED
      BY <1>25, <3>1, <3>2 DEF Refused, Closing, HandleExit
  <2>2. pc # "queueing" /\ pc' # "queueing" /\ accepted' = accepted
    BY <1>25 DEF Refused, Closing, HandleExit, Waiting, At, AfterTurn, AfterCommand
  <2>3. InFlight' = InFlight
    BY <1>25 DEF Refused, Closing, HandleExit, InFlight, EventPrompts
  <2>4. QED
    BY <2>1, <2>2, <2>3, Quiet
<1>26. CASE HSelfStart \/ HChunk \/ HFinish \/ HExit
  <2>1. /\ UNCHANGED <<turns, queue, shown, removed, cancelled, accepted, pc, job>>
        /\ steers' \subseteq steers
    BY <1>26 DEF HSelfStart, HChunk, HFinish, HExit
  <2>2. EventPrompts' \subseteq EventPrompts \cup {NoPrompt}
    <3>1. CASE events' = events
      BY <3>1 DEF EventPrompts
    <3>2. CASE \E k, t, stop : Emit(k, t, NoPrompt, stop)
      BY <3>2, EmitFlight
    <3>3. QED
      BY <1>26, <3>1, <3>2 DEF HSelfStart, HChunk, HFinish, HExit
  <2>3. QED
    BY <2>1, <2>2, Quiet DEF StartedPrompts, InFlight
<1>27. CASE \E q \in Prompts : HRead(q)
  <2> PICK q \in Prompts : HRead(q)
    BY <1>27
  <2>1. /\ UNCHANGED <<turns, queue, shown, removed, cancelled, accepted, pc, job>>
        /\ q \in steers /\ steers' \subseteq steers
    BY DEF HRead
  <2>2. EventPrompts' = EventPrompts \cup {q}
    BY EmitFlight DEF HRead
  <2>3. QED
    BY <2>1, <2>2, Quiet DEF StartedPrompts, InFlight
<1>28. CASE Cancel
  <2>1. /\ UNCHANGED <<turns, queue, shown, removed, cancelled, accepted>>
        /\ steers' \subseteq steers
        /\ pc = "loop" /\ pc' = "dropping"
    BY <1>28 DEF Cancel, Waiting, At
  <2>2. EventPrompts' \subseteq EventPrompts \cup {NoPrompt}
    <3>1. CASE events' = events
      BY <3>1 DEF EventPrompts
    <3>2. CASE CancelledEvent
      <4>1. Emit("finished", hturn, NoPrompt, "cancelled")
        BY <3>2 DEF CancelledEvent, Emit
      <4>2. QED
        BY <4>1, EmitFlight
    <3>3. QED
      BY <1>28, <3>1, <3>2 DEF Cancel
  <2>3. QED
    BY <2>1, <2>2, Quiet DEF StartedPrompts, InFlight
<1>29. CASE \E p \in Prompts : Prompt(p)
  <2> PICK p \in Prompts : Prompt(p)
    BY <1>29
  <2>1. /\ UNCHANGED <<turns, queue, shown, removed, cancelled, accepted, events>>
        /\ p \notin accepted /\ pc = "loop"
    BY DEF Prompt, Waiting, At
  <2>2. CASE pc' = "queueing" /\ job' = [NoJob EXCEPT !.prompt = p]
    <3>1. job'.prompt = p
      BY <2>2 DEF NoJob
    <3>2. steers' \subseteq steers \cup {p}
      BY DEF Prompt
    <3>3. Coming' = {p} /\ Coming = {}
      BY <2>1, <2>2, <3>1 DEF Coming
    <3>4. InFlight' \subseteq InFlight \cup {p} /\ StartedPrompts' = StartedPrompts
      BY <2>1, <3>2 DEF InFlight, EventPrompts, StartedPrompts
    <3>5. QED
      BY <2>1, <3>3, <3>4, NothingMoves DEF Placement
  <2>3. CASE pc' = "starting" /\ steers' = steers
    BY <2>1, <2>3, Still
  <2>4. QED
    BY <2>2, <2>3 DEF Prompt, StartTurn
<1>30. CASE Starting
  <2>1. LogStarted(job.turn, job.prompt, job.cause, job.attempt, job.of)
    BY <1>30 DEF Starting
  <2>2. /\ Distinct(queue)' /\ Queued' = Queued \ {job.prompt}
        /\ StartedPrompts' = StartedPrompts \cup {job.prompt}
        /\ UNCHANGED <<shown, removed, cancelled>>
    BY <2>1, StartedMoves DEF Placement
  <2>3. Left' = Left \cup {job.prompt}
    BY <2>2 DEF Left
  <2>4. accepted' = accepted \cup ({job.prompt} \ {NoPrompt})
    BY <1>30 DEF Starting
  <2>5. Coming = {} /\ Coming' = {} /\ InFlight' = InFlight
    BY <1>30 DEF Starting, At, Coming, InFlight, EventPrompts
  <2>6. QED
    BY <2>2, <2>3, <2>4, <2>5 DEF Placement
<1>31. CASE Queueing
  <2>1. /\ queue' = Append(queue, job.prompt) /\ queue \in Seq(Prompts)
        /\ accepted' = accepted \cup {job.prompt} /\ pc' = "tail"
        /\ UNCHANGED <<turns, shown, removed, cancelled, steers, events>>
    BY <1>31 DEF Queueing, AfterCommand, Typing, TypeOK, LogTypeOK
  <2>2. Coming = {job.prompt} /\ job.prompt \in Prompts
    BY <1>31 DEF Queueing, At, Coming, Typing
  <2>3. job.prompt # NoPrompt
    BY <2>2, ConstantsOK
  <2>4. job.prompt \notin Queued \cup Left
    BY <2>2, <2>3 DEF Placement
  <2>5. Queued' = Queued \cup {job.prompt} /\ Distinct(queue)'
    <3>1. /\ DOMAIN queue = 1..Len(queue) /\ DOMAIN queue' = 1..(Len(queue) + 1)
          /\ \A i \in 1..Len(queue) : queue'[i] = queue[i]
          /\ queue'[Len(queue) + 1] = job.prompt
          /\ Len(queue) \in Nat
      BY <2>1, <2>2
    <3>2. Queued' = Queued \cup {job.prompt}
      BY <3>1 DEF Queued
    <3>3. ASSUME NEW i \in DOMAIN queue', NEW j \in DOMAIN queue',
                 queue'[i] = queue'[j]
          PROVE  i = j
      <4>1. \A k \in 1..Len(queue) : queue[k] # job.prompt
        BY <2>4, <3>1 DEF Queued
      <4>2. QED
        BY <3>1, <3>3, <4>1 DEF Placement, Distinct
    <3>4. QED
      BY <3>2, <3>3 DEF Distinct
  <2>6. Left' = Left /\ InFlight' = InFlight /\ Coming' = {}
    BY <2>1 DEF Left, StartedPrompts, InFlight, EventPrompts, Coming
  <2>7. QED
    BY <2>1, <2>2, <2>4, <2>5, <2>6 DEF Placement
<1>32. CASE \E q \in Prompts : Dequeue(q)
  <2> PICK q \in Prompts : Dequeue(q)
    BY <1>32
  <2>1. /\ q \in Queued /\ queue' = Without(queue, q)
        /\ removed' = removed \cup {q} /\ pc = "loop" /\ pc' = "tail"
        /\ UNCHANGED <<turns, shown, cancelled, accepted, steers, events>>
    BY DEF Dequeue, CanTakeBack, Waiting, At, AfterCommand
  <2>2. Distinct(queue)' /\ Queued' = Queued \ {q}
    BY <2>1, WithoutMoves DEF Placement
  <2>3. Left' = Left \cup {q} /\ InFlight' = InFlight /\ Coming' = {} /\ Coming = {}
    BY <2>1 DEF Left, StartedPrompts, InFlight, EventPrompts, Coming
  <2>4. QED
    BY <2>1, <2>2, <2>3, ConstantsOK DEF Placement
<1>33. CASE Dropping
  <2>1. /\ UNCHANGED <<shown, removed, accepted, steers, events>>
        /\ pc # "queueing" /\ pc' # "queueing"
    BY <1>33 DEF Dropping, At, AfterCommand
  <2>2. CASE queue # <<>>
    <3>1. /\ queue' = Tail(queue) /\ cancelled' = cancelled \cup {Head(queue)}
          /\ turns' = turns /\ queue \in Seq(Prompts)
      BY <1>33, <2>2 DEF Dropping, Typing, TypeOK, LogTypeOK
    <3>2. /\ DOMAIN queue = 1..Len(queue) /\ DOMAIN queue' = 1..(Len(queue) - 1)
          /\ \A i \in 1..(Len(queue) - 1) : queue'[i] = queue[i + 1]
          /\ Head(queue) = queue[1] /\ Len(queue) \in Nat \ {0}
      BY <2>2, <3>1, EmptySeq, HeadTailProperties
    <3>3. Distinct(queue)'
      BY <3>2 DEF Placement, Distinct
    <3>4. Queued' = Queued \ {Head(queue)}
      <4>1. \A i \in 2..Len(queue) : /\ i - 1 \in 1..(Len(queue) - 1)
                                    /\ queue'[i - 1] = queue[i]
        BY <3>2
      <4>2. \A i \in 1..(Len(queue) - 1) : queue[i + 1] # queue[1]
        BY <3>2 DEF Placement, Distinct
      <4>3. Queued' \subseteq Queued \ {Head(queue)}
        BY <3>2, <4>2 DEF Queued
      <4>4. ASSUME NEW i \in 1..Len(queue), queue[i] # queue[1]
            PROVE  queue[i] \in Queued'
        <5>1. i \in 2..Len(queue)
          BY <3>2, <4>4
        <5>2. QED
          BY <3>2, <4>1, <5>1 DEF Queued
      <4>5. QED
        BY <3>2, <4>3, <4>4 DEF Queued
    <3>5. Left' = Left \cup {Head(queue)} /\ Head(queue) \in Queued
      BY <2>1, <3>1, <3>2 DEF Left, StartedPrompts, Queued
    <3>6. InFlight' = InFlight /\ Coming = {} /\ Coming' = {}
      BY <2>1 DEF InFlight, EventPrompts, Coming
    <3>7. QED
      BY <2>1, <3>3, <3>4, <3>5, <3>6 DEF Placement
  <2>3. CASE queue = <<>>
    <3>1. /\ StartedPrompts' = StartedPrompts
          /\ UNCHANGED <<queue, shown, removed, cancelled>>
      <4>1. CASE UNCHANGED logVars
        BY <4>1 DEF StartedPrompts
      <4>2. CASE LogFinished(job.turn, "cancelled")
        BY <4>2, FinishedMoves
      <4>3. QED
        BY <1>33, <2>3, <4>1, <4>2 DEF Dropping
    <3>2. InFlight' = InFlight
      BY <2>1 DEF InFlight, EventPrompts
    <3>3. QED
      BY <2>1, <3>1, <3>2, Quiet
  <2>4. QED
    BY <2>2, <2>3
<1>34. CASE HandleEvent
  <2> DEFINE e == Head(events)
  <2>1. /\ UNCHANGED <<steers, accepted>> /\ pc = "loop" /\ pc' = "tail"
        /\ events # <<>> /\ events' = Tail(events) /\ events \in Seq(Events)
    BY <1>34 DEF HandleEvent, Waiting, At, AfterCommand, Typing, TypeOK,
                 HarnessTypeOK
  <2>2. EventPrompts' \subseteq EventPrompts /\ e.prompt \in EventPrompts
    <3>1. /\ DOMAIN events = 1..Len(events) /\ DOMAIN events' = 1..(Len(events) - 1)
          /\ \A i \in 1..(Len(events) - 1) : events'[i] = events[i + 1]
          /\ e = events[1] /\ Len(events) \in Nat \ {0}
      BY <2>1, EmptySeq, HeadTailProperties
    <3>2. \A i \in 1..(Len(events) - 1) : i + 1 \in DOMAIN events
      BY <3>1
    <3>3. QED
      BY <3>1, <3>2 DEF EventPrompts
  <2>3. /\ InFlight' \subseteq InFlight /\ e.prompt \in InFlight
        /\ Coming = {} /\ Coming' = {}
    BY <2>1, <2>2 DEF InFlight, Coming
  <2>4. e.prompt \in accepted \cup {NoPrompt}
    BY <2>3 DEF Placement
  <2> HIDE DEF e
  <2>5. CASE LogStarted(e.turn, e.prompt, "harness", 0, NoTurn)
    <3>1. /\ Distinct(queue)' /\ Queued' = Queued \ {e.prompt}
          /\ StartedPrompts' = StartedPrompts \cup {e.prompt}
          /\ UNCHANGED <<shown, removed, cancelled>>
      BY <2>5, StartedMoves DEF Placement
    <3>2. Left' = Left \cup {e.prompt}
      BY <3>1 DEF Left
    <3>3. QED
      BY <2>1, <2>3, <2>4, <3>1, <3>2 DEF Placement
  <2>6. CASE LogFinished(e.turn, e.stop)
    BY <2>1, <2>3, <2>6, FinishedMoves, Quiet
  <2>7. CASE LogInjected(e.prompt)
    <3>1. /\ Distinct(queue)' /\ Queued' = Queued \ {e.prompt}
          /\ shown' = shown \cup (Queued \cap {e.prompt})
          /\ UNCHANGED <<turns, removed, cancelled>>
      BY <2>7, InjectedMoves DEF Placement
    <3>2. Left' = Left \cup (Queued \cap {e.prompt})
      BY <3>1 DEF Left, StartedPrompts
    <3>3. QED
      BY <2>1, <2>3, <3>1, <3>2 DEF Placement
  <2>8. CASE LogChunk
    BY <2>1, <2>3, <2>8, Quiet DEF LogChunk, StartedPrompts
  <2>9. QED
    BY <1>34, <2>5, <2>6, <2>7, <2>8 DEF HandleEvent, e
<1>35. QED
  BY <1>1, <1>2, <1>3, <1>4, <1>5, <1>6, <1>7, <1>8, <1>9, <1>10, <1>11,
     <1>12, <1>13, <1>14, <1>15, <1>16, <1>17, <1>18, <1>19, <1>20, <1>21,
     <1>22, <1>23, <1>24, <1>25, <1>26, <1>27, <1>28, <1>29, <1>30, <1>31,
     <1>32, <1>33, <1>34
  DEF Next, Presenter, ActorStep, Reaction, Provision, HarnessStep, Server

\* The inductive invariant holds at every step.
LEMMA PlacementCorrect == Spec => [](Typing /\ Placement)
<1>1. Init => Typing /\ Placement
  <2> SUFFICES ASSUME Init PROVE Typing /\ Placement
    OBVIOUS
  <2>1. Typing
    BY InitTyping
  <2>2. Queued = {} /\ StartedPrompts = {} /\ EventPrompts = {} /\ Distinct(queue)
    BY DEF Init, Queued, StartedPrompts, EventPrompts, Distinct
  <2>3. Left = {} /\ InFlight = {} /\ Coming = {} /\ accepted = {}
    BY <2>2 DEF Init, Left, InFlight, Coming
  <2>4. QED
    BY <2>1, <2>2, <2>3 DEF Placement
<1>2. Typing /\ Placement /\ [Next]_vars => (Typing /\ Placement)'
  BY TypingStep, PlacementStep
<1>3. QED
  BY <1>1, <1>2, PTL DEF Spec

\* A prompt a presenter was told is accepted is in the log for good, whatever
\* the loop, the harness, a stop or a crash between two writes do (actor.go
\* cmdPrompt, dispatchQueued, dropQueue; manager.go get).
THEOREM NoPromptLost == Spec => []NothingLost
<1>1. Placement => NothingLost
  BY DEF Placement, Left, NothingLost
<1>2. QED
  BY <1>1, PlacementCorrect, PTL

\* No schedule leaves a second copy of a prompt waiting: not a steer read
\* while its entry is being written, not a dispatch, a cancel or a restart.
THEOREM NoPromptWaitsTwice == Spec => []WaitsOnce
<1>1. Placement => WaitsOnce
  BY DEF Placement, Left, WaitsOnce, Distinct
<1>2. QED
  BY <1>1, PlacementCorrect, PTL

-----------------------------------------------------------------------------
(* The log only grows.                                                     *)

\* What one step may do to the log's turns and to the shown prompts.
Grown ==
  /\ Len(turns) <= Len(turns')
  /\ \A i \in DOMAIN turns :
       /\ turns'[i].id = turns[i].id
       /\ turns[i].stop # "open" => turns'[i].stop # "open"
  /\ shown \subseteq shown'

\* No finish on its way to the actor would leave a turn open.
FinishesClose ==
  \A i \in DOMAIN events : events[i].kind = "finished" => events[i].stop # "open"

\* A step that leaves the turns and the shown prompts alone.
LEMMA SameGrown ==
  ASSUME TypeOK, UNCHANGED <<turns, shown>>
  PROVE  Grown
<1>1. Len(turns) \in Nat
  BY DEF TypeOK, LogTypeOK
<1>2. QED
  BY <1>1 DEF Grown

\* A started turn goes to the end (append of turn.started).
LEMMA StartedGrown ==
  ASSUME TypeOK, NEW t, NEW p, NEW c, NEW a, NEW o, LogStarted(t, p, c, a, o)
  PROVE  Grown
<1> DEFINE r == [id |-> t, prompt |-> p, cause |-> c, attempt |-> a, of |-> o,
                 stop |-> "open"]
<1>1. turns' = Append(turns, r) /\ shown' = shown /\ turns \in Seq(Turns)
  BY DEF LogStarted, TypeOK, LogTypeOK
<1> HIDE DEF r
<1>2. /\ DOMAIN turns = 1..Len(turns) /\ Len(turns) \in Nat
      /\ Len(turns') = Len(turns) + 1
      /\ \A i \in 1..Len(turns) : turns'[i] = turns[i]
  BY <1>1
<1>3. QED
  BY <1>1, <1>2 DEF Grown

\* A finish closes the turns of its id and moves none (append of turn.finished).
LEMMA FinishedGrown ==
  ASSUME TypeOK, NEW t, NEW stop, stop # "open", LogFinished(t, stop)
  PROVE  Grown
<1> DEFINE e(i) == IF turns[i].id = t THEN [turns[i] EXCEPT !.stop = stop]
                   ELSE turns[i]
<1>1. /\ DOMAIN turns = 1..Len(turns) /\ Len(turns) \in Nat
      /\ turns \in Seq(Turns)
  BY DEF TypeOK, LogTypeOK
<1>2. turns' = [i \in 1..Len(turns) |-> e(i)] /\ shown' = shown
  BY <1>1 DEF LogFinished
<1>3. \A i \in 1..Len(turns) :
        e(i).id = turns[i].id /\ (turns[i].stop # "open" => e(i).stop # "open")
  <2> SUFFICES ASSUME NEW i \in 1..Len(turns)
               PROVE  /\ e(i).id = turns[i].id
                      /\ turns[i].stop # "open" => e(i).stop # "open"
    OBVIOUS
  <2>1. turns[i] \in Turns
    BY <1>1, ElementOfSeq
  <2>2. QED
    BY <2>1 DEF Turns
<1> HIDE DEF e
<1>4. Len(turns') = Len(turns) /\ \A i \in 1..Len(turns) : turns'[i] = e(i)
  BY <1>1, <1>2
<1>5. QED
  BY <1>1, <1>2, <1>3, <1>4 DEF Grown

\* The session puts nothing on its channel that leaves a turn open.
LEMMA EmitCloses ==
  ASSUME TypeOK, FinishesClose, NEW kind, NEW t, NEW p, NEW stop,
         Emit(kind, t, p, stop), kind = "finished" => stop # "open"
  PROVE  FinishesClose'
<1> DEFINE r == [kind |-> kind, turn |-> t, prompt |-> p, stop |-> stop]
<1>1. /\ events' = Append(events, r) /\ events \in Seq(Events)
      /\ r.kind = "finished" => r.stop # "open"
  BY DEF Emit, TypeOK, HarnessTypeOK
<1> HIDE DEF r
<1>2. /\ DOMAIN events = 1..Len(events) /\ DOMAIN events' = 1..(Len(events) + 1)
      /\ \A i \in 1..Len(events) : events'[i] = events[i]
      /\ events'[Len(events) + 1] = r
      /\ Len(events) \in Nat
  BY <1>1
<1>3. QED
  BY <1>1, <1>2 DEF FinishesClose

\* Every step keeps it: events are emitted, taken off the front, or lost.
LEMMA FinishesCloseStep ==
  Typing /\ FinishesClose /\ [Next]_vars => FinishesClose'
<1> SUFFICES ASSUME Typing, FinishesClose, [Next]_vars PROVE FinishesClose'
  OBVIOUS
<1> USE DEF Typing
<1>1. CASE UNCHANGED events
  BY <1>1 DEF FinishesClose
<1>2. CASE events' = <<>>
  BY <1>2 DEF FinishesClose
<1>3. CASE HandleEvent
  <2>1. /\ DOMAIN events = 1..Len(events) /\ DOMAIN events' = 1..(Len(events) - 1)
        /\ \A i \in 1..(Len(events) - 1) : events'[i] = events[i + 1]
        /\ Len(events) \in Nat \ {0}
    BY <1>3, EmptySeq, HeadTailProperties DEF HandleEvent, TypeOK, HarnessTypeOK
  <2>2. \A i \in 1..(Len(events) - 1) : i + 1 \in DOMAIN events
    BY <2>1
  <2>3. QED
    BY <2>1, <2>2 DEF FinishesClose
<1>4. CASE Cancel
  <2>1. CASE UNCHANGED events
    BY <2>1, <1>1
  <2>2. CASE Emit("finished", hturn, NoPrompt, "cancelled")
    BY <2>2, EmitCloses
  <2>3. QED
    BY <1>4, <2>1, <2>2 DEF Cancel, CancelledEvent, Emit
<1>5. CASE HSelfStart
  BY <1>5, EmitCloses DEF HSelfStart
<1>6. ASSUME NEW q \in Prompts, HRead(q) PROVE FinishesClose'
  <2>1. \/ Emit("injected", hturn, q, "open")
        \/ Emit("started", born + 1, q, "open")
    BY <1>6 DEF HRead
  <2>2. QED
    BY <2>1, EmitCloses
<1>7. CASE HChunk
  BY <1>7, EmitCloses DEF HChunk
<1>8. CASE HFinish
  <2>1. PICK stop \in {"end", "error"} : Emit("finished", hturn, NoPrompt, stop)
    BY <1>8 DEF HFinish
  <2>2. QED
    BY <2>1, EmitCloses
<1>9. CASE HExit
  <2>1. UNCHANGED events \/ Emit("finished", hturn, NoPrompt, "error")
    BY <1>9 DEF HExit
  <2>2. QED
    BY <2>1, <1>1, EmitCloses
<1>10. UNCHANGED events \/ events' = <<>> \/ HandleEvent \/ Cancel \/ HSelfStart
         \/ (\E q \in Prompts : HRead(q)) \/ HChunk \/ HFinish \/ HExit
  <2> USE DEF harnessVars, vars
  <2>1. CASE Presenter
    BY <2>1 DEF Presenter, Prompt, Dequeue, Continue, CloseThread, OtherCommand,
                GetIdle, GetTurn, Activate
  <2>2. CASE ActorStep
    BY <2>2 DEF ActorStep, SyncRow, Starting, Sending, Refused, Dispatch,
                Queueing, Dropping, Exiting, Closing, ActorGone
  <2>3. CASE Reaction
    BY <2>3 DEF Reaction, HandleExit, FinishGet, RecoverRead, RecoverPrompt,
                Activate
  <2>4. CASE Provision
    BY <2>4 DEF Provision, ProvActivate, ProvRow, ProvReady, ProvError,
                ProvFailed, ProvReport
  <2>5. CASE HarnessStep
    BY <2>5 DEF HarnessStep
  <2>6. CASE Server
    BY <2>6 DEF Server, Restore, BootScan, Stop, Halt, Crash, Start, ActorGone
  <2>7. QED
    BY <2>1, <2>2, <2>3, <2>4, <2>5, <2>6 DEF Next
<1>11. QED
  BY <1>1, <1>2, <1>3, <1>4, <1>5, <1>6, <1>7, <1>8, <1>9, <1>10

\* Every step of the model leaves the log grown: six write turns.
LEMMA GrownStep == Typing /\ FinishesClose /\ [Next]_vars => Grown
<1> SUFFICES ASSUME Typing, FinishesClose, [Next]_vars PROVE Grown
  OBVIOUS
<1> USE DEF Typing
<1>1. CASE UNCHANGED <<turns, shown>>
  BY <1>1, SameGrown
<1>2. CASE Starting
  BY <1>2, StartedGrown DEF Starting
<1>3. CASE Refused
  BY <1>3, FinishedGrown DEF Refused
<1>4. CASE Dropping
  <2>1. LogFinished(job.turn, "cancelled") \/ UNCHANGED <<turns, shown>>
    BY <1>4 DEF Dropping, logVars
  <2>2. QED
    BY <2>1, <1>1, FinishedGrown
<1>5. CASE Closing
  <2>1. UNCHANGED <<turns, shown>> \/ \E t : LogFinished(t, "error")
    BY <1>5 DEF Closing, logVars
  <2>2. QED
    BY <2>1, <1>1, FinishedGrown
<1>6. CASE HandleExit
  <2>1. UNCHANGED <<turns, shown>> \/ LogFinished(turnActive, "error")
    BY <1>6 DEF HandleExit, logVars
  <2>2. QED
    BY <2>1, <1>1, FinishedGrown
<1>7. CASE HandleEvent
  <2> DEFINE e == Head(events)
  <2>1. e.kind = "finished" => e.stop # "open"
    <3>1. 1 \in DOMAIN events /\ e = events[1]
      BY <1>7, EmptySeq DEF HandleEvent, TypeOK, HarnessTypeOK
    <3>2. QED
      BY <3>1 DEF FinishesClose
  <2> HIDE DEF e
  <2>2. CASE LogStarted(e.turn, e.prompt, "harness", 0, NoTurn)
    BY <2>2, StartedGrown
  <2>3. CASE e.kind = "finished" /\ LogFinished(e.turn, e.stop)
    BY <2>1, <2>3, FinishedGrown
  <2>4. CASE LogInjected(e.prompt)
    <3>1. turns' = turns /\ shown \subseteq shown' /\ Len(turns) \in Nat
      BY <2>4 DEF LogInjected, TypeOK, LogTypeOK
    <3>2. QED
      BY <3>1 DEF Grown
  <2>5. CASE LogChunk
    BY <2>5, <1>1 DEF LogChunk
  <2>6. QED
    BY <1>7, <2>2, <2>3, <2>4, <2>5 DEF HandleEvent, e
<1>8. UNCHANGED <<turns, shown>> \/ Starting \/ Refused \/ Dropping \/ Closing
        \/ HandleExit \/ HandleEvent
  <2> USE DEF logVars, vars
  <2>1. CASE Presenter
    BY <2>1 DEF Presenter, Prompt, Dequeue, Cancel, Continue, CloseThread,
                OtherCommand, GetIdle, GetTurn
  <2>2. CASE ActorStep
    BY <2>2 DEF ActorStep, SyncRow, Sending, Dispatch, Queueing, Exiting
  <2>3. CASE Reaction
    BY <2>3 DEF Reaction, FinishGet, RecoverRead, RecoverPrompt
  <2>4. CASE Provision
    BY <2>4 DEF Provision, ProvActivate, ProvRow, ProvReady, ProvError,
                ProvFailed, ProvReport
  <2>5. CASE HarnessStep
    BY <2>5 DEF HarnessStep, HSelfStart, HRead, HChunk, HFinish, HExit
  <2>6. CASE Server
    BY <2>6 DEF Server, Restore, BootScan, Stop, Halt, Crash, Start
  <2>7. QED
    BY <2>1, <2>2, <2>3, <2>4, <2>5, <2>6 DEF Next
<1>9. QED
  BY <1>1, <1>2, <1>3, <1>4, <1>5, <1>6, <1>7, <1>8

\* The transcript is append-only: across commands, crashes and restarts no turn
\* is removed, renamed or opened again, and no shown prompt disappears
\* (actor.go append, projection/state.go Apply).
THEOREM LogGrows == Spec => LogIsAppendOnly
<1>1. Init => FinishesClose
  BY DEF Init, FinishesClose
<1>2. Typing /\ FinishesClose /\ [Next]_vars => FinishesClose'
  BY FinishesCloseStep
<1>3. Typing /\ FinishesClose /\ [Next]_vars => [Grown]_vars
  BY GrownStep
<1>4. LogIsAppendOnly <=> [][Grown]_vars
  BY DEF LogIsAppendOnly, Grown
<1>5. Spec => []Typing
  BY PlacementCorrect, PTL
<1>6. QED
  BY <1>1, <1>2, <1>3, <1>4, <1>5, PTL DEF Spec

-----------------------------------------------------------------------------
(* What the harness reads, it reads once.                                  *)

\* Prompts this harness process has been given, or will read.
Touched == steers \cup {p \in Prompts : given[p] > 0}

\* A prompt the harness has is never sent again: it was read once at most, is accepted,
\* is marked while it waits, is not what the loop is about to send and was not taken back.
Handed ==
  /\ \A p \in Prompts : given[p] <= 1 /\ (p \in steers => given[p] = 0)
  /\ Touched \subseteq accepted \cup Coming
  /\ pc # "exiting" => (Queued \cup Coming) \cap Touched \subseteq sent
  /\ pc \in {"starting", "sending"} => job.prompt \notin Touched \cup removed
  /\ pc = "sending" => job.prompt \in StartedPrompts
  /\ removed \cap Touched = {}

\* A step that hands the harness nothing, takes nothing back and stays out of the
\* loop's sending keeps Handed.
LEMMA HandedStill ==
  ASSUME Typing, Handed, UNCHANGED <<steers, given, removed>>,
         accepted \subseteq accepted', Queued' \subseteq Queued, Coming' = Coming,
         sent \cap (Queued' \cup Coming) \subseteq sent' \/ pc' = "exiting",
         pc # "exiting" \/ pc' = "exiting", pc' \notin {"starting", "sending"}
  PROVE  Handed'
<1>1. Touched' = Touched
  BY DEF Touched
<1> QED
  BY <1>1 DEF Handed

\* A step that only begins to send a prompt the harness does not have.
LEMMA HandedBegins ==
  ASSUME Typing, Handed, UNCHANGED <<steers, given, removed, accepted, queue, sent>>,
         Coming = {}, pc # "exiting", pc' = "starting", job'.prompt \notin Touched \cup removed
  PROVE  Handed'
<1>1. Touched' = Touched /\ Queued' = Queued /\ Coming' = {}
  BY DEF Touched, Queued, Coming
<1> QED
  BY <1>1 DEF Handed

\* A step of nobody but the manager or the harness that touches no prompt.
LEMMA HandedSame ==
  ASSUME Typing, Handed, UNCHANGED <<given, removed, accepted, queue, sent, pc, job>>,
         steers' \subseteq steers, StartedPrompts' = StartedPrompts
  PROVE  Handed'
<1>1. Touched' \subseteq Touched /\ Queued' = Queued /\ Coming' = Coming
  BY DEF Touched, Queued, Coming
<1> QED
  BY <1>1 DEF Handed

\* No text is not a prompt, and what StartTurn sends without one was touched by nobody.
LEMMA NoPromptUntouched ==
  ASSUME Typing PROVE NoPrompt \notin Touched \cup removed
<1> QED
  BY ConstantsOK DEF Typing, TypeOK, LogTypeOK, HarnessTypeOK, Touched

\* Every step keeps Handed.
LEMMA HandedStep == Typing /\ Placement /\ Handed /\ [Next]_vars => Handed'
<1> SUFFICES ASSUME Typing, Placement, Handed, [Next]_vars PROVE Handed'
  OBVIOUS
<1> USE DEF logVars, managerVars, recoverVars, actorVars, harnessVars, historyVars
<1>q. ASSUME UNCHANGED queue PROVE Queued' = Queued
  BY <1>q DEF Queued
<1>t. ASSUME UNCHANGED turns PROVE StartedPrompts' = StartedPrompts
  BY <1>t DEF StartedPrompts
<1>n. NoPrompt \notin Touched \cup removed
  BY NoPromptUntouched
<1>1. CASE CloseThread
  BY <1>1, <1>q, HandedStill DEF CloseThread, Waiting, At, Coming
<1>2. CASE OtherCommand
  BY <1>2, <1>q, HandedStill DEF OtherCommand, Waiting, At, AfterCommand, Coming
<1>3. CASE GetIdle
  BY <1>3, <1>q, HandedStill DEF GetIdle, Activate, Waiting, At, Coming
<1>4. CASE GetTurn
  BY <1>4, <1>t, HandedSame DEF GetTurn
<1>5. CASE SyncRow
  BY <1>5, <1>t, HandedSame DEF SyncRow
<1>6. CASE Sending
  <2>1. /\ pc = "sending" /\ pc' \in {"loop", "tail"}
        /\ UNCHANGED <<steers, removed, accepted, queue, sent, turns>>
        /\ given' = [p \in Prompts |-> IF p = job.prompt THEN given[p] + 1 ELSE given[p]]
    BY <1>6 DEF Sending, At, AfterTurn, AfterCommand
  <2>2. job.prompt \in StartedPrompts /\ job.prompt \notin Touched \cup removed
    BY <2>1 DEF Handed
  <2>3. Touched' = Touched \cup ({job.prompt} \cap Prompts)
    BY <2>1 DEF Touched, Typing, TypeOK, HarnessTypeOK
  <2>4. Queued' = Queued /\ Coming = {} /\ Coming' = {}
    BY <2>1, <1>q DEF Coming
  <2>5. job.prompt \in Prompts => job.prompt \in accepted /\ job.prompt \notin Queued
    BY <2>2, ConstantsOK DEF Placement, Left
  <2>6. \A p \in Prompts : given'[p] <= 1 /\ (p \in steers' => given'[p] = 0)
    BY <2>1, <2>2 DEF Touched, Handed, Typing, TypeOK, HarnessTypeOK
  <2>7. QED
    BY <2>1, <2>2, <2>3, <2>4, <2>5, <2>6 DEF Handed
<1>7. CASE Dispatch
  <2>1. CASE UNCHANGED <<turnActive, born, job>> /\ pc' = "loop"
    BY <1>7, <2>1, <1>q, HandedStill DEF Dispatch, At, Coming
  <2>2. CASE \E i \in Unsent : StartTurn(queue[i], "queue", 0, NoTurn)
    <3>1. PICK i \in Unsent : StartTurn(queue[i], "queue", 0, NoTurn)
      BY <2>2
    <3>2. queue[i] \in Queued /\ queue[i] \notin sent
      BY DEF Unsent, Queued
    <3>3. /\ UNCHANGED <<steers, given, removed, accepted, queue, sent>>
          /\ Coming = {} /\ pc = "tail" /\ pc' = "starting" /\ job'.prompt = queue[i]
      BY <1>7, <3>1 DEF Dispatch, StartTurn, At, Coming
    <3>4. job'.prompt \notin Touched \cup removed
      BY <3>2, <3>3 DEF Handed, Placement, Left
    <3>5. QED
      BY <3>3, <3>4, HandedBegins
  <2>3. QED
    BY <1>7, <2>1, <2>2 DEF Dispatch
<1>8. CASE FinishGet
  BY <1>8, <1>q, HandedStill DEF FinishGet, Activate, Waiting, At, AfterCommand, Coming
<1>9. CASE RecoverRead
  BY <1>9, <1>t, HandedSame DEF RecoverRead
<1>10. CASE RecoverPrompt
  <2>1. /\ UNCHANGED <<steers, given, removed, accepted, queue, sent, turns>>
        /\ pc = "loop" /\ Coming = {}
    BY <1>10 DEF RecoverPrompt, Waiting, At, Coming
  <2>2. CASE StartTurn(NoPrompt, "restart", plan.attempt, plan.of)
    BY <2>1, <2>2, <1>n, HandedBegins DEF StartTurn
  <2>3. CASE pc' = "tail"
    BY <2>1, <2>3, <1>q, HandedStill DEF Coming
  <2>4. CASE UNCHANGED <<pc, job>>
    BY <2>1, <2>4, <1>t, HandedSame
  <2>5. QED
    BY <1>10, <2>2, <2>3, <2>4 DEF RecoverPrompt, AfterCommand
<1>11. CASE Continue
  <2>1. /\ UNCHANGED <<steers, given, removed, accepted, queue, sent, turns>>
        /\ pc = "loop" /\ Coming = {}
    BY <1>11 DEF Continue, Waiting, At, Coming
  <2>2. CASE \E a, o : StartTurn(NoPrompt, "continue", a, o)
    BY <2>1, <2>2, <1>n, HandedBegins DEF StartTurn
  <2>3. CASE pc' = "tail"
    BY <2>1, <2>3, <1>q, HandedStill DEF Coming
  <2>4. QED
    BY <1>11, <2>2, <2>3 DEF Continue, AfterCommand
<1>12. CASE BootScan
  BY <1>12, <1>t, HandedSame DEF BootScan
<1>13. CASE ProvActivate
  BY <1>13, <1>q, HandedStill DEF ProvActivate, Waiting, At, AfterCommand, Coming
<1>14. CASE ProvRow
  BY <1>14, <1>t, HandedSame DEF ProvRow
<1>15. CASE ProvReady
  BY <1>15, <1>q, HandedStill DEF ProvReady, Waiting, At, AfterCommand, Coming
<1>16. CASE ProvError
  BY <1>16, <1>t, HandedSame DEF ProvError
<1>17. CASE ProvFailed
  BY <1>17, <1>t, HandedSame DEF ProvFailed
<1>18. CASE ProvReport
  BY <1>18, <1>q, HandedStill DEF ProvReport, Waiting, At, AfterCommand, Coming
<1>19. CASE Restore
  BY <1>19, <1>t, HandedSame DEF Restore
<1>20. CASE Stop
  <2>1. CASE live
    BY <1>20, <2>1, <1>q, HandedStill DEF Stop, Waiting, At, Coming
  <2>2. CASE ~live
    BY <1>20, <2>2, <1>t, HandedSame DEF Stop
  <2>3. QED
    BY <2>1, <2>2
<1>21. CASE Halt
  BY <1>21, <1>t, HandedSame DEF Halt
<1>22. CASE Start
  BY <1>22, <1>t, HandedSame DEF Start
<1>23. CASE UNCHANGED vars
  BY <1>23, <1>t, HandedSame DEF vars
<1>24. CASE Exiting \/ Crash
  <2>1. /\ Touched' = {} /\ pc' = "loop" /\ Coming' = {}
        /\ \A p \in Prompts : given'[p] = 0
    BY <1>24 DEF Exiting, Crash, ActorGone, Touched, Coming
  <2>2. QED
    BY <2>1 DEF Handed
<1>25. CASE Refused \/ Closing
  <2>1. /\ UNCHANGED <<steers, given, removed, accepted, queue, sent>>
        /\ pc \in {"sending", "closing"} /\ pc' \in {"loop", "tail", "closing"}
    BY <1>25 DEF Refused, Closing, LogFinished, At, AfterTurn, AfterCommand
  <2>2. QED
    BY <2>1, <1>q, HandedStill DEF Coming
<1>26. CASE HandleExit
  <2>1. /\ UNCHANGED <<steers, given, removed, accepted, queue>>
        /\ pc = "loop" /\ pc' = "exiting"
    BY <1>26 DEF HandleExit, LogFinished, Waiting, At
  <2>2. QED
    BY <2>1, <1>q, HandedStill DEF Coming
<1>27. CASE HSelfStart \/ HChunk \/ HFinish \/ HExit
  BY <1>27, <1>t, HandedSame DEF HSelfStart, HChunk, HFinish, HExit
<1>28. CASE \E q \in Prompts : HRead(q)
  <2> PICK q \in Prompts : HRead(q)
    BY <1>28
  <2>1. /\ q \in steers /\ steers' = steers \ {q}
        /\ given' = [given EXCEPT ![q] = @ + 1]
        /\ UNCHANGED <<turns, queue, removed, accepted, sent, pc, job>>
    BY DEF HRead
  <2>2. Touched' = Touched /\ Queued' = Queued /\ Coming' = Coming
    BY <2>1 DEF Touched, Queued, Coming, Typing, TypeOK, HarnessTypeOK
  <2>3. \A p \in Prompts : given'[p] <= 1 /\ (p \in steers' => given'[p] = 0)
    BY <2>1 DEF Handed, Typing, TypeOK, HarnessTypeOK
  <2>4. QED
    BY <2>1, <2>2, <2>3, <1>t DEF Handed
<1>29. CASE Cancel
  <2>1. /\ UNCHANGED <<given, removed, accepted, queue, sent>>
        /\ steers' \subseteq steers /\ pc = "loop" /\ pc' = "dropping"
    BY <1>29 DEF Cancel, Waiting, At
  <2>2. Touched' \subseteq Touched /\ Coming = {} /\ Coming' = {}
    BY <2>1 DEF Touched, Coming
  <2>3. QED
    BY <2>1, <2>2, <1>q DEF Handed
<1>30. CASE \E p \in Prompts : Prompt(p)
  <2> PICK p \in Prompts : Prompt(p)
    BY <1>30
  <2>1. /\ UNCHANGED <<given, removed, accepted, queue>>
        /\ p \notin accepted /\ pc = "loop" /\ Coming = {} /\ Queued' = Queued
    BY <1>q DEF Prompt, Waiting, At, Coming
  <2>2. p \notin Touched \cup removed
    BY <2>1, ConstantsOK DEF Handed, Placement, Left
  <2>3. CASE pc' = "starting" /\ job'.prompt = p /\ UNCHANGED <<steers, sent>>
    BY <2>1, <2>2, <2>3, HandedBegins
  <2>4. CASE pc' = "queueing" /\ job' = [NoJob EXCEPT !.prompt = p]
    <3>1. Coming' = {p}
      BY <2>4 DEF Coming, NoJob
    <3>2. \/ steers' = steers /\ sent' = sent
          \/ steers' = steers \cup {p} /\ sent' = sent \cup {p}
      BY DEF Prompt
    <3>3. Touched' = Touched \cup (steers' \ steers)
      BY <2>1, <3>2 DEF Touched
    <3>4. given[p] = 0
      BY <2>2 DEF Touched, Typing, TypeOK, HarnessTypeOK
    <3>5. QED
      BY <2>1, <2>2, <2>4, <3>1, <3>2, <3>3, <3>4 DEF Handed
  <2>5. QED
    BY <2>3, <2>4 DEF Prompt, StartTurn
<1>31. CASE Starting
  <2>1. LogStarted(job.turn, job.prompt, job.cause, job.attempt, job.of)
    BY <1>31 DEF Starting
  <2>2. /\ Queued' = Queued \ {job.prompt}
        /\ StartedPrompts' = StartedPrompts \cup {job.prompt}
        /\ removed' = removed /\ sent' = sent \ {job.prompt}
    BY <2>1, StartedMoves DEF Placement, LogStarted
  <2>3. /\ pc = "starting" /\ pc' = "sending" /\ UNCHANGED <<steers, given, job>>
        /\ accepted \subseteq accepted'
    BY <1>31 DEF Starting, At
  <2>4. Touched' = Touched /\ Coming = {} /\ Coming' = {}
    BY <2>3 DEF Touched, Coming
  <2>5. QED
    BY <2>2, <2>3, <2>4 DEF Handed
<1>32. CASE Queueing
  <2>1. /\ queue' = Append(queue, job.prompt) /\ queue \in Seq(Prompts)
        /\ accepted' = accepted \cup {job.prompt} /\ pc' = "tail" /\ pc = "queueing"
        /\ UNCHANGED <<steers, given, removed, sent>>
    BY <1>32 DEF Queueing, At, AfterCommand, Typing, TypeOK, LogTypeOK
  <2>2. Coming = {job.prompt} /\ Coming' = {} /\ job.prompt \in Prompts
    BY <2>1 DEF Coming, Typing
  <2>3. Queued' = Queued \cup {job.prompt}
    <3>1. /\ DOMAIN queue = 1..Len(queue) /\ DOMAIN queue' = 1..(Len(queue) + 1)
          /\ \A i \in 1..Len(queue) : queue'[i] = queue[i]
          /\ queue'[Len(queue) + 1] = job.prompt
          /\ Len(queue) \in Nat
      BY <2>1, <2>2
    <3>2. QED
      BY <3>1 DEF Queued
  <2>4. Touched' = Touched
    BY <2>1 DEF Touched
  <2>5. QED
    BY <2>1, <2>2, <2>3, <2>4 DEF Handed
<1>33. CASE \E q \in Prompts : Dequeue(q)
  <2> PICK q \in Prompts : Dequeue(q)
    BY <1>33
  <2>1. /\ q \in Queued /\ q \notin sent /\ queue' = Without(queue, q)
        /\ removed' = removed \cup {q} /\ pc = "loop" /\ pc' = "tail"
        /\ UNCHANGED <<accepted, steers, given, sent>>
    BY DEF Dequeue, CanTakeBack, Waiting, At, AfterCommand
  <2>2. Queued' = Queued \ {q} /\ Touched' = Touched /\ Coming = {} /\ Coming' = {}
    BY <2>1, WithoutMoves DEF Placement, Touched, Coming
  <2>3. QED
    BY <2>1, <2>2 DEF Handed
<1>34. CASE Dropping
  <2>1. /\ UNCHANGED <<steers, given, removed, accepted>>
        /\ pc = "dropping" /\ pc' \in {"dropping", "tail"} /\ Coming = {} /\ Coming' = {}
    BY <1>34 DEF Dropping, LogFinished, At, AfterCommand, Coming
  <2>2. CASE queue # <<>>
    <3>1. queue' = Tail(queue) /\ sent' = sent \ {Head(queue)} /\ queue \in Seq(Prompts)
      BY <1>34, <2>2 DEF Dropping, Typing, TypeOK, LogTypeOK
    <3>2. /\ DOMAIN queue = 1..Len(queue) /\ DOMAIN queue' = 1..(Len(queue) - 1)
          /\ \A i \in 1..(Len(queue) - 1) : queue'[i] = queue[i + 1]
          /\ Head(queue) = queue[1] /\ Len(queue) \in Nat \ {0}
      BY <2>2, <3>1, EmptySeq, HeadTailProperties
    <3>3. \A i \in 1..(Len(queue) - 1) : i + 1 \in DOMAIN queue /\ queue[i + 1] # queue[1]
      BY <3>2 DEF Placement, Distinct
    <3>4. Queued' \subseteq Queued \ {Head(queue)}
      BY <3>2, <3>3 DEF Queued
    <3>5. QED
      BY <2>1, <3>1, <3>4, HandedStill
  <2>3. CASE queue = <<>>
    <3>1. queue' = <<>>
      BY <1>34, <2>3 DEF Dropping, LogFinished
    <3>2. Queued' = {}
      BY <3>1 DEF Queued
    <3>3. QED
      BY <2>1, <3>2, HandedStill
  <2>4. QED
    BY <2>2, <2>3
<1>35. CASE HandleEvent
  <2> DEFINE e == Head(events)
  <2>1. /\ UNCHANGED <<steers, given, accepted>> /\ pc = "loop" /\ pc' = "tail"
        /\ Coming = {} /\ Coming' = {}
    BY <1>35 DEF HandleEvent, Waiting, At, AfterCommand, Coming
  <2> HIDE DEF e
  <2>2. CASE LogStarted(e.turn, e.prompt, "harness", 0, NoTurn)
    <3>1. Queued' = Queued \ {e.prompt} /\ sent' = sent \ {e.prompt} /\ removed' = removed
      BY <2>2, StartedMoves DEF Placement, LogStarted
    <3>2. QED
      BY <2>1, <3>1, HandedStill
  <2>3. CASE LogFinished(e.turn, e.stop) /\ UNCHANGED sent
    BY <2>1, <2>3, <1>q, HandedStill DEF LogFinished
  <2>4. CASE LogInjected(e.prompt)
    <3>1. Queued' = Queued \ {e.prompt} /\ sent' = sent \ {e.prompt} /\ removed' = removed
      BY <2>4, InjectedMoves DEF Placement, LogInjected
    <3>2. QED
      BY <2>1, <3>1, HandedStill
  <2>5. CASE LogChunk
    BY <2>1, <2>5, <1>q, HandedStill DEF LogChunk
  <2>6. QED
    BY <1>35, <2>2, <2>3, <2>4, <2>5 DEF HandleEvent, e
<1>36. QED
  BY <1>1, <1>2, <1>3, <1>4, <1>5, <1>6, <1>7, <1>8, <1>9, <1>10, <1>11,
     <1>12, <1>13, <1>14, <1>15, <1>16, <1>17, <1>18, <1>19, <1>20, <1>21,
     <1>22, <1>23, <1>24, <1>25, <1>26, <1>27, <1>28, <1>29, <1>30, <1>31,
     <1>32, <1>33, <1>34, <1>35
  DEF Next, Presenter, ActorStep, Reaction, Provision, HarnessStep, Server

\* No step lets the harness read what was taken back: what it is given is what the
\* loop sends or what it holds, and Handed says neither was.
LEMMA RemovedUnread ==
  Typing /\ Handed /\ [Next]_vars => \A p \in removed : given'[p] <= given[p]
<1> SUFFICES ASSUME Typing, Handed, [Next]_vars, NEW p \in removed
             PROVE  given'[p] <= given[p]
  OBVIOUS
<1>1. p \in Prompts /\ given[p] \in Nat
  BY DEF Typing, TypeOK, LogTypeOK, HarnessTypeOK
<1>2. CASE UNCHANGED given
  BY <1>1, <1>2
<1>3. CASE Sending
  <2>1. p # job.prompt
    BY <1>3 DEF Sending, At, Handed
  <2>2. given'[p] = given[p]
    BY <1>1, <1>3, <2>1 DEF Sending
  <2>3. QED
    BY <1>1, <2>2
<1>4. ASSUME NEW q \in Prompts, HRead(q) PROVE given'[p] <= given[p]
  <2>1. p # q
    BY <1>4 DEF HRead, Handed, Touched
  <2>2. given'[p] = given[p]
    BY <1>1, <1>4, <2>1 DEF HRead, Typing, TypeOK, HarnessTypeOK
  <2>3. QED
    BY <1>1, <2>2
<1>5. CASE ActorGone
  BY <1>1, <1>5 DEF ActorGone
<1>6. UNCHANGED given \/ Sending \/ (\E q \in Prompts : HRead(q)) \/ ActorGone
  <2> USE DEF harnessVars, vars
  <2>1. CASE Presenter
    BY <2>1 DEF Presenter, Prompt, Dequeue, Cancel, Continue, CloseThread, OtherCommand,
                GetIdle, GetTurn, Activate
  <2>2. CASE ActorStep
    BY <2>2 DEF ActorStep, SyncRow, Starting, Refused, Dispatch, Queueing, Dropping,
                Exiting, Closing
  <2>3. CASE Reaction
    BY <2>3 DEF Reaction, HandleEvent, HandleExit, FinishGet, RecoverRead, RecoverPrompt,
                Activate
  <2>4. CASE Provision
    BY <2>4 DEF Provision, ProvActivate, ProvRow, ProvReady, ProvError, ProvFailed,
                ProvReport
  <2>5. CASE HarnessStep
    BY <2>5 DEF HarnessStep, HSelfStart, HChunk, HFinish, HExit
  <2>6. CASE Server
    BY <2>6 DEF Server, Restore, BootScan, Stop, Halt, Crash, Start
  <2>7. QED
    BY <2>1, <2>2, <2>3, <2>4, <2>5, <2>6 DEF Next
<1>7. QED
  BY <1>2, <1>3, <1>4, <1>5, <1>6

\* What the harness has, it keeps from being sent again, at every step.
LEMMA HandedCorrect == Spec => [](Typing /\ Handed)
<1>1. Init => Handed
  <2>1. Init => Touched = {} /\ removed = {} /\ pc = "loop" /\ \A p \in Prompts : given[p] = 0
    BY DEF Init, Touched
  <2>2. QED
    BY <2>1 DEF Handed
<1>2. Typing /\ Placement /\ Handed /\ [Next]_vars => Handed'
  BY HandedStep
<1>3. QED
  BY <1>1, <1>2, PlacementCorrect, PTL DEF Spec

\* One harness process reads a prompt at most once, whether a turn, a steer or the queue
\* brings it, and never one a human took back out of the queue (actor.go cmdPrompt,
\* dispatchQueued, cmdDequeue; adapter.Steerer: "the actor never sends it again").
THEOREM NoPromptReadTwice == Spec => ReadAtMostOnce
<1>1. Typing /\ Handed => HandedOnce
  BY DEF Handed, HandedOnce, Typing, TypeOK, HarnessTypeOK
<1>2. Typing /\ Handed /\ [Next]_vars => [\A p \in removed : given'[p] <= given[p]]_vars
  BY RemovedUnread
<1>3. RemovedStaysUnread <=> [][\A p \in removed : given'[p] <= given[p]]_vars
  BY DEF RemovedStaysUnread
<1>4. QED
  BY <1>1, <1>2, <1>3, HandedCorrect, PTL DEF Spec, ReadAtMostOnce

-----------------------------------------------------------------------------
(* The busy guard and the harness.                                         *)

Begun(es, x) == {i \in DOMAIN es : es[i].kind = "started" /\ es[i].turn = x}
Ended(es, x) == {i \in DOMAIN es : es[i].kind = "finished" /\ es[i].turn = x}
NoneBegun(es, i, j) == \A m \in DOMAIN es : i < m /\ m < j => es[m].kind # "started"

\* The guard, once what the loop is at has been sent or closed.
Guard ==
  IF pc \in {"starting", "sending", "closing"} \/ ~sess THEN NoTurn ELSE turnActive

\* With a guard g, a harness at work on h and the events es on the channel: the event
\* that will make h guarded is behind the ones that release g, and what was released
\* is not on its way.
Matched(g, h, es) ==
  /\ h # NoTurn /\ g # h => Begun(es, h) # {}
  /\ g # NoTurn /\ g # h => \E k \in Ended(es, g) : h # NoTurn => \A m \in Begun(es, h) : k < m
  /\ h # NoTurn => Ended(es, h) = {}

\* A turn that begins on the channel ends on it before the next begins, unless it runs.
Bracketed(h, es) ==
  \A j \in DOMAIN es : es[j].kind = "started" =>
    \/ \E k \in Ended(es, es[j].turn) : j < k /\ NoneBegun(es, j, k)
    \/ es[j].turn = h /\ \A m \in DOMAIN es : j < m => es[m].kind # "started"

\* Turns are numbered as they begin.
Numbered ==
  /\ hturn <= born /\ turnActive <= born
  /\ \A i \in DOMAIN turns : turns[i].id <= born
  /\ \A i \in DOMAIN events : events[i].turn \in 1..born
  /\ pc \in {"starting", "sending"} =>
       /\ turnActive = job.turn /\ job.turn \in 1..born /\ job.turn # hturn
       /\ \A i \in DOMAIN events : events[i].turn # job.turn

\* What there is without a process, and what the loop is at only with one.
Runs ==
  /\ ~live => ~sess
  /\ ~sess => ~alive /\ events = <<>>
  /\ ~alive => hturn = NoTurn
  /\ pc \in {"starting", "sending", "closing"} => sess
  /\ pc = "dropping" /\ job.turn # NoTurn => ~sess

\* Before its process has closed what was interrupted, an actor guards nothing but that.
Resumes ==
  ~sess \/ pc = "closing" =>
    turnActive = NoTurn \/ \E i \in OpenAt(turns) : turns[i].id = turnActive

\* Until its harness is activated a new thread has no turn.
Creating ==
  prov = "activate" =>
    /\ live /\ ~sess /\ turns = <<>> /\ turnActive = NoTurn
    /\ row = "provisioning" /\ rowdue = "none" /\ gets = 0 /\ recs = 0 /\ held = 0
    /\ "create" \in Features /\ (pc = "dropping" => job.turn = NoTurn)

GuardInv == /\ Matched(Guard, hturn, events) /\ Bracketed(hturn, events)
            /\ Numbered /\ Runs /\ Resumes /\ Creating

-----------------------------------------------------------------------------
(* What the log writes and the channel do to turns.                        *)

\* A finish keeps the places and the numbers of all turns, and what is open but its own.
LEMMA FinishedTurns ==
  ASSUME Typing, NEW t, NEW stop, LogFinished(t, stop)
  PROVE  /\ DOMAIN turns' = DOMAIN turns
         /\ \A i \in DOMAIN turns : turns'[i].id = turns[i].id
         /\ \A i \in OpenAt(turns) : turns[i].id # t =>
              i \in OpenAt(turns') /\ turns'[i].id = turns[i].id
         /\ turnActive' = IF turnActive = t THEN NoTurn ELSE turnActive
<1>1. turns \in Seq(Turns)
  BY DEF Typing, TypeOK, LogTypeOK
<1>2. \A i \in DOMAIN turns : turns[i] \in Turns
  BY <1>1, ElementOfSeq
<1>3. \A i \in DOMAIN turns : [turns[i] EXCEPT !.stop = stop].id = turns[i].id
  BY <1>2 DEF Turns
<1>4. /\ DOMAIN turns' = DOMAIN turns
      /\ \A i \in DOMAIN turns :
           turns'[i] = IF turns[i].id = t THEN [turns[i] EXCEPT !.stop = stop] ELSE turns[i]
  BY DEF LogFinished
<1>5. QED
  BY <1>3, <1>4 DEF LogFinished, GuardAfter, OpenAt

\* A start adds one turn at the end.
LEMMA StartedTurns ==
  ASSUME Typing, NEW t, NEW p, NEW c, NEW a, NEW o, LogStarted(t, p, c, a, o)
  PROVE  \A i \in DOMAIN turns' :
           turns'[i].id = t \/ (i \in DOMAIN turns /\ turns'[i] = turns[i])
<1> DEFINE r == [id |-> t, prompt |-> p, cause |-> c, attempt |-> a, of |-> o,
                 stop |-> "open"]
<1>1. turns' = Append(turns, r) /\ r.id = t /\ turns \in Seq(Turns)
  BY DEF LogStarted, Typing, TypeOK, LogTypeOK
<1> HIDE DEF r
<1>2. /\ DOMAIN turns = 1..Len(turns) /\ DOMAIN turns' = 1..(Len(turns) + 1)
      /\ \A i \in 1..Len(turns) : turns'[i] = turns[i]
      /\ turns'[Len(turns) + 1] = r
      /\ Len(turns) \in Nat
  BY <1>1
<1>3. QED
  BY <1>1, <1>2

\* The guard of a restored actor is an open turn's.
LEMMA LastOpenIsOpen ==
  ASSUME NEW ts \in Seq(Turns)
  PROVE  LastOpen(ts) = NoTurn \/ \E i \in OpenAt(ts) : ts[i].id = LastOpen(ts)
<1>1. CASE OpenAt(ts) = {}
  BY <1>1 DEF LastOpen
<1>2. CASE OpenAt(ts) # {}
  <2>1. OpenAt(ts) \in SUBSET (1..Len(ts)) /\ Len(ts) \in Nat
    BY DEF OpenAt
  <2>2. \E i \in OpenAt(ts) : \A j \in OpenAt(ts) : j <= i
    BY <1>2, <2>1, LastPosition
  <2> DEFINE k == CHOOSE i \in OpenAt(ts) : \A j \in OpenAt(ts) : j <= i
  <2>3. k \in OpenAt(ts)
    BY <2>2
  <2> HIDE DEF k
  <2>4. LastOpen(ts) = ts[k].id
    BY <1>2 DEF LastOpen, k
  <2>5. QED
    BY <2>3, <2>4
<1>3. QED
  BY <1>1, <1>2

\* What is put on a channel is at its end.
LEMMA Appended ==
  ASSUME NEW es \in Seq(Events), NEW e
  PROVE  LET ns == Append(es, e)
         IN  /\ Len(es) \in Nat /\ DOMAIN es = 1..Len(es)
             /\ DOMAIN ns = 1..(Len(es) + 1) /\ ns[Len(es) + 1] = e
             /\ \A i \in DOMAIN es : i \in DOMAIN ns /\ ns[i] = es[i]
             /\ \A i \in DOMAIN ns : i \in DOMAIN es \/ i = Len(es) + 1
<1>1. QED
  OBVIOUS

\* What is taken off a channel was at its front.
LEMMA Taken ==
  ASSUME NEW es \in Seq(Events), es # <<>>
  PROVE  LET ns == Tail(es)
         IN  /\ 1 \in DOMAIN es /\ Head(es) = es[1]
             /\ DOMAIN es \subseteq Nat \ {0} /\ DOMAIN ns \subseteq Nat \ {0}
             /\ \A i \in DOMAIN ns : i + 1 \in DOMAIN es /\ ns[i] = es[i + 1]
             /\ \A i \in DOMAIN es : i = 1 \/ (i - 1 \in DOMAIN ns /\ ns[i - 1] = es[i])
<1>1. /\ DOMAIN es = 1..Len(es) /\ DOMAIN Tail(es) = 1..(Len(es) - 1)
      /\ \A i \in 1..(Len(es) - 1) : Tail(es)[i] = es[i + 1]
      /\ Head(es) = es[1] /\ Len(es) \in Nat \ {0}
  BY EmptySeq, HeadTailProperties
<1>2. \A i \in 1..(Len(es) - 1) : i + 1 \in 1..Len(es)
  BY <1>1
<1>3. \A i \in 1..Len(es) : i = 1 \/ (i - 1 \in 1..(Len(es) - 1) /\ (i - 1) + 1 = i)
  BY <1>1
<1>4. DOMAIN es \subseteq Nat \ {0} /\ DOMAIN Tail(es) \subseteq Nat \ {0} /\ 1 \in DOMAIN es
  BY <1>1
<1> HIDE DEF Seq
<1>5. QED
  BY <1>1, <1>2, <1>3, <1>4

\* A session goes with its actor, a process with its session, a turn with its process.
LEMMA RunsStep == Typing /\ Runs /\ [Next]_vars => Runs'
<1> SUFFICES ASSUME Typing, Runs, [Next]_vars PROVE Runs'
  OBVIOUS
<1> USE DEF logVars, managerVars, recoverVars, actorVars, harnessVars, historyVars
<1>1. CASE CloseThread
  BY <1>1 DEF CloseThread, OwePhase, Waiting, At, Runs
<1>2. CASE OtherCommand
  BY <1>2 DEF OtherCommand, Waiting, At, AfterCommand, Runs
<1>3. CASE GetIdle
  BY <1>3 DEF GetIdle, Activate, Waiting, At, Runs
<1>4. CASE GetTurn
  BY <1>4 DEF GetTurn, ReadTurnRow, Runs
<1>5. CASE SyncRow
  BY <1>5 DEF SyncRow, Runs
<1>6. CASE Sending
  BY <1>6 DEF Sending, At, AfterTurn, AfterCommand, Runs
<1>7. CASE Dispatch
  BY <1>7 DEF Dispatch, StartTurn, MayDispatch, At, Runs
<1>8. CASE FinishGet
  BY <1>8 DEF FinishGet, Activate, AfterCommand, Waiting, At, Runs
<1>9. CASE RecoverRead
  BY <1>9 DEF RecoverRead, Runs
<1>10. CASE RecoverPrompt
  BY <1>10 DEF RecoverPrompt, StartTurn, TakePlan, AfterCommand, Waiting, At, Runs
<1>11. CASE Continue
  BY <1>11 DEF Continue, StartTurn, TakePlan, AfterCommand, Waiting, At, Runs
<1>12. CASE BootScan
  BY <1>12 DEF BootScan, ReadTurnRow, Runs
<1>13. CASE ProvActivate
  BY <1>13 DEF ProvActivate, AfterCommand, Waiting, At, Runs
<1>14. CASE ProvRow
  BY <1>14 DEF ProvRow, Runs
<1>15. CASE ProvReady
  BY <1>15 DEF ProvReady, AfterCommand, Waiting, At, Runs
<1>16. CASE ProvError
  BY <1>16 DEF ProvError, Runs
<1>17. CASE ProvFailed
  BY <1>17 DEF ProvFailed, Runs
<1>18. CASE ProvReport
  BY <1>18 DEF ProvReport, AfterCommand, Waiting, At, Runs
<1>19. CASE Restore
  BY <1>19 DEF Restore, Runs
<1>20. CASE Stop
  BY <1>20 DEF Stop, Waiting, At, Runs
<1>21. CASE Halt
  BY <1>21 DEF Halt, Runs
<1>22. CASE Start
  BY <1>22 DEF Start, Runs
<1>23. CASE UNCHANGED vars
  BY <1>23 DEF vars, Runs
<1>24. CASE Exiting
  BY <1>24 DEF Exiting, ActorGone, At, Runs
<1>25. CASE Crash
  BY <1>25 DEF Crash, ActorGone, Runs
<1>26. CASE Refused
  BY <1>26 DEF Refused, At, AfterTurn, AfterCommand, Runs, LogFinished
<1>27. CASE Closing
  BY <1>27 DEF Closing, At, AfterCommand, Runs, LogFinished
<1>28. CASE HandleExit
  BY <1>28 DEF HandleExit, Waiting, At, Runs, LogFinished
<1>29. CASE HSelfStart
  BY <1>29 DEF HSelfStart, Running, Emit, Runs
<1>30. CASE HChunk
  BY <1>30 DEF HChunk, Running, Emit, Runs
<1>31. CASE HFinish
  BY <1>31 DEF HFinish, Running, Emit, Runs
<1>32. CASE HExit
  BY <1>32 DEF HExit, Emit, Runs
<1>33. CASE (\E q \in Prompts : HRead(q))
  BY <1>33 DEF HRead, Running, Emit, Runs
<1>34. CASE Cancel
  <2>1. /\ live /\ UNCHANGED <<live, sess, alive>> /\ pc' = "dropping"
        /\ job'.turn # NoTurn => ~sess
        /\ hturn' = hturn \/ hturn' = NoTurn
    BY <1>34 DEF Cancel, NoJob, Waiting, At
  <2>2. ~sess => UNCHANGED events
    BY <1>34 DEF Cancel
  <2>3. QED
    BY <2>1, <2>2 DEF Runs
<1>35. CASE (\E p \in Prompts : Prompt(p))
  BY <1>35 DEF Prompt, StartTurn, Waiting, At, Runs
<1>36. CASE Starting
  BY <1>36 DEF Starting, At, Runs, LogStarted
<1>37. CASE Queueing
  BY <1>37 DEF Queueing, At, AfterCommand, Runs
<1>38. CASE (\E q \in Prompts : Dequeue(q))
  BY <1>38 DEF Dequeue, AfterCommand, Waiting, At, Runs
<1>39. CASE Dropping
  BY <1>39 DEF Dropping, At, AfterCommand, Runs, LogFinished
<1>40. CASE HandleEvent
  BY <1>40 DEF HandleEvent, AfterCommand, Waiting, At, Runs, LogStarted, LogFinished,
     LogInjected, LogChunk
<1>41. QED
  BY <1>1, <1>2, <1>3, <1>4, <1>5, <1>6, <1>7, <1>8, <1>9, <1>10, <1>11, <1>12, <1>13,
     <1>14, <1>15, <1>16, <1>17, <1>18, <1>19, <1>20, <1>21, <1>22, <1>23, <1>24,
     <1>25, <1>26, <1>27, <1>28, <1>29, <1>30, <1>31, <1>32, <1>33, <1>34, <1>35,
     <1>36, <1>37, <1>38, <1>39, <1>40
  DEF Next, Presenter, ActorStep, Reaction, Provision, HarnessStep, Server

\* Until it has closed what was interrupted, an actor guards nothing else.
LEMMA ResumesStep == Typing /\ Runs /\ Resumes /\ [Next]_vars => Resumes'
<1> SUFFICES ASSUME Typing, Runs, Resumes, [Next]_vars PROVE Resumes'
  OBVIOUS
<1> USE DEF logVars, managerVars, recoverVars, actorVars, harnessVars, historyVars
<1>1. CASE CloseThread
  BY <1>1 DEF CloseThread, OwePhase, Waiting, At, Resumes, Runs
<1>2. CASE OtherCommand
  BY <1>2 DEF OtherCommand, Waiting, At, AfterCommand, Resumes, Runs
<1>3. CASE GetIdle
  BY <1>3 DEF GetIdle, Activate, Waiting, At, Resumes, Runs
<1>4. CASE GetTurn
  BY <1>4 DEF GetTurn, ReadTurnRow, Resumes, Runs
<1>5. CASE SyncRow
  BY <1>5 DEF SyncRow, Resumes, Runs
<1>6. CASE Sending
  BY <1>6 DEF Sending, At, AfterTurn, AfterCommand, Resumes, Runs
<1>7. CASE Dispatch
  BY <1>7 DEF Dispatch, StartTurn, MayDispatch, At, Resumes, Runs
<1>8. CASE FinishGet
  BY <1>8 DEF FinishGet, Activate, AfterCommand, Waiting, At, Resumes, Runs
<1>9. CASE RecoverRead
  BY <1>9 DEF RecoverRead, Resumes, Runs
<1>10. CASE RecoverPrompt
  BY <1>10 DEF RecoverPrompt, StartTurn, TakePlan, AfterCommand, Waiting, At, Resumes, Runs
<1>11. CASE Continue
  BY <1>11 DEF Continue, StartTurn, TakePlan, AfterCommand, Waiting, At, Resumes, Runs
<1>12. CASE BootScan
  BY <1>12 DEF BootScan, ReadTurnRow, Resumes, Runs
<1>13. CASE ProvActivate
  BY <1>13 DEF ProvActivate, AfterCommand, Waiting, At, Resumes, Runs
<1>14. CASE ProvRow
  BY <1>14 DEF ProvRow, Resumes, Runs
<1>15. CASE ProvReady
  BY <1>15 DEF ProvReady, AfterCommand, Waiting, At, Resumes, Runs
<1>16. CASE ProvError
  BY <1>16 DEF ProvError, Resumes, Runs
<1>17. CASE ProvFailed
  BY <1>17 DEF ProvFailed, Resumes, Runs
<1>18. CASE ProvReport
  BY <1>18 DEF ProvReport, AfterCommand, Waiting, At, Resumes, Runs
<1>19. CASE Restore
  <2>1. turns' = turns /\ (turnActive' = turnActive \/ turnActive' = LastOpen(turns))
    BY <1>19 DEF Restore
  <2>2. LastOpen(turns) = NoTurn \/ \E i \in OpenAt(turns) : turns[i].id = LastOpen(turns)
    BY LastOpenIsOpen DEF Typing, TypeOK, LogTypeOK
  <2>3. ~sess
    BY <1>19 DEF Restore, Runs
  <2>4. QED
    BY <2>1, <2>2, <2>3 DEF Resumes
<1>20. CASE Stop
  BY <1>20 DEF Stop, Waiting, At, Resumes, Runs
<1>21. CASE Halt
  BY <1>21 DEF Halt, Resumes, Runs
<1>22. CASE Start
  BY <1>22 DEF Start, Resumes, Runs
<1>23. CASE UNCHANGED vars
  BY <1>23 DEF vars, Resumes, Runs
<1>24. CASE Exiting
  BY <1>24 DEF Exiting, ActorGone, At, Resumes, Runs
<1>25. CASE Crash
  BY <1>25 DEF Crash, ActorGone, Resumes, Runs
<1>26. CASE Refused
  BY <1>26 DEF Refused, At, AfterTurn, AfterCommand, Resumes, Runs, LogFinished
<1>27. CASE Closing
  <2>1. CASE UNCHANGED <<turns, turnActive>> /\ sess' = sess /\ pc' = "tail" /\ sess
    BY <2>1 DEF Resumes
  <2>2. CASE \E t : LogFinished(t, "error")
    BY <1>27, <2>2, FinishedTurns DEF Closing, At, Resumes
  <2>3. QED
    BY <1>27, <2>1, <2>2 DEF Closing, At, AfterCommand, Runs
<1>28. CASE HandleExit
  BY <1>28 DEF HandleExit, Waiting, At, Resumes, Runs
<1>29. CASE HSelfStart
  BY <1>29 DEF HSelfStart, Running, Emit, Resumes, Runs
<1>30. CASE HChunk
  BY <1>30 DEF HChunk, Running, Emit, Resumes, Runs
<1>31. CASE HFinish
  BY <1>31 DEF HFinish, Running, Emit, Resumes, Runs
<1>32. CASE HExit
  BY <1>32 DEF HExit, Emit, Resumes, Runs
<1>33. CASE (\E q \in Prompts : HRead(q))
  BY <1>33 DEF HRead, Running, Emit, Resumes, Runs
<1>34. CASE Cancel
  BY <1>34 DEF Cancel, CancelledEvent, TakePlan, Waiting, At, Resumes, Runs
<1>35. CASE (\E p \in Prompts : Prompt(p))
  BY <1>35 DEF Prompt, StartTurn, Waiting, At, Resumes, Runs
<1>36. CASE Starting
  BY <1>36 DEF Starting, At, Resumes, Runs
<1>37. CASE Queueing
  BY <1>37 DEF Queueing, At, AfterCommand, Resumes, Runs
<1>38. CASE (\E q \in Prompts : Dequeue(q))
  BY <1>38 DEF Dequeue, AfterCommand, Waiting, At, Resumes, Runs
<1>39. CASE Dropping
  <2>1. pc = "dropping" /\ pc' # "closing" /\ sess' = sess
    BY <1>39 DEF Dropping, At, AfterCommand
  <2>2. CASE UNCHANGED <<turns, turnActive>>
    BY <2>1, <2>2 DEF Resumes
  <2>3. CASE LogFinished(job.turn, "cancelled")
    BY <2>1, <2>3, FinishedTurns DEF Resumes
  <2>4. QED
    BY <1>39, <2>2, <2>3 DEF Dropping
<1>40. CASE HandleEvent
  BY <1>40 DEF HandleEvent, AfterCommand, Waiting, At, Resumes, Runs
<1>41. QED
  BY <1>1, <1>2, <1>3, <1>4, <1>5, <1>6, <1>7, <1>8, <1>9, <1>10, <1>11, <1>12, <1>13,
     <1>14, <1>15, <1>16, <1>17, <1>18, <1>19, <1>20, <1>21, <1>22, <1>23, <1>24,
     <1>25, <1>26, <1>27, <1>28, <1>29, <1>30, <1>31, <1>32, <1>33, <1>34, <1>35,
     <1>36, <1>37, <1>38, <1>39, <1>40
  DEF Next, Presenter, ActorStep, Reaction, Provision, HarnessStep, Server

\* Only its activation ends a new thread's waiting for one: no row, no Get and no start
\* of the server reaches it before.
LEMMA CreatingStep == Typing /\ Runs /\ Creating /\ [Next]_vars => Creating'
<1> SUFFICES ASSUME Typing, Runs, Creating, [Next]_vars PROVE Creating'
  OBVIOUS
<1> USE DEF logVars, managerVars, recoverVars, actorVars, harnessVars, historyVars
<1>1. CASE CloseThread
  BY <1>1 DEF CloseThread, OwePhase, Waiting, At, Creating, Runs
<1>2. CASE OtherCommand
  BY <1>2 DEF OtherCommand, Waiting, At, AfterCommand, Creating, Runs
<1>3. CASE GetIdle
  BY <1>3 DEF GetIdle, Activate, Waiting, At, Creating, Runs
<1>4. CASE GetTurn
  BY <1>4 DEF GetTurn, ReadTurnRow, Creating, Runs
<1>5. CASE SyncRow
  BY <1>5 DEF SyncRow, Creating, Runs
<1>6. CASE Sending
  BY <1>6 DEF Sending, At, AfterTurn, AfterCommand, Creating, Runs
<1>7. CASE Dispatch
  BY <1>7 DEF Dispatch, StartTurn, MayDispatch, At, Creating, Runs
<1>8. CASE FinishGet
  BY <1>8 DEF FinishGet, Activate, AfterCommand, Waiting, At, Creating, Runs
<1>9. CASE RecoverRead
  BY <1>9 DEF RecoverRead, Creating, Runs
<1>10. CASE RecoverPrompt
  BY <1>10 DEF RecoverPrompt, StartTurn, TakePlan, AfterCommand, Waiting, At, Creating, Runs
<1>11. CASE Continue
  BY <1>11 DEF Continue, StartTurn, TakePlan, AfterCommand, Waiting, At, Creating, Runs
<1>12. CASE BootScan
  BY <1>12 DEF BootScan, ReadTurnRow, Creating, Runs
<1>13. CASE ProvActivate
  BY <1>13 DEF ProvActivate, AfterCommand, Waiting, At, Creating, Runs
<1>14. CASE ProvRow
  BY <1>14 DEF ProvRow, Creating, Runs
<1>15. CASE ProvReady
  BY <1>15 DEF ProvReady, AfterCommand, Waiting, At, Creating, Runs
<1>16. CASE ProvError
  BY <1>16 DEF ProvError, Creating, Runs
<1>17. CASE ProvFailed
  BY <1>17 DEF ProvFailed, Creating, Runs
<1>18. CASE ProvReport
  BY <1>18 DEF ProvReport, AfterCommand, Waiting, At, Creating, Runs
<1>19. CASE Restore
  BY <1>19 DEF Restore, Creating, Runs
<1>20. CASE Stop
  BY <1>20 DEF Stop, Waiting, At, Creating, Runs
<1>21. CASE Halt
  BY <1>21 DEF Halt, Creating, Runs
<1>22. CASE Start
  BY <1>22 DEF Start, Creating, Runs
<1>23. CASE UNCHANGED vars
  BY <1>23 DEF vars, Creating, Runs
<1>24. CASE Exiting
  BY <1>24 DEF Exiting, ActorGone, At, Creating, Runs
<1>25. CASE Crash
  BY <1>25 DEF Crash, ActorGone, Creating, Runs
<1>26. CASE Refused
  BY <1>26 DEF Refused, At, AfterTurn, AfterCommand, Creating, Runs
<1>27. CASE Closing
  BY <1>27 DEF Closing, At, AfterCommand, Creating, Runs
<1>28. CASE HandleExit
  BY <1>28 DEF HandleExit, Waiting, At, Creating, Runs
<1>29. CASE HSelfStart
  BY <1>29 DEF HSelfStart, Running, Emit, Creating, Runs
<1>30. CASE HChunk
  BY <1>30 DEF HChunk, Running, Emit, Creating, Runs
<1>31. CASE HFinish
  BY <1>31 DEF HFinish, Running, Emit, Creating, Runs
<1>32. CASE HExit
  BY <1>32 DEF HExit, Emit, Creating, Runs
<1>33. CASE (\E q \in Prompts : HRead(q))
  BY <1>33 DEF HRead, Running, Emit, Creating, Runs
<1>34. CASE Cancel
  <2> SUFFICES ASSUME prov' = "activate" PROVE Creating'
    BY DEF Creating
  <2>1. prov = "activate"
    BY <1>34 DEF Cancel
  <2>2. turnActive = NoTurn
    BY <2>1 DEF Creating
  <2>3. /\ UNCHANGED <<live, sess, turns, turnActive, row, rowdue, gets, recs, held>>
        /\ job' = NoJob
    BY <1>34, <2>2 DEF Cancel
  <2>4. QED
    BY <2>1, <2>3 DEF Creating, NoJob
<1>35. CASE (\E p \in Prompts : Prompt(p))
  BY <1>35 DEF Prompt, StartTurn, Waiting, At, Creating, Runs
<1>36. CASE Starting
  BY <1>36 DEF Starting, At, Creating, Runs
<1>37. CASE Queueing
  BY <1>37 DEF Queueing, At, AfterCommand, Creating, Runs
<1>38. CASE (\E q \in Prompts : Dequeue(q))
  BY <1>38 DEF Dequeue, AfterCommand, Waiting, At, Creating, Runs
<1>39. CASE Dropping
  BY <1>39 DEF Dropping, At, AfterCommand, Creating, Runs, LogFinished, NoTurn
<1>40. CASE HandleEvent
  BY <1>40 DEF HandleEvent, AfterCommand, Waiting, At, Creating, Runs
<1>41. QED
  BY <1>1, <1>2, <1>3, <1>4, <1>5, <1>6, <1>7, <1>8, <1>9, <1>10, <1>11, <1>12, <1>13,
     <1>14, <1>15, <1>16, <1>17, <1>18, <1>19, <1>20, <1>21, <1>22, <1>23, <1>24,
     <1>25, <1>26, <1>27, <1>28, <1>29, <1>30, <1>31, <1>32, <1>33, <1>34, <1>35,
     <1>36, <1>37, <1>38, <1>39, <1>40
  DEF Next, Presenter, ActorStep, Reaction, Provision, HarnessStep, Server

-----------------------------------------------------------------------------
(* The kinds of steps the guard is about.                                  *)

Sends == {"starting", "sending", "closing"}
\* Nothing happens to a turn.
Quietly ==
  /\ UNCHANGED <<turns, turnActive, hturn, events, born, sess>>
  /\ pc \in Sends \/ pc' \in Sends => UNCHANGED <<pc, job>>
\* A process is started for a thread without one.
Activates ==
  /\ ~sess /\ UNCHANGED <<turns, turnActive, hturn, events, born>>
  /\ pc' = "closing" \/ (pc' = "tail" /\ prov = "activate")
\* What was interrupted has been closed.
Closed ==
  /\ pc = "closing" /\ pc' = "tail" /\ OpenAt(turns) = {}
  /\ UNCHANGED <<turns, turnActive, hturn, events, born, sess>>
\* A turn is begun for a harness that is free.
Begins ==
  /\ \E p, c, a, o : StartTurn(p, c, a, o)
  /\ turnActive = NoTurn /\ sess /\ UNCHANGED <<turns, hturn, events, sess>>
\* The actor writes a finish itself.
Ends ==
  /\ \E t, s : LogFinished(t, s) /\ (t = turnActive \/ pc' = "closing" \/ ~sess)
  /\ pc \in Sends \/ ~sess \/ (hturn = NoTurn /\ events = <<>>)
  /\ pc' \notin {"starting", "sending"}
  /\ UNCHANGED <<hturn, events, born, sess>>
Gone == ActorGone /\ UNCHANGED <<turns, born>>

\* Every step is one of them, or a step the guard's proof goes into.
LEMMA StepKinds == Typing /\ Numbered /\ Runs /\ Creating /\ [Next]_vars =>
        \/ Quietly \/ Activates \/ Closed \/ Begins \/ Ends \/ Gone \/ Restore
        \/ Starting \/ Sending \/ HandleEvent \/ Cancel
        \/ HSelfStart \/ (\E q \in Prompts : HRead(q)) \/ HChunk \/ HFinish \/ HExit
<1> SUFFICES ASSUME Typing, Numbered, Runs, Creating, [Next]_vars
             PROVE
        \/ Quietly \/ Activates \/ Closed \/ Begins \/ Ends \/ Gone \/ Restore
        \/ Starting \/ Sending \/ HandleEvent \/ Cancel
        \/ HSelfStart \/ (\E q \in Prompts : HRead(q)) \/ HChunk \/ HFinish \/ HExit
  OBVIOUS
<1> USE DEF logVars, managerVars, recoverVars, actorVars, harnessVars, historyVars
<1>1. CASE CloseThread
  BY <1>1 DEF CloseThread, OwePhase, Waiting, At, Sends, Quietly
<1>2. CASE OtherCommand
  BY <1>2 DEF OtherCommand, Waiting, At, AfterCommand, Sends, Quietly
<1>3. CASE GetIdle
  BY <1>3 DEF GetIdle, Activate, Waiting, At, Activates, Creating
<1>4. CASE GetTurn
  BY <1>4 DEF GetTurn, ReadTurnRow, Sends, Quietly
<1>5. CASE SyncRow
  BY <1>5 DEF SyncRow, Sends, Quietly
<1>6. CASE Dispatch
  BY <1>6 DEF Dispatch, StartTurn, MayDispatch, At, Sends, Quietly, Begins
<1>7. CASE FinishGet
  BY <1>7 DEF FinishGet, Activate, AfterCommand, Waiting, At, Sends, Quietly, Activates
<1>8. CASE RecoverRead
  BY <1>8 DEF RecoverRead, Sends, Quietly
<1>9. CASE RecoverPrompt
  BY <1>9 DEF RecoverPrompt, StartTurn, TakePlan, AfterCommand, Waiting, At, Sends,
     Quietly, Begins
<1>10. CASE Continue
  BY <1>10 DEF Continue, StartTurn, TakePlan, AfterCommand, Waiting, At, Sends,
     Quietly, Begins
<1>11. CASE BootScan
  BY <1>11 DEF BootScan, ReadTurnRow, Sends, Quietly
<1>12. CASE ProvActivate
  BY <1>12 DEF ProvActivate, AfterCommand, Waiting, At, Activates, Creating
<1>13. CASE ProvRow
  BY <1>13 DEF ProvRow, Sends, Quietly
<1>14. CASE ProvReady
  BY <1>14 DEF ProvReady, AfterCommand, Waiting, At, Sends, Quietly
<1>15. CASE ProvError
  BY <1>15 DEF ProvError, Sends, Quietly
<1>16. CASE ProvFailed
  BY <1>16 DEF ProvFailed, Sends, Quietly
<1>17. CASE ProvReport
  BY <1>17 DEF ProvReport, AfterCommand, Waiting, At, Sends, Quietly
<1>18. CASE Stop
  BY <1>18 DEF Stop, Waiting, At, Sends, Quietly
<1>19. CASE Halt
  BY <1>19 DEF Halt, Sends, Quietly
<1>20. CASE Start
  BY <1>20 DEF Start, Sends, Quietly
<1>21. CASE UNCHANGED vars
  BY <1>21 DEF vars, Sends, Quietly
<1>22. CASE Exiting
  BY <1>22 DEF Exiting, ActorGone, At, Sends, Gone
<1>23. CASE Crash
  BY <1>23 DEF Crash, ActorGone, Sends, Gone
<1>24. CASE Refused
  BY <1>24 DEF Refused, At, AfterTurn, AfterCommand, Sends, Ends, Numbered
<1>25. CASE Closing
  BY <1>25 DEF Closing, At, AfterCommand, Sends, Ends, Closed
<1>26. CASE HandleExit
  BY <1>26 DEF HandleExit, Waiting, At, Sends, Quietly, Ends, Runs
<1>27. CASE (\E p \in Prompts : Prompt(p))
  BY <1>27 DEF Prompt, StartTurn, Waiting, At, Sends, Quietly, Begins
<1>28. CASE Queueing
  BY <1>28 DEF Queueing, At, AfterCommand, Sends, Quietly
<1>29. CASE (\E q \in Prompts : Dequeue(q))
  BY <1>29 DEF Dequeue, AfterCommand, Waiting, At, Sends, Quietly
<1>30. CASE Dropping
  BY <1>30 DEF Dropping, At, AfterCommand, Sends, Quietly, Ends, Runs
<1>31. QED
  BY <1>1, <1>2, <1>3, <1>4, <1>5, <1>6, <1>7, <1>8, <1>9, <1>10, <1>11, <1>12, <1>13,
     <1>14, <1>15, <1>16, <1>17, <1>18, <1>19, <1>20, <1>21, <1>22, <1>23, <1>24,
     <1>25, <1>26, <1>27, <1>28, <1>29, <1>30
  DEF Next, Presenter, ActorStep, Reaction, Provision, HarnessStep, Server

\* Every turn gets a number of its own.
LEMMA NumberedStep ==
  Typing /\ Numbered /\ Runs /\ Creating /\ [Next]_vars => Numbered'
<1> SUFFICES ASSUME Typing, Numbered, Runs, Creating, [Next]_vars PROVE Numbered'
  OBVIOUS
<1> USE DEF logVars, managerVars, recoverVars, actorVars, harnessVars, historyVars
<1>b. /\ born \in Nat /\ hturn \in Nat /\ turnActive \in Nat /\ job.turn \in Nat
      /\ \A i \in DOMAIN turns : turns[i].id \in Nat
      /\ events \in Seq(Events) /\ turns \in Seq(Turns)
  <2>1. turns \in Seq(Turns)
    BY DEF Typing, TypeOK, LogTypeOK
  <2>2. \A i \in DOMAIN turns : turns[i] \in Turns
    BY <2>1, ElementOfSeq
  <2>3. QED
    BY <2>1, <2>2 DEF Turns, Typing, TypeOK, HarnessTypeOK, ActorTypeOK, Jobs
<1>e. ASSUME NEW k, NEW t \in 1..born', NEW p, NEW s, Emit(k, t, p, s),
             born' \in Nat, born' >= born
      PROVE  /\ \A i \in DOMAIN events' : events'[i].turn \in 1..born'
             /\ \A i \in DOMAIN events' :
                  events'[i].turn = t \/ (i \in DOMAIN events /\ events'[i] = events[i])
  <2> DEFINE r == [kind |-> k, turn |-> t, prompt |-> p, stop |-> s]
  <2>1. events' = Append(events, r) /\ r.turn = t
    BY <1>e DEF Emit
  <2> HIDE DEF r
  <2>2. \A i \in DOMAIN events' :
          (i \in DOMAIN events /\ events'[i] = events[i]) \/ events'[i] = r
    BY <1>b, <2>1, Appended
  <2>3. \A i \in DOMAIN events : events[i].turn \in 1..born'
    BY <1>b, <1>e DEF Numbered
  <2>4. QED
    BY <1>e, <2>1, <2>2, <2>3
<1>1. CASE Quietly
  BY <1>1 DEF Quietly, Sends, Numbered
<1>2. CASE Activates \/ Closed
  BY <1>2 DEF Activates, Closed, Numbered
<1>3. CASE Begins
  <2>1. PICK p, c, a, o : StartTurn(p, c, a, o)
    BY <1>3 DEF Begins
  <2>2. /\ born' = born + 1 /\ turnActive' = born + 1 /\ job'.turn = born + 1
        /\ UNCHANGED <<turns, hturn, events>>
    BY <1>3, <2>1 DEF Begins, StartTurn
  <2>3. /\ \A i \in DOMAIN events : events[i].turn \in 1..born'
        /\ \A i \in DOMAIN events : events[i].turn # job'.turn
    BY <1>b, <2>2 DEF Numbered
  <2>4. \A i \in DOMAIN turns : turns[i].id <= born'
    BY <1>b, <2>2 DEF Numbered
  <2>5. hturn' <= born' /\ turnActive' <= born' /\ job'.turn \in 1..born' /\ job'.turn # hturn'
    BY <1>b, <2>2 DEF Numbered
  <2>6. QED
    BY <2>2, <2>3, <2>4, <2>5 DEF Numbered
<1>4. CASE Ends
  <2>1. PICK t, s : LogFinished(t, s)
    BY <1>4 DEF Ends
  <2>2. QED
    BY <1>4, <1>b, <2>1, FinishedTurns DEF Ends, Numbered, NoTurn
<1>5. CASE Gone
  BY <1>5, <1>b DEF Gone, ActorGone, Numbered, NoTurn
<1>6. CASE Restore
  <2>1. /\ UNCHANGED <<turns, hturn, events, born, pc, job>>
        /\ turnActive' = turnActive \/ turnActive' = LastOpen(turns)
        /\ ~live
    BY <1>6 DEF Restore
  <2>2. LastOpen(turns) = NoTurn \/ \E i \in OpenAt(turns) : turns[i].id = LastOpen(turns)
    BY <1>b, LastOpenIsOpen
  <2>3. LastOpen(turns) <= born
    BY <1>b, <2>2 DEF OpenAt, Numbered, NoTurn
  <2>4. pc \notin {"starting", "sending"}
    BY <2>1 DEF Runs
  <2>5. QED
    BY <1>b, <2>1, <2>3, <2>4 DEF Numbered
<1>7. CASE Starting
  <2>1. LogStarted(job.turn, job.prompt, job.cause, job.attempt, job.of)
    BY <1>7 DEF Starting
  <2>2. /\ UNCHANGED <<hturn, events, born, job>> /\ pc = "starting" /\ turnActive' = turnActive
    BY <1>7, <1>b, <2>1 DEF Starting, At, LogStarted, Numbered, NoTurn
  <2>3. \A i \in DOMAIN turns' :
          turns'[i].id = job.turn \/ (i \in DOMAIN turns /\ turns'[i] = turns[i])
    BY <2>1, StartedTurns
  <2>4. \A i \in DOMAIN turns' : turns'[i].id <= born
    BY <1>b, <2>2, <2>3 DEF Numbered
  <2>5. QED
    BY <2>2, <2>4 DEF Numbered
<1>8. CASE Sending
  BY <1>8, <1>b DEF Sending, At, AfterTurn, AfterCommand, Numbered
<1>9. CASE HandleEvent
  <2> DEFINE e == Head(events)
  <2>1. /\ events # <<>> /\ events' = Tail(events) /\ pc' = "tail"
        /\ UNCHANGED <<hturn, born>>
    BY <1>9 DEF HandleEvent, AfterCommand
  <2>2. /\ \A i \in DOMAIN events' : i + 1 \in DOMAIN events /\ events'[i] = events[i + 1]
        /\ 1 \in DOMAIN events /\ e = events[1]
    BY <1>b, <2>1, Taken
  <2>3. e.turn \in 1..born /\ \A i \in DOMAIN events' : events'[i].turn \in 1..born
    BY <2>2 DEF Numbered
  <2> HIDE DEF e
  <2>4. CASE LogStarted(e.turn, e.prompt, "harness", 0, NoTurn)
    <3>1. turnActive' \in {e.turn, turnActive}
      BY <2>4 DEF LogStarted
    <3>2. \A i \in DOMAIN turns' :
            turns'[i].id = e.turn \/ (i \in DOMAIN turns /\ turns'[i] = turns[i])
      BY <2>4, StartedTurns
    <3>3. \A i \in DOMAIN turns' : turns'[i].id <= born
      BY <1>b, <2>3, <3>2 DEF Numbered
    <3>4. QED
      BY <1>b, <2>1, <2>3, <3>1, <3>3 DEF Numbered
  <2>5. CASE LogFinished(e.turn, e.stop)
    BY <1>b, <2>1, <2>3, <2>5, FinishedTurns DEF Numbered, NoTurn
  <2>6. CASE UNCHANGED <<turns, turnActive>>
    BY <2>1, <2>3, <2>6 DEF Numbered
  <2>7. QED
    BY <1>9, <2>4, <2>5, <2>6 DEF HandleEvent, e, LogInjected, LogChunk
<1>10. CASE Cancel
  <2>1. UNCHANGED <<turns, turnActive, born>> /\ pc' = "dropping"
    BY <1>10 DEF Cancel
  <2>2. CASE UNCHANGED <<hturn, events>>
    BY <2>1, <2>2 DEF Numbered
  <2>3. CASE hturn # NoTurn /\ hturn' = NoTurn /\ Emit("finished", hturn, NoPrompt, "cancelled")
    <3>1. hturn \in 1..born'
      BY <1>b, <2>1, <2>3 DEF Numbered, NoTurn
    <3>2. \A i \in DOMAIN events' : events'[i].turn \in 1..born'
      BY <1>b, <1>e, <2>1, <2>3, <3>1
    <3>3. QED
      BY <1>b, <2>1, <2>3, <3>2 DEF Numbered, NoTurn
  <2>4. QED
    BY <1>10, <2>2, <2>3 DEF Cancel, CancelledEvent, Emit
<1>11. CASE HSelfStart \/ (\E q \in Prompts : HRead(q)) \/ HChunk \/ HFinish \/ HExit
  <2>1. UNCHANGED <<turns, turnActive, pc, job>>
    BY <1>11 DEF HSelfStart, HRead, HChunk, HFinish, HExit
  <2>2. CASE /\ hturn' \in {hturn, NoTurn} /\ born' = born
             /\ \/ UNCHANGED events
                \/ hturn # NoTurn /\ \E k, p, s : Emit(k, hturn, p, s)
    <3>1. /\ \A i \in DOMAIN events' : events'[i].turn \in 1..born'
          /\ \A i \in DOMAIN events' :
               \/ hturn # NoTurn /\ events'[i].turn = hturn
               \/ i \in DOMAIN events /\ events'[i] = events[i]
      <4>1. CASE UNCHANGED events
        BY <2>2, <4>1 DEF Numbered
      <4>2. CASE hturn # NoTurn /\ \E k, p, s : Emit(k, hturn, p, s)
        <5>1. hturn \in 1..born' /\ born' \in Nat /\ born' >= born
          BY <1>b, <2>2, <4>2 DEF Numbered, NoTurn
        <5>2. QED
          BY <1>e, <4>2, <5>1
      <4>3. QED
        BY <2>2, <4>1, <4>2
    <3>2. QED
      BY <1>b, <2>1, <2>2, <3>1 DEF Numbered, NoTurn
  <2>3. CASE hturn' = born + 1 /\ born' = born + 1 /\ \E k, p, s : Emit(k, born + 1, p, s)
    <3>1. /\ \A i \in DOMAIN events' : events'[i].turn \in 1..born'
          /\ \A i \in DOMAIN events' :
               \/ events'[i].turn = born + 1
               \/ i \in DOMAIN events /\ events'[i] = events[i]
      <4>1. born + 1 \in 1..born' /\ born' \in Nat /\ born' >= born
        BY <1>b, <2>3
      <4>2. QED
        BY <1>e, <2>3, <4>1
    <3>2. \A i \in DOMAIN turns : turns[i].id <= born'
      BY <1>b, <2>3 DEF Numbered
    <3>3. QED
      BY <1>b, <2>1, <2>3, <3>1, <3>2 DEF Numbered
  <2>4. QED
    BY <1>11, <2>2, <2>3 DEF HSelfStart, HRead, HChunk, HFinish, HExit
<1>12. QED
  BY <1>1, <1>2, <1>3, <1>4, <1>5, <1>6, <1>7, <1>8, <1>9, <1>10, <1>11, StepKinds

-----------------------------------------------------------------------------
(* The channel between guard and harness.                                  *)

\* A turn begins: its event is the last on the channel.
LEMMA EmitBegins ==
  ASSUME NEW es \in Seq(Events), NEW e, NEW g \in Nat, NEW x \in Nat \ {0},
         e.kind = "started", e.turn = x, g # x,
         \A i \in DOMAIN es : es[i].turn \notin {x, NoTurn},
         Matched(g, NoTurn, es), Bracketed(NoTurn, es)
  PROVE  Matched(g, x, Append(es, e)) /\ Bracketed(x, Append(es, e))
<1> DEFINE ns == Append(es, e)
<1>1. /\ Len(es) \in Nat /\ DOMAIN es = 1..Len(es)
      /\ DOMAIN ns = 1..(Len(es) + 1) /\ ns[Len(es) + 1] = e
      /\ \A i \in DOMAIN es : i \in DOMAIN ns /\ ns[i] = es[i]
      /\ \A i \in DOMAIN ns : i \in DOMAIN es \/ i = Len(es) + 1
  BY Appended
<1> HIDE DEF ns
<1>2. Begun(ns, x) = {Len(es) + 1} /\ Ended(ns, x) = {}
  BY <1>1 DEF Begun, Ended
<1>3. g # NoTurn => \E k \in Ended(ns, g) : k < Len(es) + 1
  BY <1>1 DEF Matched, Ended, NoTurn
<1>4. Matched(g, x, ns)
  BY <1>2, <1>3 DEF Matched
<1>5. ASSUME NEW j \in DOMAIN ns, ns[j].kind = "started"
      PROVE  \/ \E k \in Ended(ns, ns[j].turn) : j < k /\ NoneBegun(ns, j, k)
             \/ ns[j].turn = x /\ \A m \in DOMAIN ns : j < m => ns[m].kind # "started"
  <2>1. CASE j \in DOMAIN es
    <3>1. PICK k \in Ended(es, es[j].turn) : j < k /\ NoneBegun(es, j, k)
      BY <1>1, <1>5, <2>1 DEF Bracketed
    <3>2. k \in Ended(ns, ns[j].turn) /\ j < k /\ NoneBegun(ns, j, k)
      BY <1>1, <2>1, <3>1 DEF Ended, NoneBegun
    <3>3. QED
      BY <3>2
  <2>2. CASE j = Len(es) + 1
    BY <1>1, <2>2
  <2>3. QED
    BY <1>1, <2>1, <2>2
<1>6. QED
  BY <1>4, <1>5 DEF Bracketed, ns

\* A turn ends: the event that says so follows the one that began it.
LEMMA EmitEnds ==
  ASSUME NEW es \in Seq(Events), NEW e, NEW g \in Nat, NEW h \in Nat \ {0},
         e.kind = "finished", e.turn = h,
         Matched(g, h, es), Bracketed(h, es)
  PROVE  Matched(g, NoTurn, Append(es, e)) /\ Bracketed(NoTurn, Append(es, e))
<1> DEFINE ns == Append(es, e)
<1>1. /\ Len(es) \in Nat /\ DOMAIN es = 1..Len(es)
      /\ DOMAIN ns = 1..(Len(es) + 1) /\ ns[Len(es) + 1] = e
      /\ \A i \in DOMAIN es : i \in DOMAIN ns /\ ns[i] = es[i]
      /\ \A i \in DOMAIN ns : i \in DOMAIN es \/ i = Len(es) + 1
  BY Appended
<1> HIDE DEF ns
<1>2. Matched(g, NoTurn, ns)
  <2> SUFFICES ASSUME g # NoTurn PROVE Ended(ns, g) # {}
    BY DEF Matched
  <2>1. CASE g = h
    BY <1>1, <2>1 DEF Ended
  <2>2. CASE g # h
    BY <1>1, <2>2 DEF Matched, Ended
  <2>3. QED
    BY <2>1, <2>2
<1>3. ASSUME NEW j \in DOMAIN ns, ns[j].kind = "started"
      PROVE  \E k \in Ended(ns, ns[j].turn) : j < k /\ NoneBegun(ns, j, k)
  <2>1. j \in DOMAIN es /\ ns[j] = es[j]
    BY <1>1, <1>3
  <2>2. CASE \E k \in Ended(es, es[j].turn) : j < k /\ NoneBegun(es, j, k)
    <3>1. PICK k \in Ended(es, es[j].turn) : j < k /\ NoneBegun(es, j, k)
      BY <2>2
    <3>2. k \in Ended(ns, ns[j].turn) /\ j < k /\ NoneBegun(ns, j, k)
      BY <1>1, <2>1, <3>1 DEF Ended, NoneBegun
    <3>3. QED
      BY <3>2
  <2>3. CASE es[j].turn = h /\ \A m \in DOMAIN es : j < m => es[m].kind # "started"
    <3>1. /\ Len(es) + 1 \in Ended(ns, ns[j].turn) /\ j < Len(es) + 1
          /\ NoneBegun(ns, j, Len(es) + 1)
      BY <1>1, <2>1, <2>3 DEF Ended, NoneBegun
    <3>2. QED
      BY <3>1
  <2>4. QED
    BY <1>3, <2>1, <2>2, <2>3 DEF Bracketed
<1>4. QED
  BY <1>2, <1>3 DEF Bracketed, ns

\* What is neither a begin nor an end changes nothing.
LEMMA EmitOther ==
  ASSUME NEW es \in Seq(Events), NEW e, NEW g \in Nat, NEW h \in Nat,
         e.kind \notin {"started", "finished"},
         Matched(g, h, es), Bracketed(h, es)
  PROVE  Matched(g, h, Append(es, e)) /\ Bracketed(h, Append(es, e))
<1> DEFINE ns == Append(es, e)
<1>1. /\ Len(es) \in Nat /\ DOMAIN es = 1..Len(es)
      /\ DOMAIN ns = 1..(Len(es) + 1) /\ ns[Len(es) + 1] = e
      /\ \A i \in DOMAIN es : i \in DOMAIN ns /\ ns[i] = es[i]
      /\ \A i \in DOMAIN ns : i \in DOMAIN es \/ i = Len(es) + 1
  BY Appended
<1> HIDE DEF ns
<1>2. \A x : Begun(ns, x) = Begun(es, x) /\ Ended(ns, x) = Ended(es, x)
  BY <1>1 DEF Begun, Ended
<1>3. Matched(g, h, ns)
  BY <1>2 DEF Matched
<1>4. \A j \in DOMAIN es : \A k : NoneBegun(es, j, k) => NoneBegun(ns, j, k)
  BY <1>1 DEF NoneBegun
<1>5. \A j \in DOMAIN ns : ns[j].kind = "started" => j \in DOMAIN es /\ ns[j] = es[j]
  BY <1>1
<1>6. \A j \in DOMAIN es : (\A m \in DOMAIN es : j < m => es[m].kind # "started")
        => \A m \in DOMAIN ns : j < m => ns[m].kind # "started"
  BY <1>1
<1>7. QED
  BY <1>2, <1>3, <1>4, <1>5, <1>6 DEF Bracketed, ns

\* Taking an event off the front keeps the brackets of those behind it.
LEMMA TakeBracketed ==
  ASSUME NEW es \in Seq(Events), es # <<>>, NEW h, Bracketed(h, es)
  PROVE  Bracketed(h, Tail(es))
<1> DEFINE ns == Tail(es)
<1>1. /\ DOMAIN es \subseteq Nat \ {0} /\ DOMAIN ns \subseteq Nat \ {0}
      /\ \A i \in DOMAIN ns : i + 1 \in DOMAIN es /\ ns[i] = es[i + 1]
      /\ \A i \in DOMAIN es : i = 1 \/ (i - 1 \in DOMAIN ns /\ ns[i - 1] = es[i])
  BY Taken
<1> HIDE DEF ns
<1>2. ASSUME NEW j \in DOMAIN ns, ns[j].kind = "started"
      PROVE  \/ \E k \in Ended(ns, ns[j].turn) : j < k /\ NoneBegun(ns, j, k)
             \/ ns[j].turn = h /\ \A m \in DOMAIN ns : j < m => ns[m].kind # "started"
  <2>1. j + 1 \in DOMAIN es /\ es[j + 1] = ns[j] /\ j \in Nat
    BY <1>1
  <2>2. CASE \E k \in Ended(es, es[j + 1].turn) : j + 1 < k /\ NoneBegun(es, j + 1, k)
    <3>1. PICK k \in Ended(es, es[j + 1].turn) : j + 1 < k /\ NoneBegun(es, j + 1, k)
      BY <2>2
    <3>2. k \in DOMAIN es /\ k \in Nat /\ k # 1
      BY <1>1, <2>1, <3>1 DEF Ended
    <3>3. k - 1 \in Ended(ns, ns[j].turn) /\ j < k - 1
      BY <1>1, <2>1, <3>1, <3>2 DEF Ended
    <3>4. NoneBegun(ns, j, k - 1)
      BY <1>1, <2>1, <3>1, <3>2 DEF NoneBegun
    <3>5. QED
      BY <3>3, <3>4
  <2>3. CASE /\ es[j + 1].turn = h
             /\ \A m \in DOMAIN es : j + 1 < m => es[m].kind # "started"
    BY <1>1, <2>1, <2>3
  <2>4. QED
    BY <1>2, <2>1, <2>2, <2>3 DEF Bracketed
<1>3. QED
  BY <1>2 DEF Bracketed, ns

\* The actor takes the event that begins a turn: the turn is guarded from now on, or
\* what is guarded already ends before the harness's own begins.
LEMMA TakeBegins ==
  ASSUME NEW es \in Seq(Events), es # <<>>, NEW g \in Nat, NEW h \in Nat,
         Head(es).kind = "started", Head(es).turn # NoTurn,
         Matched(g, h, es), Bracketed(h, es)
  PROVE  Matched(IF g = NoTurn THEN Head(es).turn ELSE g, h, Tail(es))
<1> DEFINE ns == Tail(es)
           x  == Head(es).turn
<1>1. /\ 1 \in DOMAIN es /\ Head(es) = es[1]
      /\ DOMAIN es \subseteq Nat \ {0} /\ DOMAIN ns \subseteq Nat \ {0}
      /\ \A i \in DOMAIN ns : i + 1 \in DOMAIN es /\ ns[i] = es[i + 1]
      /\ \A i \in DOMAIN es : i = 1 \/ (i - 1 \in DOMAIN ns /\ ns[i - 1] = es[i])
  BY Taken
<1>2. es[1].kind = "started" /\ es[1].turn = x
  BY <1>1
<1> HIDE DEF ns, x
<1>3. /\ \A y : \A k \in Ended(es, y) : k - 1 \in Ended(ns, y) /\ k # 1 /\ k \in Nat
      /\ \A y : \A m \in Begun(ns, y) : m + 1 \in Begun(es, y) /\ m \in Nat
      /\ \A y : \A m \in Begun(es, y) : y # x => m - 1 \in Begun(ns, y)
      /\ \A y : Ended(es, y) = {} => Ended(ns, y) = {}
  BY <1>1, <1>2 DEF Begun, Ended
<1>4. CASE g = NoTurn
  <2>1. h # NoTurn /\ x # h => Begun(ns, h) # {}
    BY <1>3, <1>4 DEF Matched
  <2>2. x # h => \E k \in Ended(ns, x) : h # NoTurn => \A m \in Begun(ns, h) : k < m
    <3> SUFFICES ASSUME x # h
                 PROVE  \E k \in Ended(ns, x) : h # NoTurn => \A m \in Begun(ns, h) : k < m
      OBVIOUS
    <3>1. CASE \E k \in Ended(es, x) : 1 < k /\ NoneBegun(es, 1, k)
      <4>1. PICK k \in Ended(es, x) : 1 < k /\ NoneBegun(es, 1, k)
        BY <3>1
      <4>2. ASSUME NEW m \in Begun(ns, h) PROVE k - 1 < m
        <5>1. m + 1 \in DOMAIN es /\ es[m + 1].kind = "started" /\ m \in Nat /\ m # 0
          BY <1>1, <4>2 DEF Begun
        <5>2. ~ (m + 1 < k) /\ m + 1 # k
          BY <4>1, <5>1 DEF NoneBegun, Ended
        <5>3. k \in Nat
          BY <1>3
        <5>4. QED
          BY <5>1, <5>2, <5>3
      <4>3. QED
        BY <1>3, <4>2
    <3>2. QED
      BY <1>1, <1>2, <3>1 DEF Bracketed
  <2>3. h # NoTurn => Ended(ns, h) = {}
    BY <1>3 DEF Matched
  <2>4. QED
    BY <1>4, <2>1, <2>2, <2>3 DEF Matched, x, ns
<1>5. CASE g # NoTurn
  <2>1. g # h => \E k \in Ended(ns, g) : h # NoTurn => \A m \in Begun(ns, h) : k < m
    <3> SUFFICES ASSUME g # h
                 PROVE  \E k \in Ended(ns, g) : h # NoTurn => \A m \in Begun(ns, h) : k < m
      OBVIOUS
    <3>1. PICK k \in Ended(es, g) : h # NoTurn => \A m \in Begun(es, h) : k < m
      BY <1>5 DEF Matched
    <3>2. \A m \in Begun(ns, h) : k < m + 1 => k - 1 < m
      BY <1>3
    <3>3. QED
      BY <1>3, <3>1, <3>2
  <2>2. h # NoTurn /\ g # h => Begun(ns, h) # {}
    <3> SUFFICES ASSUME h # NoTurn, g # h PROVE h # x
      BY <1>3 DEF Matched
    <3>1. PICK k \in Ended(es, g) : \A m \in Begun(es, h) : k < m
      BY <1>5 DEF Matched
    <3>2. k \in Nat /\ k # 0
      BY <1>1 DEF Ended
    <3>3. 1 \notin Begun(es, h)
      BY <3>1, <3>2
    <3>4. QED
      BY <1>1, <1>2, <3>3 DEF Begun
  <2>3. h # NoTurn => Ended(ns, h) = {}
    BY <1>3 DEF Matched
  <2>4. QED
    BY <1>5, <2>1, <2>2, <2>3 DEF Matched, ns
<1>6. QED
  BY <1>4, <1>5

\* The actor takes any other event: a finish releases its own turn's guard, which is
\* not the harness's.
LEMMA TakeOther ==
  ASSUME NEW es \in Seq(Events), es # <<>>, NEW g \in Nat, NEW h \in Nat,
         Head(es).kind # "started", Matched(g, h, es)
  PROVE  Matched(IF Head(es).kind = "finished" /\ g = Head(es).turn THEN NoTurn ELSE g,
                 h, Tail(es))
<1> DEFINE ns == Tail(es)
           x  == Head(es).turn
<1>1. /\ 1 \in DOMAIN es /\ Head(es) = es[1]
      /\ DOMAIN es \subseteq Nat \ {0} /\ DOMAIN ns \subseteq Nat \ {0}
      /\ \A i \in DOMAIN ns : i + 1 \in DOMAIN es /\ ns[i] = es[i + 1]
      /\ \A i \in DOMAIN es : i = 1 \/ (i - 1 \in DOMAIN ns /\ ns[i - 1] = es[i])
  BY Taken
<1>2. es[1].kind # "started" /\ es[1].turn = x
  BY <1>1
<1> HIDE DEF ns, x
<1>3. /\ \A y : \A k \in Begun(es, y) : k - 1 \in Begun(ns, y)
      /\ \A y : \A m \in Begun(ns, y) : m + 1 \in Begun(es, y) /\ m \in Nat
      /\ \A y : \A k \in Ended(es, y) : k \in Nat
      /\ \A y : Ended(es, y) = {} => Ended(ns, y) = {}
  BY <1>1, <1>2 DEF Begun, Ended
<1>4. h # NoTurn => Ended(ns, h) = {}
  BY <1>3 DEF Matched
<1>5. CASE es[1].kind = "finished" /\ g = x
  <2>1. h # NoTurn => h # x
    BY <1>1, <1>2, <1>5 DEF Matched, Ended
  <2>2. h # NoTurn => Begun(ns, h) # {}
    BY <1>3, <1>5, <2>1 DEF Matched
  <2>3. Matched(NoTurn, h, ns)
    BY <1>4, <2>2 DEF Matched
  <2>4. QED
    BY <1>1, <1>5, <2>3 DEF x, ns
<1>6. CASE ~ (es[1].kind = "finished" /\ g = x)
  <2>1. g # NoTurn /\ g # h =>
          \E k \in Ended(ns, g) : h # NoTurn => \A m \in Begun(ns, h) : k < m
    <3> SUFFICES ASSUME g # NoTurn, g # h
                 PROVE  \E k \in Ended(ns, g) : h # NoTurn => \A m \in Begun(ns, h) : k < m
      OBVIOUS
    <3>1. PICK k \in Ended(es, g) : h # NoTurn => \A m \in Begun(es, h) : k < m
      BY DEF Matched
    <3>2. k # 1
      BY <1>2, <1>6 DEF Ended
    <3>3. k - 1 \in Ended(ns, g)
      BY <1>1, <3>2 DEF Ended
    <3>4. \A m \in Begun(ns, h) : k < m + 1 => k - 1 < m
      BY <1>3
    <3>5. QED
      BY <1>3, <3>1, <3>3, <3>4
  <2>2. Matched(g, h, ns)
    BY <1>3, <1>4, <2>1 DEF Matched
  <2>3. QED
    BY <1>1, <1>6, <2>2 DEF x, ns
<1>7. QED
  BY <1>5, <1>6

\* Every step keeps guard and harness matched.
LEMMA MatchStep ==
  Typing /\ GuardInv /\ [Next]_vars =>
    Matched(Guard', hturn', events') /\ Bracketed(hturn', events')
<1> SUFFICES ASSUME Typing, GuardInv, [Next]_vars
             PROVE  Matched(Guard', hturn', events') /\ Bracketed(hturn', events')
  OBVIOUS
<1> USE DEF logVars, managerVars, recoverVars, actorVars, harnessVars, historyVars
<1>m. /\ Matched(Guard, hturn, events) /\ Bracketed(hturn, events)
      /\ Numbered /\ Runs /\ Resumes /\ Creating
  BY DEF GuardInv
<1>b. /\ events \in Seq(Events) /\ born \in Nat /\ hturn \in Nat /\ turnActive \in Nat
      /\ \A i \in DOMAIN events : events[i].turn # NoTurn
      /\ Guard \in Nat /\ Guard <= born
  BY <1>m DEF Numbered, Guard, NoTurn, Typing, TypeOK, HarnessTypeOK, ActorTypeOK
<1>e. \A h : Matched(NoTurn, NoTurn, <<>>) /\ Bracketed(h, <<>>)
  BY DEF Matched, Bracketed
<1>f. Matched(Guard, hturn, events) => Matched(NoTurn, NoTurn, events)
  BY DEF Matched
<1>1. CASE Quietly
  <2>1. Guard' = Guard
    BY <1>1 DEF Quietly, Sends, Guard
  <2>2. QED
    BY <1>m, <1>1, <2>1 DEF Quietly
<1>2. CASE Activates
  <2>1. events = <<>> /\ hturn = NoTurn
    BY <1>m, <1>2 DEF Activates, Runs
  <2>2. Guard' = NoTurn
    BY <1>m, <1>2 DEF Activates, Creating, Guard
  <2>3. QED
    BY <1>2, <1>e, <2>1, <2>2 DEF Activates
<1>3. CASE Closed
  <2>1. turnActive = NoTurn
    BY <1>m, <1>3 DEF Closed, Resumes
  <2>2. Guard = NoTurn /\ Guard' = NoTurn
    BY <1>3, <2>1 DEF Closed, Guard
  <2>3. QED
    BY <1>m, <1>3, <2>2 DEF Closed
<1>4. CASE Begins
  <2>1. Guard = NoTurn /\ Guard' = NoTurn
    BY <1>4 DEF Begins, StartTurn, Guard
  <2>2. QED
    BY <1>m, <1>4, <2>1 DEF Begins
<1>5. CASE Ends
  <2>1. PICK t, s : LogFinished(t, s) /\ (t = turnActive \/ pc' = "closing" \/ ~sess)
    BY <1>5 DEF Ends
  <2>2. Guard' = NoTurn
    BY <1>5, <2>1 DEF Ends, LogFinished, GuardAfter, Guard
  <2>3. Matched(NoTurn, hturn, events)
    BY <1>m, <1>5 DEF Ends, Sends, Guard, Matched
  <2>4. QED
    BY <1>m, <1>5, <2>2, <2>3 DEF Ends
<1>6. CASE Gone
  <2>1. Guard' = NoTurn /\ hturn' = NoTurn /\ events' = <<>>
    BY <1>6 DEF Gone, ActorGone, Guard
  <2>2. QED
    BY <1>e, <2>1
<1>7. CASE Restore
  <2>1. Guard = NoTurn /\ Guard' = NoTurn /\ UNCHANGED <<hturn, events>>
    BY <1>m, <1>7 DEF Restore, Runs, Guard
  <2>2. QED
    BY <1>m, <2>1
<1>8. CASE Starting
  <2>1. Guard = NoTurn /\ Guard' = NoTurn /\ UNCHANGED <<hturn, events>>
    BY <1>8 DEF Starting, At, Guard
  <2>2. QED
    BY <1>m, <2>1
<1>9. CASE Sending
  <2>1. /\ hturn = NoTurn /\ hturn' = job.turn /\ events' = events
        /\ pc = "sending" /\ pc' \in {"loop", "tail"} /\ UNCHANGED <<sess, turnActive>>
    BY <1>9 DEF Sending, At, AfterTurn, AfterCommand
  <2>2. /\ sess /\ turnActive = job.turn
        /\ \A i \in DOMAIN events : events[i].turn # job.turn
    BY <1>m, <2>1 DEF Runs, Numbered
  <2>3. Guard' = job.turn
    BY <2>1, <2>2 DEF Guard
  <2>4. Matched(job.turn, job.turn, events)
    BY <2>2 DEF Matched, Ended
  <2>5. Bracketed(job.turn, events)
    BY <1>m, <1>b, <2>1 DEF Bracketed
  <2>6. QED
    BY <2>1, <2>3, <2>4, <2>5
<1>10. CASE HandleEvent
  <2>1. /\ events # <<>> /\ events' = Tail(events) /\ hturn' = hturn
        /\ pc = "loop" /\ pc' = "tail" /\ sess /\ sess' = sess
    BY <1>10 DEF HandleEvent, AfterCommand, Waiting, At
  <2>2. Guard = turnActive /\ Guard' = turnActive'
    BY <2>1 DEF Guard
  <2>3. Bracketed(hturn', events')
    BY <1>m, <1>b, <2>1, TakeBracketed
  <2>4. Head(events).turn # NoTurn
    BY <1>b, <2>1, Taken
  <2>5. CASE /\ Head(events).kind = "started"
             /\ \E p, c, a, o : LogStarted(Head(events).turn, p, c, a, o)
    <3>1. turnActive' = IF turnActive = NoTurn THEN Head(events).turn ELSE turnActive
      BY <2>5 DEF LogStarted
    <3>2. QED
      BY <1>m, <1>b, <2>1, <2>2, <2>3, <2>4, <2>5, <3>1, TakeBegins
  <2>6. CASE /\ Head(events).kind # "started"
             /\ turnActive' = IF Head(events).kind = "finished" /\ turnActive = Head(events).turn
                              THEN NoTurn ELSE turnActive
    BY <1>m, <1>b, <2>1, <2>2, <2>3, <2>6, TakeOther
  <2>7. QED
    BY <1>10, <2>5, <2>6 DEF HandleEvent, LogFinished, GuardAfter, LogInjected, LogChunk
<1>11. CASE Cancel
  <2>1. Guard' = Guard
    BY <1>11 DEF Cancel, Waiting, At, Guard
  <2>2. CASE UNCHANGED <<hturn, events>>
    BY <1>m, <2>1, <2>2
  <2>3. CASE hturn # NoTurn /\ hturn' = NoTurn /\ CancelledEvent
    <3> DEFINE e == [kind |-> "finished", turn |-> hturn, prompt |-> NoPrompt,
                     stop |-> "cancelled"]
    <3>1. events' = Append(events, e) /\ e.kind = "finished" /\ e.turn = hturn
      BY <2>3 DEF CancelledEvent
    <3> HIDE DEF e
    <3>2. QED
      BY <1>m, <1>b, <2>1, <2>3, <3>1, EmitEnds DEF NoTurn
  <2>4. QED
    BY <1>11, <2>2, <2>3 DEF Cancel
<1>12. CASE HSelfStart \/ (\E q \in Prompts : HRead(q)) \/ HChunk \/ HFinish \/ HExit
  <2>1. Guard' = Guard
    BY <1>12 DEF HSelfStart, HRead, HChunk, HFinish, HExit, Guard
  <2>2. CASE UNCHANGED <<hturn, events>>
    BY <1>m, <2>1, <2>2
  <2>3. CASE /\ hturn # NoTurn /\ hturn' = NoTurn
             /\ \E s : Emit("finished", hturn, NoPrompt, s)
    <3>1. PICK s : Emit("finished", hturn, NoPrompt, s)
      BY <2>3
    <3> DEFINE e == [kind |-> "finished", turn |-> hturn, prompt |-> NoPrompt, stop |-> s]
    <3>2. events' = Append(events, e) /\ e.kind = "finished" /\ e.turn = hturn
      BY <3>1 DEF Emit
    <3> HIDE DEF e
    <3>3. QED
      BY <1>m, <1>b, <2>1, <2>3, <3>2, EmitEnds DEF NoTurn
  <2>4. CASE /\ hturn' = hturn
             /\ \E k \in {"injected", "chunk"} : \E p, s : Emit(k, hturn, p, s)
    <3>1. PICK k \in {"injected", "chunk"} : \E p, s : Emit(k, hturn, p, s)
      BY <2>4
    <3>2. PICK p, s : Emit(k, hturn, p, s)
      BY <3>1
    <3> DEFINE e == [kind |-> k, turn |-> hturn, prompt |-> p, stop |-> s]
    <3>3. events' = Append(events, e) /\ e.kind \notin {"started", "finished"}
      BY <3>2 DEF Emit
    <3> HIDE DEF e
    <3>4. QED
      BY <1>m, <1>b, <2>1, <2>4, <3>3, EmitOther
  <2>5. CASE /\ hturn = NoTurn /\ hturn' = born + 1
             /\ \E p, s : Emit("started", born + 1, p, s)
    <3>1. PICK p, s : Emit("started", born + 1, p, s)
      BY <2>5
    <3> DEFINE e == [kind |-> "started", turn |-> born + 1, prompt |-> p, stop |-> s]
    <3>2. events' = Append(events, e) /\ e.kind = "started" /\ e.turn = born + 1
      BY <3>1 DEF Emit
    <3> HIDE DEF e
    <3>3. \A i \in DOMAIN events : events[i].turn \notin {born + 1, NoTurn}
      BY <1>m, <1>b DEF Numbered
    <3>4. born + 1 \in Nat \ {0} /\ Guard # born + 1
      BY <1>b
    <3>5. QED
      BY <1>m, <1>b, <2>1, <2>5, <3>2, <3>3, <3>4, EmitBegins
  <2>6. QED
    BY <1>12, <2>2, <2>3, <2>4, <2>5 DEF HSelfStart, HRead, HChunk, HFinish, HExit
<1>13. QED
  BY <1>m, <1>1, <1>2, <1>3, <1>4, <1>5, <1>6, <1>7, <1>8, <1>9, <1>10, <1>11, <1>12,
     StepKinds

\* The inductive invariant holds at every step.
LEMMA GuardCorrect == Spec => [](Typing /\ GuardInv)
<1>1. Init => GuardInv
  <2> SUFFICES ASSUME Init PROVE GuardInv
    OBVIOUS
  <2>1. Guard = NoTurn /\ hturn = NoTurn /\ events = <<>>
    BY DEF Init, Guard
  <2>2. Matched(Guard, hturn, events) /\ Bracketed(hturn, events)
    BY <2>1 DEF Matched, Bracketed
  <2>3. Numbered
    BY DEF Init, Numbered, NoTurn
  <2>4. Runs /\ Resumes
    BY DEF Init, Runs, Resumes, NoTurn
  <2>5. Creating
    BY DEF Init, Creating
  <2>6. QED
    BY <2>2, <2>3, <2>4, <2>5 DEF GuardInv
<1>2. Typing /\ GuardInv /\ [Next]_vars => GuardInv'
  <2> SUFFICES ASSUME Typing, GuardInv, [Next]_vars PROVE GuardInv'
    OBVIOUS
  <2>1. Numbered /\ Runs /\ Resumes /\ Creating
    BY DEF GuardInv
  <2>2. Numbered' /\ Runs' /\ Resumes' /\ Creating'
    BY <2>1, NumberedStep, RunsStep, ResumesStep, CreatingStep
  <2>3. Matched(Guard', hturn', events') /\ Bracketed(hturn', events')
    BY MatchStep
  <2>4. QED
    BY <2>2, <2>3 DEF GuardInv
<1>3. QED
  BY <1>1, <1>2, PlacementCorrect, PTL DEF Spec

\* The busy guard covers exactly the harness's work, whatever order the turns of
\* presenters, of the queue and of the harness itself start and end in, and whatever is
\* refused, cancelled, crashes or is restored between (actor.go emit, handleEvent,
\* handleExit, cmdCancel; claude.go ensureTurn, handleReplay).
THEOREM GuardIsTheWork == Spec => []GuardMatchesWork
<1>1. GuardInv => WorkIsGuarded
  <2> SUFFICES ASSUME GuardInv, hturn # NoTurn, turnActive # hturn
               PROVE  \E i \in DOMAIN events :
                        events[i].kind = "started" /\ events[i].turn = hturn
    BY DEF WorkIsGuarded
  <2>1. Guard # hturn
    BY DEF Guard
  <2>2. QED
    BY <2>1 DEF GuardInv, Matched, Begun
<1>2. GuardInv => GuardIsReleased
  <2> SUFFICES ASSUME GuardInv, Waiting, sess, turnActive # NoTurn, hturn # turnActive
               PROVE  \E i \in DOMAIN events :
                        events[i].kind = "finished" /\ events[i].turn = turnActive
    BY DEF GuardIsReleased
  <2>1. Guard = turnActive
    BY DEF Guard, Waiting, At
  <2>2. QED
    BY <2>1 DEF GuardInv, Matched, Ended
<1>3. GuardInv => GuardMatchesWork
  BY <1>1, <1>2 DEF GuardMatchesWork
<1>4. QED
  BY <1>3, GuardCorrect, PTL

-----------------------------------------------------------------------------
(* The continuation of interrupted work.                                   *)

\* A number is given to one turn, and its start is told once.
Told(es, ts) ==
  \A i \in DOMAIN es : es[i].kind = "started" =>
    /\ \A j \in DOMAIN ts : ts[j].id # es[i].turn
    /\ \A j \in Begun(es, es[i].turn) : j = i
Distinctly ==
  /\ \A i, j \in DOMAIN turns : turns[i].id = turns[j].id => i = j
  /\ Told(events, turns)
  /\ pc = "starting" => \A j \in DOMAIN turns : turns[j].id # job.turn

\* Who may still ask for a continuation.
Asking ==
  /\ held > 0 => sess
  /\ recs > 0 => sess \/ (closed /\ ~recovering)
  /\ ~live => recs = 0 /\ ~recovering
  /\ closed /\ pc # "exiting" => ~recovering

\* The turn that goes to the end of the log next is not the queue's: it is the one the
\* loop is about to write, or the plan keeps the queue back while nobody works.
Ahead ==
  IF pc = "starting" THEN job.cause # "queue"
  ELSE recovering /\ (sess /\ pc # "closing" => turnActive = NoTurn)

\* The turn o is in the log ts, and what follows it there, or will if w, is not the
\* queue's.
Behind(ts, o, w) ==
  \E i \in DOMAIN ts :
    /\ ts[i].id = o
    /\ i < Len(ts) => ts[i + 1].cause # "queue"
    /\ i = Len(ts) => w
Planned ==
  recovering \/ held > 0 => plan.attempt <= MaxAttempts /\ Behind(turns, plan.of, Ahead)

\* A continuation, about to be written or written, is of a turn before it.
Precedes(ts, k, o) ==
  \E i \in 1..(k - 1) : ts[i].id = o /\ (i + 1 < k => ts[i + 1].cause # "queue")
Continues ==
  pc = "starting" /\ job.cause = "restart" =>
    job.attempt <= MaxAttempts /\ Precedes(turns, Len(turns) + 1, job.of)
Continued ==
  \A k \in DOMAIN turns : turns[k].cause = "restart" =>
    turns[k].attempt <= MaxAttempts /\ Precedes(turns, k, turns[k].of)

OrderInv == Distinctly /\ Asking /\ Planned /\ Continues /\ Continued

\* The turns ns begin with those of ts, open or not.
Prolongs(ts, ns) ==
  /\ Len(ts) <= Len(ns)
  /\ \A i \in DOMAIN ts : /\ ns[i].id = ts[i].id /\ ns[i].cause = ts[i].cause
                          /\ ns[i].attempt = ts[i].attempt /\ ns[i].of = ts[i].of
Kept == Prolongs(turns, turns') /\ Len(turns') = Len(turns)

\* A finish keeps the turns, whatever it finishes.
LEMMA FinishedKept ==
  ASSUME Typing, NEW t, NEW stop, LogFinished(t, stop)
  PROVE  Kept
<1> DEFINE e(i) == IF turns[i].id = t THEN [turns[i] EXCEPT !.stop = stop]
                   ELSE turns[i]
<1>1. DOMAIN turns = 1..Len(turns) /\ Len(turns) \in Nat /\ turns \in Seq(Turns)
  BY DEF Typing, TypeOK, LogTypeOK
<1>2. turns' = [i \in 1..Len(turns) |-> e(i)]
  BY <1>1 DEF LogFinished
<1>3. \A i \in 1..Len(turns) :
        /\ e(i).id = turns[i].id /\ e(i).cause = turns[i].cause
        /\ e(i).attempt = turns[i].attempt /\ e(i).of = turns[i].of
  <2> SUFFICES ASSUME NEW i \in 1..Len(turns)
               PROVE  /\ e(i).id = turns[i].id /\ e(i).cause = turns[i].cause
                      /\ e(i).attempt = turns[i].attempt /\ e(i).of = turns[i].of
    OBVIOUS
  <2>1. turns[i] \in Turns
    BY <1>1, ElementOfSeq
  <2>2. QED
    BY <2>1 DEF Turns
<1> HIDE DEF e
<1>4. Len(turns') = Len(turns) /\ \A i \in 1..Len(turns) : turns'[i] = e(i)
  BY <1>1, <1>2
<1>5. QED
  BY <1>1, <1>3, <1>4 DEF Kept, Prolongs

\* A start keeps them too, and goes to their end.
LEMMA StartedLast ==
  ASSUME Typing, NEW t, NEW p, NEW c, NEW a, NEW o, LogStarted(t, p, c, a, o)
  PROVE  /\ Prolongs(turns, turns') /\ Len(turns') = Len(turns) + 1
         /\ turns'[Len(turns) + 1].id = t /\ turns'[Len(turns) + 1].cause = c
         /\ turns'[Len(turns) + 1].attempt = a /\ turns'[Len(turns) + 1].of = o
<1> DEFINE r == [id |-> t, prompt |-> p, cause |-> c, attempt |-> a, of |-> o,
                 stop |-> "open"]
<1>1. /\ turns' = Append(turns, r) /\ turns \in Seq(Turns)
      /\ r.id = t /\ r.cause = c /\ r.attempt = a /\ r.of = o
  BY DEF LogStarted, Typing, TypeOK, LogTypeOK
<1> HIDE DEF r
<1>2. /\ DOMAIN turns = 1..Len(turns) /\ Len(turns) \in Nat
      /\ Len(turns') = Len(turns) + 1
      /\ \A i \in 1..Len(turns) : turns'[i] = turns[i]
      /\ turns'[Len(turns) + 1] = r
  BY <1>1
<1>3. QED
  BY <1>1, <1>2 DEF Prolongs

\* What precedes a place in the log still does when the log is longer.
LEMMA StillPrecedes ==
  ASSUME NEW ts \in Seq(Turns), NEW ns \in Seq(Turns), Prolongs(ts, ns),
         NEW k \in 1..(Len(ts) + 1), NEW o, Precedes(ts, k, o)
  PROVE  Precedes(ns, k, o)
<1>1. DOMAIN ts = 1..Len(ts) /\ Len(ts) \in Nat
  OBVIOUS
<1>2. PICK i \in 1..(k - 1) : ts[i].id = o /\ (i + 1 < k => ts[i + 1].cause # "queue")
  BY DEF Precedes
<1>3. i \in DOMAIN ts /\ (i + 1 < k => i + 1 \in DOMAIN ts)
  BY <1>1
<1>4. QED
  BY <1>2, <1>3 DEF Precedes, Prolongs

\* What is kept is followed by what followed it.
LEMMA StillBehind ==
  ASSUME NEW ts \in Seq(Turns), NEW ns \in Seq(Turns), Prolongs(ts, ns),
         Len(ns) = Len(ts), NEW o, NEW v, NEW w, Behind(ts, o, v), v => w
  PROVE  Behind(ns, o, w)
<1>1. /\ DOMAIN ts = 1..Len(ts) /\ Len(ts) \in Nat
      /\ DOMAIN ns = 1..Len(ts)
  OBVIOUS
<1>2. PICK i \in DOMAIN ts : /\ ts[i].id = o
                             /\ i < Len(ts) => ts[i + 1].cause # "queue"
                             /\ i = Len(ts) => v
  BY DEF Behind
<1>3. i \in DOMAIN ns /\ (i < Len(ts) => i + 1 \in DOMAIN ts)
  BY <1>1
<1>4. ns[i].id = o /\ (i < Len(ts) => ns[i + 1].cause # "queue")
  BY <1>2, <1>3 DEF Prolongs
<1>5. QED
  BY <1>2, <1>3, <1>4 DEF Behind

\* What is last is followed by the turn that is added.
LEMMA AddedBehind ==
  ASSUME NEW ts \in Seq(Turns), NEW ns \in Seq(Turns), Prolongs(ts, ns),
         Len(ns) = Len(ts) + 1, NEW o, NEW v, NEW w, Behind(ts, o, v),
         v => ns[Len(ts) + 1].cause # "queue"
  PROVE  Behind(ns, o, w)
<1>1. /\ DOMAIN ts = 1..Len(ts) /\ Len(ts) \in Nat
      /\ DOMAIN ns = 1..(Len(ts) + 1)
  OBVIOUS
<1>2. PICK i \in DOMAIN ts : /\ ts[i].id = o
                             /\ i < Len(ts) => ts[i + 1].cause # "queue"
                             /\ i = Len(ts) => v
  BY DEF Behind
<1>3. i \in DOMAIN ns /\ i < Len(ns) /\ (i < Len(ts) => i + 1 \in DOMAIN ts)
  BY <1>1
<1>4. ns[i].id = o /\ ns[i + 1].cause # "queue"
  <2>1. CASE i < Len(ts)
    BY <2>1, <1>2, <1>3 DEF Prolongs
  <2>2. CASE i = Len(ts)
    BY <2>2, <1>2, <1>3 DEF Prolongs
  <2>3. QED
    BY <1>1, <2>1, <2>2
<1>5. QED
  BY <1>3, <1>4 DEF Behind

\* Only a start makes the log longer.
LEMMA KeptStep == Typing /\ [Next]_vars => Kept \/ Starting \/ HandleEvent
<1> SUFFICES ASSUME Typing, [Next]_vars PROVE Kept \/ Starting \/ HandleEvent
  OBVIOUS
<1> USE DEF logVars, managerVars, recoverVars, actorVars, harnessVars, historyVars
<1>k. UNCHANGED turns => Kept
  BY DEF Kept, Prolongs, Typing, TypeOK, LogTypeOK
<1>1. CASE CloseThread
  BY <1>1, <1>k DEF CloseThread, OwePhase, Waiting, At
<1>2. CASE OtherCommand
  BY <1>2, <1>k DEF OtherCommand, Waiting, At, AfterCommand
<1>3. CASE GetIdle
  BY <1>3, <1>k DEF GetIdle, Activate, Waiting, At
<1>4. CASE GetTurn
  BY <1>4, <1>k DEF GetTurn, ReadTurnRow
<1>5. CASE SyncRow
  BY <1>5, <1>k DEF SyncRow
<1>6. CASE Sending
  BY <1>6, <1>k DEF Sending, At, AfterTurn, AfterCommand
<1>7. CASE Dispatch
  BY <1>7, <1>k DEF Dispatch, StartTurn, MayDispatch, At
<1>8. CASE FinishGet
  BY <1>8, <1>k DEF FinishGet, Activate, AfterCommand, Waiting, At
<1>9. CASE RecoverRead
  BY <1>9, <1>k DEF RecoverRead
<1>10. CASE RecoverPrompt
  BY <1>10, <1>k DEF RecoverPrompt, StartTurn, TakePlan, AfterCommand, Waiting, At
<1>11. CASE Continue
  BY <1>11, <1>k DEF Continue, StartTurn, TakePlan, AfterCommand, Waiting, At
<1>12. CASE BootScan
  BY <1>12, <1>k DEF BootScan, ReadTurnRow
<1>13. CASE ProvActivate
  BY <1>13, <1>k DEF ProvActivate, AfterCommand, Waiting, At
<1>14. CASE ProvRow
  BY <1>14, <1>k DEF ProvRow
<1>15. CASE ProvReady
  BY <1>15, <1>k DEF ProvReady, AfterCommand, Waiting, At
<1>16. CASE ProvError
  BY <1>16, <1>k DEF ProvError
<1>17. CASE ProvFailed
  BY <1>17, <1>k DEF ProvFailed
<1>18. CASE ProvReport
  BY <1>18, <1>k DEF ProvReport, AfterCommand, Waiting, At
<1>19. CASE Restore
  BY <1>19, <1>k DEF Restore
<1>20. CASE Stop
  BY <1>20, <1>k DEF Stop, Waiting, At
<1>21. CASE Halt
  BY <1>21, <1>k DEF Halt
<1>22. CASE Start
  BY <1>22, <1>k DEF Start
<1>23. CASE UNCHANGED vars
  BY <1>23, <1>k DEF vars
<1>24. CASE Exiting
  BY <1>24, <1>k DEF Exiting, ActorGone, At
<1>25. CASE Crash
  BY <1>25, <1>k DEF Crash, ActorGone
<1>26. CASE Refused
  BY <1>26, FinishedKept, <1>k DEF Refused, At, AfterTurn, AfterCommand
<1>27. CASE Closing
  BY <1>27, FinishedKept, <1>k DEF Closing, At, AfterCommand
<1>28. CASE HandleExit
  BY <1>28, FinishedKept, <1>k DEF HandleExit, Waiting, At
<1>29. CASE HSelfStart
  BY <1>29, <1>k DEF HSelfStart, Running, Emit
<1>30. CASE HChunk
  BY <1>30, <1>k DEF HChunk, Running, Emit
<1>31. CASE HFinish
  BY <1>31, <1>k DEF HFinish, Running, Emit
<1>32. CASE HExit
  BY <1>32, <1>k DEF HExit, Emit
<1>33. CASE (\E q \in Prompts : HRead(q))
  BY <1>33, <1>k DEF HRead, Running, Emit
<1>34. CASE Cancel
  BY <1>34, <1>k DEF Cancel, CancelledEvent, TakePlan, Waiting, At
<1>35. CASE (\E p \in Prompts : Prompt(p))
  BY <1>35, <1>k DEF Prompt, StartTurn, Waiting, At
<1>36. CASE Queueing
  BY <1>36, <1>k DEF Queueing, At, AfterCommand
<1>37. CASE (\E q \in Prompts : Dequeue(q))
  BY <1>37, <1>k DEF Dequeue, AfterCommand, Waiting, At
<1>38. CASE Dropping
  BY <1>38, FinishedKept, <1>k DEF Dropping, At, AfterCommand
<1>39. QED
  BY <1>1, <1>2, <1>3, <1>4, <1>5, <1>6, <1>7, <1>8, <1>9, <1>10, <1>11, <1>12, <1>13,
     <1>14, <1>15, <1>16, <1>17, <1>18, <1>19, <1>20, <1>21, <1>22, <1>23, <1>24,
     <1>25, <1>26, <1>27, <1>28, <1>29, <1>30, <1>31, <1>32, <1>33, <1>34, <1>35,
     <1>36, <1>37, <1>38
  DEF Next, Presenter, ActorStep, Reaction, Provision, HarnessStep, Server

\* A continuation is asked for of a live session only, or of a closed thread in vain.
LEMMA AskingStep == Typing /\ Runs /\ Asking /\ [Next]_vars => Asking'
<1> SUFFICES ASSUME Typing, Runs, Asking, [Next]_vars PROVE Asking'
  OBVIOUS
<1> USE DEF logVars, managerVars, recoverVars, actorVars, harnessVars, historyVars
<1>1. CASE CloseThread
  BY <1>1 DEF CloseThread, OwePhase, Waiting, At, Asking, Runs, Typing, TypeOK, ServerTypeOK
<1>2. CASE OtherCommand
  BY <1>2 DEF OtherCommand, Waiting, At, AfterCommand, Asking, Runs, Typing, TypeOK,
     ServerTypeOK
<1>3. CASE GetIdle
  BY <1>3 DEF GetIdle, Activate, Waiting, At, Asking, Runs, Typing, TypeOK, ServerTypeOK
<1>4. CASE GetTurn
  BY <1>4 DEF GetTurn, ReadTurnRow, Asking, Runs, Typing, TypeOK, ServerTypeOK
<1>5. CASE SyncRow
  BY <1>5 DEF SyncRow, Asking, Runs, Typing, TypeOK, ServerTypeOK
<1>6. CASE Sending
  BY <1>6 DEF Sending, At, AfterTurn, AfterCommand, Asking, Runs, Typing, TypeOK,
     ServerTypeOK
<1>7. CASE Dispatch
  BY <1>7 DEF Dispatch, StartTurn, MayDispatch, At, Asking, Runs, Typing, TypeOK,
     ServerTypeOK
<1>8. CASE FinishGet
  BY <1>8 DEF FinishGet, Activate, AfterCommand, Waiting, At, Asking, Runs, Typing,
     TypeOK, ServerTypeOK
<1>9. CASE RecoverRead
  <2>1. /\ UNCHANGED <<recovering, sess, closed, live, pc>> /\ recs > 0
        /\ recs' = recs - 1 /\ held' = IF recovering THEN held + 1 ELSE held
    BY <1>9 DEF RecoverRead
  <2>2. QED
    BY <2>1 DEF Asking, Runs, Typing, TypeOK, ServerTypeOK
<1>10. CASE RecoverPrompt
  BY <1>10 DEF RecoverPrompt, StartTurn, TakePlan, AfterCommand, Waiting, At, Asking,
     Runs, Typing, TypeOK, ServerTypeOK
<1>11. CASE Continue
  BY <1>11 DEF Continue, StartTurn, TakePlan, AfterCommand, Waiting, At, Asking, Runs,
     Typing, TypeOK, ServerTypeOK
<1>12. CASE BootScan
  BY <1>12 DEF BootScan, ReadTurnRow, Asking, Runs, Typing, TypeOK, ServerTypeOK
<1>13. CASE ProvActivate
  BY <1>13 DEF ProvActivate, AfterCommand, Waiting, At, Asking, Runs, Typing, TypeOK,
     ServerTypeOK
<1>14. CASE ProvRow
  BY <1>14 DEF ProvRow, Asking, Runs, Typing, TypeOK, ServerTypeOK
<1>15. CASE ProvReady
  BY <1>15 DEF ProvReady, AfterCommand, Waiting, At, Asking, Runs, Typing, TypeOK,
     ServerTypeOK
<1>16. CASE ProvError
  BY <1>16 DEF ProvError, Asking, Runs, Typing, TypeOK, ServerTypeOK
<1>17. CASE ProvFailed
  BY <1>17 DEF ProvFailed, Asking, Runs, Typing, TypeOK, ServerTypeOK
<1>18. CASE ProvReport
  BY <1>18 DEF ProvReport, AfterCommand, Waiting, At, Asking, Runs, Typing, TypeOK,
     ServerTypeOK
<1>19. CASE Restore
  <2>1. /\ ~live /\ held = 0 /\ recs = 0 /\ ~recovering /\ live'
        /\ UNCHANGED <<held, recs, sess, pc>>
    BY <1>19 DEF Restore, Asking, Runs, Typing, TypeOK, ServerTypeOK
  <2>2. (closed' => ~recovering')
    BY <1>19, <2>1 DEF Restore, PlanRecovery
  <2>3. QED
    BY <2>1, <2>2 DEF Asking
<1>20. CASE Stop
  BY <1>20 DEF Stop, Waiting, At, Asking, Runs, Typing, TypeOK, ServerTypeOK
<1>21. CASE Halt
  BY <1>21 DEF Halt, Asking, Runs, Typing, TypeOK, ServerTypeOK
<1>22. CASE Start
  BY <1>22 DEF Start, Asking, Runs, Typing, TypeOK, ServerTypeOK
<1>23. CASE UNCHANGED vars
  BY <1>23 DEF vars, Asking, Runs, Typing, TypeOK, ServerTypeOK
<1>24. CASE Exiting
  BY <1>24 DEF Exiting, ActorGone, At, Asking, Runs, Typing, TypeOK, ServerTypeOK
<1>25. CASE Crash
  BY <1>25 DEF Crash, ActorGone, Asking, Runs, Typing, TypeOK, ServerTypeOK
<1>26. CASE Refused
  BY <1>26 DEF Refused, At, AfterTurn, AfterCommand, Asking, Runs, LogFinished
<1>27. CASE Closing
  BY <1>27 DEF Closing, At, AfterCommand, Asking, Runs, LogFinished
<1>28. CASE HandleExit
  BY <1>28 DEF HandleExit, Waiting, At, Asking, Runs, LogFinished
<1>29. CASE HSelfStart
  BY <1>29 DEF HSelfStart, Running, Emit, Asking, Runs, Typing, TypeOK, ServerTypeOK
<1>30. CASE HChunk
  BY <1>30 DEF HChunk, Running, Emit, Asking, Runs, Typing, TypeOK, ServerTypeOK
<1>31. CASE HFinish
  BY <1>31 DEF HFinish, Running, Emit, Asking, Runs, Typing, TypeOK, ServerTypeOK
<1>32. CASE HExit
  BY <1>32 DEF HExit, Emit, Asking, Runs, Typing, TypeOK, ServerTypeOK
<1>33. CASE (\E q \in Prompts : HRead(q))
  BY <1>33 DEF HRead, Running, Emit, Asking, Runs, Typing, TypeOK, ServerTypeOK
<1>34. CASE Cancel
  <2>1. /\ UNCHANGED <<held, recs, sess, closed, live>> /\ live /\ pc' = "dropping"
        /\ recovering' = recovering \/ recovering' = FALSE
    BY <1>34 DEF Cancel, TakePlan, Waiting, At
  <2>2. QED
    BY <2>1, <1>34 DEF Asking, Cancel, Waiting, At
<1>35. CASE (\E p \in Prompts : Prompt(p))
  BY <1>35 DEF Prompt, StartTurn, Waiting, At, Asking, Runs, Typing, TypeOK, ServerTypeOK
<1>36. CASE Starting
  BY <1>36 DEF Starting, At, Asking, Runs, LogStarted
<1>37. CASE Queueing
  BY <1>37 DEF Queueing, At, AfterCommand, Asking, Runs, Typing, TypeOK, ServerTypeOK
<1>38. CASE (\E q \in Prompts : Dequeue(q))
  BY <1>38 DEF Dequeue, AfterCommand, Waiting, At, Asking, Runs, Typing, TypeOK,
     ServerTypeOK
<1>39. CASE Dropping
  BY <1>39 DEF Dropping, At, AfterCommand, Asking, Runs, LogFinished
<1>40. CASE HandleEvent
  BY <1>40 DEF HandleEvent, AfterCommand, Waiting, At, Asking, Runs, LogStarted,
     LogFinished, LogInjected, LogChunk
<1>41. QED
  BY <1>1, <1>2, <1>3, <1>4, <1>5, <1>6, <1>7, <1>8, <1>9, <1>10, <1>11, <1>12, <1>13,
     <1>14, <1>15, <1>16, <1>17, <1>18, <1>19, <1>20, <1>21, <1>22, <1>23, <1>24,
     <1>25, <1>26, <1>27, <1>28, <1>29, <1>30, <1>31, <1>32, <1>33, <1>34, <1>35,
     <1>36, <1>37, <1>38, <1>39, <1>40
  DEF Next, Presenter, ActorStep, Reaction, Provision, HarnessStep, Server

\* What the loop is about to write was just decided, and a continuation by the plan.
LEMMA NextTurn == Typing /\ Runs /\ [Next]_vars =>
    (pc' = "starting" =>
       \/ UNCHANGED <<pc, job>> /\ Kept
       \/ /\ pc # "starting" /\ job'.turn = born + 1 /\ UNCHANGED turns
          /\ job'.cause = "restart" =>
               held > 0 /\ job'.attempt = plan.attempt /\ job'.of = plan.of)
<1> SUFFICES ASSUME Typing, Runs, [Next]_vars
             PROVE
    (pc' = "starting" =>
       \/ UNCHANGED <<pc, job>> /\ Kept
       \/ /\ pc # "starting" /\ job'.turn = born + 1 /\ UNCHANGED turns
          /\ job'.cause = "restart" =>
               held > 0 /\ job'.attempt = plan.attempt /\ job'.of = plan.of)
  OBVIOUS
<1> USE DEF logVars, managerVars, recoverVars, actorVars, harnessVars, historyVars
<1>k. UNCHANGED turns => Kept
  BY DEF Kept, Prolongs, Typing, TypeOK, LogTypeOK
<1>1. CASE CloseThread
  BY <1>1, <1>k DEF CloseThread, OwePhase, Waiting, At
<1>2. CASE OtherCommand
  BY <1>2, <1>k DEF OtherCommand, Waiting, At, AfterCommand
<1>3. CASE GetIdle
  BY <1>3, <1>k DEF GetIdle, Activate, Waiting, At
<1>4. CASE GetTurn
  BY <1>4, <1>k DEF GetTurn, ReadTurnRow
<1>5. CASE SyncRow
  BY <1>5, <1>k DEF SyncRow
<1>6. CASE Sending
  BY <1>6, <1>k DEF Sending, At, AfterTurn, AfterCommand
<1>7. CASE Dispatch
  BY <1>7, <1>k DEF Dispatch, StartTurn, MayDispatch, At
<1>8. CASE FinishGet
  BY <1>8, <1>k DEF FinishGet, Activate, AfterCommand, Waiting, At
<1>9. CASE RecoverRead
  BY <1>9, <1>k DEF RecoverRead
<1>10. CASE RecoverPrompt
  BY <1>10, <1>k DEF RecoverPrompt, StartTurn, TakePlan, AfterCommand, Waiting, At
<1>11. CASE Continue
  BY <1>11, <1>k DEF Continue, StartTurn, TakePlan, AfterCommand, Waiting, At
<1>12. CASE BootScan
  BY <1>12, <1>k DEF BootScan, ReadTurnRow
<1>13. CASE ProvActivate
  BY <1>13, <1>k DEF ProvActivate, AfterCommand, Waiting, At
<1>14. CASE ProvRow
  BY <1>14, <1>k DEF ProvRow
<1>15. CASE ProvReady
  BY <1>15, <1>k DEF ProvReady, AfterCommand, Waiting, At
<1>16. CASE ProvError
  BY <1>16, <1>k DEF ProvError
<1>17. CASE ProvFailed
  BY <1>17, <1>k DEF ProvFailed
<1>18. CASE ProvReport
  BY <1>18, <1>k DEF ProvReport, AfterCommand, Waiting, At
<1>19. CASE Restore
  BY <1>19, <1>k DEF Restore
<1>20. CASE Stop
  BY <1>20, <1>k DEF Stop, Waiting, At
<1>21. CASE Halt
  BY <1>21, <1>k DEF Halt
<1>22. CASE Start
  BY <1>22, <1>k DEF Start
<1>23. CASE UNCHANGED vars
  BY <1>23, <1>k DEF vars
<1>24. CASE Exiting
  BY <1>24, <1>k DEF Exiting, ActorGone, At
<1>25. CASE Crash
  BY <1>25, <1>k DEF Crash, ActorGone
<1>26. CASE Refused
  BY <1>26, <1>k DEF Refused, At, AfterTurn, AfterCommand
<1>27. CASE Closing
  BY <1>27 DEF Closing, At, AfterCommand, LogFinished
<1>28. CASE HandleExit
  BY <1>28, <1>k DEF HandleExit, Waiting, At
<1>29. CASE HSelfStart
  BY <1>29, <1>k DEF HSelfStart, Running, Emit
<1>30. CASE HChunk
  BY <1>30, <1>k DEF HChunk, Running, Emit
<1>31. CASE HFinish
  BY <1>31, <1>k DEF HFinish, Running, Emit
<1>32. CASE HExit
  BY <1>32, <1>k DEF HExit, Emit
<1>33. CASE (\E q \in Prompts : HRead(q))
  BY <1>33, <1>k DEF HRead, Running, Emit
<1>34. CASE Cancel
  BY <1>34, <1>k DEF Cancel, CancelledEvent, TakePlan, Waiting, At
<1>35. CASE (\E p \in Prompts : Prompt(p))
  BY <1>35, <1>k DEF Prompt, StartTurn, Waiting, At
<1>36. CASE Starting
  BY <1>36 DEF Starting, At, LogStarted
<1>37. CASE Queueing
  BY <1>37, <1>k DEF Queueing, At, AfterCommand
<1>38. CASE (\E q \in Prompts : Dequeue(q))
  BY <1>38, <1>k DEF Dequeue, AfterCommand, Waiting, At
<1>39. CASE Dropping
  BY <1>39, <1>k DEF Dropping, At, AfterCommand
<1>40. CASE HandleEvent
  BY <1>40 DEF HandleEvent, AfterCommand, Waiting, At, LogStarted, LogFinished,
     LogInjected, LogChunk
<1>41. QED
  BY <1>1, <1>2, <1>3, <1>4, <1>5, <1>6, <1>7, <1>8, <1>9, <1>10, <1>11, <1>12, <1>13,
     <1>14, <1>15, <1>16, <1>17, <1>18, <1>19, <1>20, <1>21, <1>22, <1>23, <1>24,
     <1>25, <1>26, <1>27, <1>28, <1>29, <1>30, <1>31, <1>32, <1>33, <1>34, <1>35,
     <1>36, <1>37, <1>38, <1>39, <1>40
  DEF Next, Presenter, ActorStep, Reaction, Provision, HarnessStep, Server

\* The plan is given up only for another turn, and the queue is kept back with it.
LEMMA AheadStep ==
  Typing /\ Numbered /\ Runs /\ Resumes /\ Creating /\ Asking /\ [Next]_vars =>
    ((recovering \/ held > 0)' =>
       \/ Starting \/ HandleEvent \/ Restore
       \/ plan' = plan /\ (recovering \/ held > 0) /\ (Ahead => Ahead'))
<1> SUFFICES ASSUME Typing, Numbered, Runs, Resumes, Creating, Asking, [Next]_vars
             PROVE
    ((recovering \/ held > 0)' =>
       \/ Starting \/ HandleEvent \/ Restore
       \/ plan' = plan /\ (recovering \/ held > 0) /\ (Ahead => Ahead'))
  OBVIOUS
<1> USE DEF logVars, managerVars, recoverVars, actorVars, harnessVars, historyVars
<1>1. CASE CloseThread
  BY <1>1 DEF CloseThread, OwePhase, Waiting, At, Ahead
<1>2. CASE OtherCommand
  BY <1>2 DEF OtherCommand, Waiting, At, AfterCommand, Ahead
<1>3. CASE GetIdle
  BY <1>3 DEF GetIdle, Activate, Waiting, At, Ahead
<1>4. CASE GetTurn
  BY <1>4 DEF GetTurn, ReadTurnRow, Ahead
<1>5. CASE SyncRow
  BY <1>5 DEF SyncRow, Ahead
<1>6. CASE Sending
  <2>1. pc = "sending" /\ sess /\ turnActive # NoTurn /\ UNCHANGED <<plan, held, recovering>>
    BY <1>6 DEF Sending, At, Runs, Numbered, NoTurn
  <2>2. QED
    BY <2>1 DEF Ahead
<1>7. CASE Dispatch
  BY <1>7 DEF Dispatch, StartTurn, MayDispatch, At, Ahead
<1>8. CASE FinishGet
  BY <1>8 DEF FinishGet, Activate, AfterCommand, Waiting, At, Ahead
<1>9. CASE RecoverRead
  BY <1>9 DEF RecoverRead, Ahead
<1>10. CASE RecoverPrompt
  <2>1. held > 0 /\ sess /\ pc = "loop" /\ UNCHANGED plan
    BY <1>10 DEF RecoverPrompt, Asking, Waiting, At
  <2>2. CASE closed
    BY <2>1, <2>2, <1>10 DEF RecoverPrompt, Ahead
  <2>3. CASE ~closed
    BY <2>1, <2>3, <1>10 DEF RecoverPrompt, StartTurn, Ahead
  <2>4. QED
    BY <2>2, <2>3
<1>11. CASE Continue
  <2>1. pc = "loop" /\ ~recovering' /\ UNCHANGED <<plan, held, sess>>
    BY <1>11 DEF Continue, TakePlan, Waiting, At
  <2>2. CASE turnActive = NoTurn /\ sess
    BY <2>1, <2>2, <1>11 DEF Continue, StartTurn, Ahead
  <2>3. CASE ~(turnActive = NoTurn /\ sess)
    BY <2>1, <2>3 DEF Asking, Ahead
  <2>4. QED
    BY <2>2, <2>3
<1>12. CASE BootScan
  BY <1>12 DEF BootScan, ReadTurnRow, Ahead
<1>13. CASE ProvActivate
  BY <1>13 DEF ProvActivate, AfterCommand, Waiting, At, Creating, Ahead
<1>14. CASE ProvRow
  BY <1>14 DEF ProvRow, Ahead
<1>15. CASE ProvReady
  BY <1>15 DEF ProvReady, AfterCommand, Waiting, At, Ahead
<1>16. CASE ProvError
  BY <1>16 DEF ProvError, Ahead
<1>17. CASE ProvFailed
  BY <1>17 DEF ProvFailed, Ahead
<1>18. CASE ProvReport
  BY <1>18 DEF ProvReport, AfterCommand, Waiting, At, Ahead
<1>19. CASE Stop
  BY <1>19 DEF Stop, Waiting, At, Ahead
<1>20. CASE Halt
  BY <1>20 DEF Halt, Ahead
<1>21. CASE Start
  BY <1>21 DEF Start, Ahead
<1>22. CASE UNCHANGED vars
  BY <1>22 DEF vars, Ahead
<1>23. CASE Exiting
  BY <1>23 DEF Exiting, ActorGone, At, Ahead
<1>24. CASE Crash
  BY <1>24 DEF Crash, ActorGone, Ahead
<1>25. CASE Refused
  <2>1. pc = "sending" /\ sess /\ turnActive # NoTurn /\ UNCHANGED <<plan, held, recovering>>
    BY <1>25 DEF Refused, At, Runs, Numbered, NoTurn
  <2>2. QED
    BY <2>1 DEF Ahead
<1>26. CASE Closing
  <2>1. pc = "closing" /\ UNCHANGED <<plan, held, recovering, sess>>
    BY <1>26 DEF Closing, At
  <2>2. pc' = "closing" \/ (pc' = "tail" /\ turnActive' = NoTurn)
    BY <1>26, <2>1 DEF Closing, Resumes, AfterCommand
  <2>3. QED
    BY <2>1, <2>2 DEF Ahead
<1>27. CASE HandleExit
  BY <1>27 DEF HandleExit, Waiting, At, LogFinished, GuardAfter, Ahead
<1>28. CASE HSelfStart
  BY <1>28 DEF HSelfStart, Running, Emit, Ahead
<1>29. CASE HChunk
  BY <1>29 DEF HChunk, Running, Emit, Ahead
<1>30. CASE HFinish
  BY <1>30 DEF HFinish, Running, Emit, Ahead
<1>31. CASE HExit
  BY <1>31 DEF HExit, Emit, Ahead
<1>32. CASE (\E q \in Prompts : HRead(q))
  BY <1>32 DEF HRead, Running, Emit, Ahead
<1>33. CASE Cancel
  <2>1. /\ UNCHANGED <<plan, held, sess, turnActive>> /\ pc = "loop" /\ pc' = "dropping"
        /\ recovering' = recovering \/ (recovering' = FALSE /\ ~sess)
    BY <1>33 DEF Cancel, TakePlan, Waiting, At
  <2>2. QED
    BY <2>1 DEF Asking, Ahead
<1>34. CASE (\E p \in Prompts : Prompt(p))
  BY <1>34 DEF Prompt, StartTurn, Waiting, At, Ahead
<1>35. CASE Queueing
  BY <1>35 DEF Queueing, At, AfterCommand, Ahead
<1>36. CASE (\E q \in Prompts : Dequeue(q))
  BY <1>36 DEF Dequeue, AfterCommand, Waiting, At, Ahead
<1>37. CASE Dropping
  <2>1. /\ UNCHANGED <<plan, held, sess, recovering>> /\ pc = "dropping"
        /\ pc' \in {"dropping", "tail"} /\ (turnActive' = turnActive \/ turnActive' = NoTurn)
    BY <1>37 DEF Dropping, At, AfterCommand, LogFinished, GuardAfter
  <2>2. QED
    BY <2>1 DEF Ahead
<1>38. QED
  BY <1>1, <1>2, <1>3, <1>4, <1>5, <1>6, <1>7, <1>8, <1>9, <1>10, <1>11, <1>12, <1>13,
     <1>14, <1>15, <1>16, <1>17, <1>18, <1>19, <1>20, <1>21, <1>22, <1>23, <1>24,
     <1>25, <1>26, <1>27, <1>28, <1>29, <1>30, <1>31, <1>32, <1>33, <1>34, <1>35,
     <1>36, <1>37
  DEF Next, Presenter, ActorStep, Reaction, Provision, HarnessStep, Server

\* What the harness says of a turn that begins is of a new one.
Tells == \E k, t, p, s : Emit(k, t, p, s) /\ (k = "started" => t = born + 1)

\* Only a turn that is new is told on the channel.
LEMMA ChannelStep ==
  Typing /\ [Next]_vars => UNCHANGED events \/ events' = <<>> \/ HandleEvent \/ Tells
<1> SUFFICES ASSUME Typing, [Next]_vars
             PROVE  UNCHANGED events \/ events' = <<>> \/ HandleEvent \/ Tells
  OBVIOUS
<1> USE DEF logVars, managerVars, recoverVars, actorVars, harnessVars, historyVars
<1>e. \A k, t, p, s : Emit(k, t, p, s) /\ (k = "started" => t = born + 1) => Tells
  BY DEF Tells
<1>1. CASE CloseThread
  BY <1>1 DEF CloseThread, OwePhase, Waiting, At
<1>2. CASE OtherCommand
  BY <1>2 DEF OtherCommand, Waiting, At, AfterCommand
<1>3. CASE GetIdle
  BY <1>3 DEF GetIdle, Activate, Waiting, At
<1>4. CASE GetTurn
  BY <1>4 DEF GetTurn, ReadTurnRow
<1>5. CASE SyncRow
  BY <1>5 DEF SyncRow
<1>6. CASE Sending
  BY <1>6 DEF Sending, At, AfterTurn, AfterCommand
<1>7. CASE Dispatch
  BY <1>7 DEF Dispatch, StartTurn, MayDispatch, At
<1>8. CASE FinishGet
  BY <1>8 DEF FinishGet, Activate, AfterCommand, Waiting, At
<1>9. CASE RecoverRead
  BY <1>9 DEF RecoverRead
<1>10. CASE RecoverPrompt
  BY <1>10 DEF RecoverPrompt, StartTurn, TakePlan, AfterCommand, Waiting, At
<1>11. CASE Continue
  BY <1>11 DEF Continue, StartTurn, TakePlan, AfterCommand, Waiting, At
<1>12. CASE BootScan
  BY <1>12 DEF BootScan, ReadTurnRow
<1>13. CASE ProvActivate
  BY <1>13 DEF ProvActivate, AfterCommand, Waiting, At
<1>14. CASE ProvRow
  BY <1>14 DEF ProvRow
<1>15. CASE ProvReady
  BY <1>15 DEF ProvReady, AfterCommand, Waiting, At
<1>16. CASE ProvError
  BY <1>16 DEF ProvError
<1>17. CASE ProvFailed
  BY <1>17 DEF ProvFailed
<1>18. CASE ProvReport
  BY <1>18 DEF ProvReport, AfterCommand, Waiting, At
<1>19. CASE Restore
  BY <1>19 DEF Restore
<1>20. CASE Stop
  BY <1>20 DEF Stop, Waiting, At
<1>21. CASE Halt
  BY <1>21 DEF Halt
<1>22. CASE Start
  BY <1>22 DEF Start
<1>23. CASE UNCHANGED vars
  BY <1>23 DEF vars
<1>24. CASE Exiting
  BY <1>24 DEF Exiting, ActorGone, At
<1>25. CASE Crash
  BY <1>25 DEF Crash, ActorGone
<1>26. CASE Refused
  BY <1>26 DEF Refused, At, AfterTurn, AfterCommand
<1>27. CASE Closing
  BY <1>27 DEF Closing, At, AfterCommand
<1>28. CASE HandleExit
  BY <1>28 DEF HandleExit, Waiting, At
<1>29. CASE HSelfStart
  BY <1>29, <1>e DEF HSelfStart
<1>30. CASE HChunk
  BY <1>30, <1>e DEF HChunk
<1>31. CASE HFinish
  BY <1>31, <1>e DEF HFinish
<1>32. CASE HExit
  BY <1>32, <1>e DEF HExit
<1>33. CASE (\E q \in Prompts : HRead(q))
  <2>1. PICK q \in Prompts : HRead(q)
    BY <1>33
  <2>2. Emit("injected", hturn, q, "open") \/ Emit("started", born + 1, q, "open")
    BY <2>1 DEF HRead
  <2>3. QED
    BY <2>2, <1>e
<1>34. CASE Cancel
 <2>1. UNCHANGED events \/ Emit("finished", hturn, NoPrompt, "cancelled")
    BY <1>34 DEF Cancel, CancelledEvent, Emit
  <2>2. QED
    BY <2>1, <1>e
<1>35. CASE (\E p \in Prompts : Prompt(p))
  BY <1>35 DEF Prompt, StartTurn, Waiting, At
<1>36. CASE Starting
  BY <1>36 DEF Starting, At
<1>37. CASE Queueing
  BY <1>37 DEF Queueing, At, AfterCommand
<1>38. CASE (\E q \in Prompts : Dequeue(q))
  BY <1>38 DEF Dequeue, AfterCommand, Waiting, At
<1>39. CASE Dropping
  BY <1>39 DEF Dropping, At, AfterCommand
<1>40. QED
  BY <1>1, <1>2, <1>3, <1>4, <1>5, <1>6, <1>7, <1>8, <1>9, <1>10, <1>11, <1>12, <1>13,
     <1>14, <1>15, <1>16, <1>17, <1>18, <1>19, <1>20, <1>21, <1>22, <1>23, <1>24,
     <1>25, <1>26, <1>27, <1>28, <1>29, <1>30, <1>31, <1>32, <1>33, <1>34, <1>35,
     <1>36, <1>37, <1>38, <1>39
  DEF Next, Presenter, ActorStep, Reaction, Provision, HarnessStep, Server

\* What is put on the channel, if it tells of a turn, tells of a new one.
LEMMA ToldAppend ==
  ASSUME NEW es \in Seq(Events), NEW ts, NEW n \in Nat, NEW k, NEW t, NEW p, NEW s,
         Told(es, ts), k = "started" => t = n + 1,
         \A i \in DOMAIN es : es[i].turn \in 1..n,
         \A i \in DOMAIN ts : ts[i].id \in Nat /\ ts[i].id <= n
  PROVE  Told(Append(es, [kind |-> k, turn |-> t, prompt |-> p, stop |-> s]), ts)
<1> DEFINE e == [kind |-> k, turn |-> t, prompt |-> p, stop |-> s]
           ns == Append(es, e)
<1>e. e.kind = k /\ e.turn = t
  OBVIOUS
<1> HIDE DEF e
<1>1. /\ Len(es) \in Nat /\ DOMAIN es = 1..Len(es)
      /\ DOMAIN ns = 1..(Len(es) + 1) /\ ns[Len(es) + 1] = e
      /\ \A i \in DOMAIN es : i \in DOMAIN ns /\ ns[i] = es[i]
      /\ \A i \in DOMAIN ns : i \in DOMAIN es \/ i = Len(es) + 1
  BY Appended
<1> HIDE DEF ns
<1>2. \A i \in DOMAIN ts : k = "started" => ts[i].id # t
  OBVIOUS
<1>3. \A i \in DOMAIN es : k = "started" => es[i].turn # t
  OBVIOUS
<1>4. ASSUME NEW i \in DOMAIN ns, ns[i].kind = "started"
      PROVE  /\ \A j \in DOMAIN ts : ts[j].id # ns[i].turn
             /\ \A j \in Begun(ns, ns[i].turn) : j = i
  <2>1. CASE i \in DOMAIN es
    <3>1. es[i].kind = "started" /\ ns[i].turn = es[i].turn
      BY <1>1, <1>4, <2>1
    <3>2. \A j \in Begun(ns, ns[i].turn) : j \in Begun(es, es[i].turn)
      BY <1>e, <1>1, <1>3, <2>1, <3>1 DEF Begun
    <3>3. QED
      BY <2>1, <3>1, <3>2 DEF Told
  <2>2. CASE i = Len(es) + 1
    <3>1. ns[i].turn = t /\ k = "started"
      BY <1>e, <1>1, <1>4, <2>2
    <3>2. \A j \in Begun(ns, t) : j = i
      BY <1>1, <1>3, <2>2, <3>1 DEF Begun
    <3>3. QED
      BY <1>2, <3>1, <3>2
  <2>3. QED
    BY <1>1, <1>4, <2>1, <2>2
<1>5. QED
  BY <1>4 DEF Told, ns, e

\* What is left on the channel was there, one place behind.
LEMMA ToldTail ==
  ASSUME NEW es \in Seq(Events), es # <<>>, NEW ts, Told(es, ts)
  PROVE  /\ Told(Tail(es), ts)
         /\ Head(es).kind = "started" =>
              \A i \in DOMAIN Tail(es) : Tail(es)[i].kind = "started" =>
                Tail(es)[i].turn # Head(es).turn
<1> DEFINE ns == Tail(es)
<1>1. /\ 1 \in DOMAIN es /\ Head(es) = es[1]
      /\ DOMAIN es \subseteq Nat \ {0} /\ DOMAIN ns \subseteq Nat \ {0}
      /\ \A i \in DOMAIN ns : i + 1 \in DOMAIN es /\ ns[i] = es[i + 1]
  BY Taken
<1> HIDE DEF ns
<1>2. ASSUME NEW i \in DOMAIN ns, ns[i].kind = "started"
      PROVE  /\ \A j \in DOMAIN ts : ts[j].id # ns[i].turn
             /\ \A j \in Begun(ns, ns[i].turn) : j = i
  <2>1. i + 1 \in DOMAIN es /\ es[i + 1] = ns[i]
    BY <1>1
  <2>2. \A j \in Begun(es, ns[i].turn) : j = i + 1
    BY <1>2, <2>1 DEF Told
  <2>3. \A j \in Begun(ns, ns[i].turn) : j + 1 \in Begun(es, ns[i].turn)
    BY <1>1 DEF Begun
  <2>4. \A j \in Begun(ns, ns[i].turn) : j \in Nat /\ j + 1 = i + 1
    BY <1>1, <2>2, <2>3 DEF Begun
  <2>5. QED
    BY <1>1, <1>2, <2>1, <2>4 DEF Told
<1>3. ASSUME es[1].kind = "started", NEW i \in DOMAIN ns, ns[i].kind = "started"
      PROVE  ns[i].turn # es[1].turn
  <2>1. \A j \in Begun(es, es[1].turn) : j = 1
    BY <1>1, <1>3 DEF Told
  <2>2. i \in Nat \ {0} /\ i + 1 \in DOMAIN es /\ es[i + 1] = ns[i]
    BY <1>1
  <2>3. ns[i].turn = es[1].turn => i + 1 \in Begun(es, es[1].turn)
    BY <1>3, <2>2 DEF Begun
  <2>4. QED
    BY <2>1, <2>2, <2>3
<1>4. QED
  BY <1>1, <1>2, <1>3 DEF Told, ns

\* Every turn of the log has a number of its own: proof of Distinctly.
LEMMA DistinctlyStep ==
  Typing /\ Typing' /\ Numbered /\ Runs /\ Distinctly /\ [Next]_vars => Distinctly'
<1> SUFFICES ASSUME Typing, Typing', Numbered, Runs, Distinctly, [Next]_vars
             PROVE  Distinctly'
  OBVIOUS
<1>b. /\ born \in Nat /\ events \in Seq(Events) /\ turns \in Seq(Turns)
      /\ turns' \in Seq(Turns)
      /\ \A i \in DOMAIN turns : turns[i].id \in Nat /\ turns[i].id <= born
      /\ \A i \in DOMAIN events : events[i].turn \in 1..born
  <2>1. \A i \in DOMAIN turns : turns[i] \in Turns
    BY ElementOfSeq DEF Typing, TypeOK, LogTypeOK
  <2>2. QED
    BY <2>1 DEF Typing, TypeOK, LogTypeOK, HarnessTypeOK, Numbered, Turns
<1>k. Kept => /\ DOMAIN turns' = DOMAIN turns
              /\ \A i \in DOMAIN turns : turns'[i].id = turns[i].id
  BY <1>b DEF Kept, Prolongs
<1>1. ASSUME Kept \/ UNCHANGED turns
      PROVE  \A es : Told(es, turns) => Told(es, turns')
  BY <1>1, <1>k DEF Told
<1>2. CASE Kept /\ ~HandleEvent
  <2>1. \A i, j \in DOMAIN turns' : turns'[i].id = turns'[j].id => i = j
    BY <1>2, <1>k DEF Distinctly
  <2>2. Told(events', turns)
    <3>1. CASE UNCHANGED events
      BY <3>1 DEF Distinctly
    <3>2. CASE events' = <<>>
      BY <3>2 DEF Told
    <3>3. CASE Tells
      BY <1>b, <3>3, ToldAppend DEF Distinctly, Tells, Emit
    <3>4. QED
      BY <1>2, <3>1, <3>2, <3>3, ChannelStep
  <2>3. Told(events', turns')
    BY <1>1, <1>2, <2>2
  <2>4. pc' = "starting" => \A j \in DOMAIN turns' : turns'[j].id # job'.turn
    <3>1. SUFFICES ASSUME pc' = "starting"
                   PROVE  \A j \in DOMAIN turns' : turns'[j].id # job'.turn
      OBVIOUS
    <3>2. CASE UNCHANGED <<pc, job>>
      BY <1>2, <1>k, <3>1, <3>2 DEF Distinctly
    <3>3. CASE job'.turn = born + 1
      BY <1>2, <1>b, <1>k, <3>3
    <3>4. QED
      BY <3>1, <3>2, <3>3, NextTurn
  <2>5. QED
    BY <2>1, <2>3, <2>4 DEF Distinctly
<1>s. ASSUME NEW t, NEW p, NEW c, NEW a, NEW o, LogStarted(t, p, c, a, o),
             \A j \in DOMAIN turns : turns[j].id # t,
             Told(events', turns), pc' # "starting",
             \A i \in DOMAIN events' : events'[i].kind = "started" => events'[i].turn # t
      PROVE  Distinctly'
  <2>1. /\ Prolongs(turns, turns') /\ Len(turns') = Len(turns) + 1
        /\ turns'[Len(turns) + 1].id = t
    BY <1>s, StartedLast
  <2>2. /\ DOMAIN turns = 1..Len(turns) /\ Len(turns) \in Nat
        /\ DOMAIN turns' = 1..(Len(turns) + 1)
    BY <1>b, <2>1
  <2>3. \A i \in DOMAIN turns' :
          IF i \in DOMAIN turns THEN turns'[i].id = turns[i].id
          ELSE i = Len(turns) + 1 /\ turns'[i].id = t
    BY <2>1, <2>2 DEF Prolongs
  <2>4. \A i, j \in DOMAIN turns' : turns'[i].id = turns'[j].id => i = j
    BY <1>s, <2>3 DEF Distinctly
  <2>5. Told(events', turns')
    BY <1>s, <2>3 DEF Told
  <2>6. QED
    BY <1>s, <2>4, <2>5 DEF Distinctly
<1>3. CASE Starting
  <2>1. /\ LogStarted(job.turn, job.prompt, job.cause, job.attempt, job.of)
        /\ pc = "starting" /\ pc' = "sending" /\ UNCHANGED events
    BY <1>3 DEF Starting, At, harnessVars
  <2>2. \A i \in DOMAIN events : events[i].turn # job.turn
    BY <2>1 DEF Numbered
  <2>3. QED
    BY <1>s, <2>1, <2>2 DEF Distinctly
<1>4. CASE HandleEvent
  <2> DEFINE e == Head(events)
  <2>1. /\ events # <<>> /\ events' = Tail(events) /\ pc' = "tail"
        /\ \/ e.kind = "started" /\ LogStarted(e.turn, e.prompt, "harness", 0, NoTurn)
           \/ e.kind = "finished" /\ LogFinished(e.turn, e.stop)
           \/ e.kind \notin {"started", "finished"} /\ UNCHANGED turns
    BY <1>4 DEF HandleEvent, LogInjected, LogChunk, AfterCommand
  <2>2. /\ Told(events', turns)
        /\ e.kind = "started" => \A i \in DOMAIN events' :
             events'[i].kind = "started" => events'[i].turn # e.turn
    BY <1>b, <2>1, ToldTail DEF Distinctly
  <2>3. e.kind = "started" => \A j \in DOMAIN turns : turns[j].id # e.turn
    <3>1. 1 \in DOMAIN events /\ e = events[1]
      BY <1>b, <2>1, Taken
    <3>2. QED
      BY <3>1 DEF Distinctly, Told
  <2> HIDE DEF e
  <2>4. CASE e.kind = "started" /\ LogStarted(e.turn, e.prompt, "harness", 0, NoTurn)
    BY <1>s, <2>1, <2>2, <2>3, <2>4
  <2>5. CASE Kept \/ UNCHANGED turns
    <3>1. Told(events', turns')
      BY <1>1, <2>2, <2>5
    <3>2. \A i, j \in DOMAIN turns' : turns'[i].id = turns'[j].id => i = j
      BY <1>k, <2>5 DEF Distinctly
    <3>3. QED
      BY <2>1, <3>1, <3>2 DEF Distinctly
  <2>6. QED
    BY <2>1, <2>4, <2>5, FinishedKept
<1>5. QED
  BY <1>2, <1>3, <1>4, KeptStep

\* A plan is of the last turn of the log it was made from.
LEMMA PlanIsLast ==
  ASSUME turns \in Seq(Turns), PlanRecovery(turns) # NoPlan, NEW w, w
  PROVE  /\ PlanRecovery(turns).attempt <= MaxAttempts
         /\ Behind(turns, PlanRecovery(turns).of, w)
<1> DEFINE r == turns[Len(turns)]
<1>1. turns # <<>> /\ ~(r.stop # "open" \/ r.attempt + 1 > MaxAttempts)
  BY DEF PlanRecovery
<1>2. PlanRecovery(turns) = [of |-> r.id, attempt |-> r.attempt + 1]
  BY <1>1 DEF PlanRecovery
<1>3. Len(turns) \in DOMAIN turns /\ r \in Turns
  BY <1>1, EmptySeq, ElementOfSeq
<1>4. r.attempt \in Nat /\ MaxAttempts \in Nat
  BY <1>3, ConstantsOK DEF Turns
<1> HIDE DEF r
<1>5. PlanRecovery(turns).of = r.id /\ PlanRecovery(turns).attempt = r.attempt + 1
  BY <1>2
<1>6. Behind(turns, r.id, w)
  BY <1>3 DEF Behind, r
<1>7. r.attempt + 1 <= MaxAttempts
  BY <1>1, <1>4
<1>8. QED
  BY <1>5, <1>6, <1>7

\* What is planned, asked for or written keeps to the order, whatever a step does to
\* the turns of the log.
LEMMA PlannedStep ==
  Typing /\ Typing' /\ Numbered /\ Runs /\ Resumes /\ Creating /\ Asking /\ Planned
    /\ [Next]_vars => Planned'
<1> SUFFICES ASSUME Typing, Typing', Numbered, Runs, Resumes, Creating, Asking, Planned,
                    [Next]_vars, (recovering \/ held > 0)'
             PROVE  plan'.attempt <= MaxAttempts /\ Behind(turns', plan'.of, Ahead')
  BY DEF Planned
<1>b. turns \in Seq(Turns) /\ turns' \in Seq(Turns)
  BY DEF Typing, TypeOK, LogTypeOK
<1>1. CASE Starting
  <2>1. /\ LogStarted(job.turn, job.prompt, job.cause, job.attempt, job.of)
        /\ pc = "starting" /\ UNCHANGED <<plan, recovering, held>>
    BY <1>1 DEF Starting, At, recoverVars
  <2>2. /\ Prolongs(turns, turns') /\ Len(turns') = Len(turns) + 1
        /\ turns'[Len(turns) + 1].cause = job.cause
    BY <2>1, StartedLast
  <2>3. plan.attempt <= MaxAttempts /\ Behind(turns, plan.of, Ahead)
    BY <2>1 DEF Planned
  <2>4. Ahead => job.cause # "queue"
    BY <2>1 DEF Ahead
  <2>5. Behind(turns', plan.of, Ahead')
    BY <1>b, <2>2, <2>3, <2>4, AddedBehind
  <2>6. QED
    BY <2>1, <2>3, <2>5
<1>2. CASE HandleEvent
  <2> DEFINE e == Head(events)
  <2>1. /\ UNCHANGED <<plan, recovering, held, sess>> /\ pc = "loop" /\ pc' = "tail"
        /\ \/ LogStarted(e.turn, e.prompt, "harness", 0, NoTurn)
           \/ LogFinished(e.turn, e.stop)
           \/ UNCHANGED <<turns, turnActive>>
    BY <1>2 DEF HandleEvent, LogInjected, LogChunk, AfterCommand, Waiting, At, recoverVars
  <2>2. plan.attempt <= MaxAttempts /\ Behind(turns, plan.of, Ahead)
    BY <2>1 DEF Planned
  <2>3. CASE LogStarted(e.turn, e.prompt, "harness", 0, NoTurn)
    <3>1. /\ Prolongs(turns, turns') /\ Len(turns') = Len(turns) + 1
          /\ turns'[Len(turns) + 1].cause = "harness"
      BY <2>3, StartedLast
    <3>2. Behind(turns', plan.of, Ahead')
      BY <1>b, <2>2, <3>1, AddedBehind
    <3>3. QED
      BY <2>1, <2>2, <3>2
  <2>4. CASE LogFinished(e.turn, e.stop) \/ UNCHANGED <<turns, turnActive>>
    <3>1. Kept
      BY <1>b, <2>4, FinishedKept DEF Kept, Prolongs
    <3>2. turnActive' = turnActive \/ turnActive' = NoTurn
      BY <2>4 DEF LogFinished, GuardAfter
    <3>3. Ahead => Ahead'
      BY <2>1, <3>2 DEF Ahead
    <3>4. Behind(turns', plan.of, Ahead')
      BY <1>b, <2>2, <3>1, <3>3, StillBehind DEF Kept
    <3>5. QED
      BY <2>1, <2>2, <3>4
  <2>5. QED
    BY <2>1, <2>3, <2>4
<1>3. CASE Restore
  <2>1. /\ ~live /\ held = 0 /\ ~recovering /\ ~sess /\ pc # "starting"
        /\ UNCHANGED <<turns, held, sess, pc>>
    BY <1>3 DEF Restore, Asking, Runs, Typing, TypeOK, ServerTypeOK, actorVars
  <2>2. recovering' /\ plan' = PlanRecovery(turns) /\ PlanRecovery(turns) # NoPlan
    <3>1. ~(held' > 0)
      BY <2>1
    <3>2. recovering'
      BY <3>1
    <3>3. \/ UNCHANGED recovering
          \/ plan' = PlanRecovery(turns) /\ recovering' = (PlanRecovery(turns) # NoPlan)
      BY <1>3 DEF Restore
    <3>4. QED
      BY <2>1, <3>2, <3>3, Zenon
  <2>3. Ahead'
    BY <2>1, <2>2 DEF Ahead
  <2>4. /\ PlanRecovery(turns).attempt <= MaxAttempts
        /\ Behind(turns, PlanRecovery(turns).of, Ahead')
    BY <1>b, <2>2, <2>3, PlanIsLast
  <2>5. QED
    BY <2>1, <2>2, <2>4
<1>4. CASE Kept /\ plan' = plan /\ (recovering \/ held > 0) /\ (Ahead => Ahead')
  <2>1. plan.attempt <= MaxAttempts /\ Behind(turns, plan.of, Ahead)
    BY <1>4 DEF Planned
  <2>2. Behind(turns', plan.of, Ahead')
    BY <1>b, <1>4, <2>1, StillBehind DEF Kept
  <2>3. QED
    BY <1>4, <2>1, <2>2
<1>5. QED
  BY <1>1, <1>2, <1>3, <1>4, KeptStep, AheadStep

\* The continuation the loop is about to write is of a turn of the log.
LEMMA ContinuesStep ==
  Typing /\ Typing' /\ Runs /\ Planned /\ Continues /\ [Next]_vars => Continues'
<1> SUFFICES ASSUME Typing, Typing', Runs, Planned, Continues, [Next]_vars,
                    pc' = "starting", job'.cause = "restart"
             PROVE  job'.attempt <= MaxAttempts /\ Precedes(turns', Len(turns') + 1, job'.of)
  BY DEF Continues
<1>b. /\ turns \in Seq(Turns) /\ turns' \in Seq(Turns)
      /\ DOMAIN turns = 1..Len(turns) /\ Len(turns) \in Nat
  BY DEF Typing, TypeOK, LogTypeOK
<1>1. CASE UNCHANGED <<pc, job>> /\ Kept
  <2>1. job.attempt <= MaxAttempts /\ Precedes(turns, Len(turns) + 1, job.of)
    BY <1>1 DEF Continues
  <2>2. Len(turns) + 1 \in 1..(Len(turns) + 1)
    BY <1>b
  <2>3. Precedes(turns', Len(turns) + 1, job.of)
    BY <1>1, <1>b, <2>1, <2>2, StillPrecedes DEF Kept
  <2>4. QED
    BY <1>1, <2>1, <2>3 DEF Kept
<1>2. CASE /\ pc # "starting" /\ UNCHANGED turns
           /\ held > 0 /\ job'.attempt = plan.attempt /\ job'.of = plan.of
  <2>1. plan.attempt <= MaxAttempts /\ Behind(turns, plan.of, Ahead)
    BY <1>2 DEF Planned
  <2>2. PICK i \in DOMAIN turns : /\ turns[i].id = plan.of
                                  /\ i < Len(turns) => turns[i + 1].cause # "queue"
    BY <2>1 DEF Behind
  <2>3. i \in 1..((Len(turns) + 1) - 1) /\ (i + 1 < Len(turns) + 1 => i < Len(turns))
    BY <1>b
  <2>4. Precedes(turns, Len(turns) + 1, plan.of)
    BY <2>2, <2>3 DEF Precedes
  <2>5. QED
    BY <1>2, <2>1, <2>4
<1>3. QED
  BY <1>1, <1>2, NextTurn

\* Every continuation in the log is, and stays so when the log grows.
LEMMA ContinuedStep ==
  Typing /\ Typing' /\ Continues /\ Continued /\ [Next]_vars => Continued'
<1> SUFFICES ASSUME Typing, Typing', Continues, Continued, [Next]_vars PROVE Continued'
  OBVIOUS
<1>b. /\ turns \in Seq(Turns) /\ turns' \in Seq(Turns)
      /\ DOMAIN turns = 1..Len(turns) /\ Len(turns) \in Nat
  BY DEF Typing, TypeOK, LogTypeOK
<1>1. ASSUME Prolongs(turns, turns'), NEW k \in DOMAIN turns, turns'[k].cause = "restart"
      PROVE  turns'[k].attempt <= MaxAttempts /\ Precedes(turns', k, turns'[k].of)
  <2>1. /\ turns'[k].cause = turns[k].cause /\ turns'[k].of = turns[k].of
        /\ turns'[k].attempt = turns[k].attempt
    BY <1>1 DEF Prolongs
  <2>2. turns[k].attempt <= MaxAttempts /\ Precedes(turns, k, turns[k].of)
    BY <1>1, <2>1 DEF Continued
  <2>3. k \in 1..(Len(turns) + 1)
    BY <1>b
  <2>4. Precedes(turns', k, turns[k].of)
    BY <1>1, <1>b, <2>2, <2>3, StillPrecedes
  <2>5. QED
    BY <2>1, <2>2, <2>4
<1>2. CASE Kept
  <2>1. DOMAIN turns' = DOMAIN turns
    BY <1>2, <1>b DEF Kept
  <2>2. QED
    BY <1>1, <1>2, <2>1 DEF Continued, Kept
<1>s. ASSUME NEW t, NEW p, NEW c, NEW a, NEW o, LogStarted(t, p, c, a, o),
             c = "restart" => a <= MaxAttempts /\ Precedes(turns, Len(turns) + 1, o)
      PROVE  Continued'
  <2>1. /\ Prolongs(turns, turns') /\ Len(turns') = Len(turns) + 1
        /\ turns'[Len(turns) + 1].cause = c
        /\ turns'[Len(turns) + 1].attempt = a /\ turns'[Len(turns) + 1].of = o
    BY <1>s, StartedLast
  <2>2. \A k \in DOMAIN turns' : k \in DOMAIN turns \/ k = Len(turns) + 1
    BY <1>b, <2>1
  <2>3. Len(turns) + 1 \in 1..(Len(turns) + 1)
    BY <1>b
  <2>4. c = "restart" => Precedes(turns', Len(turns) + 1, o)
    BY <1>b, <1>s, <2>1, <2>3, StillPrecedes
  <2>5. ASSUME NEW k \in DOMAIN turns', turns'[k].cause = "restart"
        PROVE  turns'[k].attempt <= MaxAttempts /\ Precedes(turns', k, turns'[k].of)
    <3>1. CASE k \in DOMAIN turns
      BY <1>1, <2>1, <2>5, <3>1
    <3>2. CASE k = Len(turns) + 1
      BY <1>s, <2>1, <2>4, <2>5, <3>2
    <3>3. QED
      BY <2>2, <3>1, <3>2
  <2>6. QED
    BY <2>5 DEF Continued
<1>3. CASE Starting
  <2>1. /\ LogStarted(job.turn, job.prompt, job.cause, job.attempt, job.of)
        /\ pc = "starting"
    BY <1>3 DEF Starting, At
  <2>2. QED
    BY <1>s, <2>1 DEF Continues
<1>4. CASE HandleEvent
  <2>1. \/ \E t, p : LogStarted(t, p, "harness", 0, NoTurn)
        \/ \E t, s : LogFinished(t, s)
        \/ UNCHANGED turns
    BY <1>4 DEF HandleEvent, LogInjected, LogChunk
  <2>2. CASE \E t, p : LogStarted(t, p, "harness", 0, NoTurn)
    BY <1>s, <2>2
  <2>3. UNCHANGED turns => Kept
    BY <1>b DEF Kept, Prolongs
  <2>4. QED
    BY <1>2, <2>1, <2>2, <2>3, FinishedKept
<1>5. QED
  BY <1>2, <1>3, <1>4, KeptStep

\* The order holds at every step.
LEMMA OrderCorrect == Spec => [](Typing /\ OrderInv)
<1>1. Init => OrderInv
  <2> SUFFICES ASSUME Init PROVE OrderInv
    OBVIOUS
  <2>1. /\ turns = <<>> /\ events = <<>> /\ pc = "loop" /\ live /\ held = 0 /\ recs = 0
        /\ ~recovering
    BY DEF Init
  <2>2. DOMAIN turns = {} /\ DOMAIN events = {}
    BY <2>1
  <2>3. Distinctly /\ Continued /\ Continues
    BY <2>1, <2>2 DEF Distinctly, Told, Continued, Continues
  <2>4. Asking /\ Planned
    BY <2>1 DEF Asking, Planned
  <2>5. QED
    BY <2>3, <2>4 DEF OrderInv
<1>2. Typing /\ Typing' /\ GuardInv /\ OrderInv /\ [Next]_vars => OrderInv'
  <2> SUFFICES ASSUME Typing, Typing', GuardInv, OrderInv, [Next]_vars PROVE OrderInv'
    OBVIOUS
  <2>1. Numbered /\ Runs /\ Resumes /\ Creating
    BY DEF GuardInv
  <2>2. Distinctly /\ Asking /\ Planned /\ Continues /\ Continued
    BY DEF OrderInv
  <2>3. Distinctly'
    BY <2>1, <2>2, DistinctlyStep
  <2>4. Asking' /\ Planned'
    BY <2>1, <2>2, AskingStep, PlannedStep
  <2>5. Continues' /\ Continued'
    BY <2>1, <2>2, ContinuesStep, ContinuedStep
  <2>6. QED
    BY <2>3, <2>4, <2>5 DEF OrderInv
<1>3. QED
  BY <1>1, <1>2, GuardCorrect, PTL DEF Spec

\* Interrupted work is continued at most MaxAttempts times in a row, from a turn of the
\* log, and what directly follows it there is never the queue's, over any chain of
\* stops, crashes and starts, and however many Gets ask at once (actor.go
\* dispatchQueued, cmdPrompt, cmdCancel, cmdContinue; recovery.go Recover, recoverAll;
\* projection/recovery.go).
THEOREM RecoveryIsInOrder == Spec => []RecoveryInOrder
<1>1. Typing /\ OrderInv => RecoveryInOrder
  <2> SUFFICES ASSUME Typing, OrderInv PROVE RecoveryInOrder
    OBVIOUS
  <2>1. \A k \in DOMAIN turns : turns[k].cause = "restart" =>
          turns[k].attempt <= MaxAttempts /\ Precedes(turns, k, turns[k].of)
    BY DEF OrderInv, Continued
  <2>2. RecoveryBounded
    BY <2>1 DEF RecoveryBounded, Precedes
  <2>3. ASSUME NEW i \in DOMAIN turns, NEW k \in DOMAIN turns,
               turns[k].cause = "restart", turns[i].id = turns[k].of, i < k
        PROVE  turns[i + 1].cause # "queue"
    <3>1. DOMAIN turns = 1..Len(turns) /\ Len(turns) \in Nat
      BY DEF Typing, TypeOK, LogTypeOK
    <3>2. PICK j \in 1..(k - 1) : /\ turns[j].id = turns[k].of
                                  /\ j + 1 < k => turns[j + 1].cause # "queue"
      BY <2>1, <2>3 DEF Precedes
    <3>3. j \in DOMAIN turns /\ (j + 1 < k \/ j + 1 = k)
      BY <3>1
    <3>4. j = i
      BY <2>3, <3>2, <3>3 DEF OrderInv, Distinctly
    <3>5. QED
      BY <2>3, <3>2, <3>3, <3>4
  <2>4. QED
    BY <2>2, <2>3 DEF RecoveryInOrder, ContinuationFirst
<1>2. QED
  BY <1>1, OrderCorrect, PTL

-----------------------------------------------------------------------------
(* Phase and guard, for a harness that starts no turn of its own.          *)

\* No harness that resumes work by itself or reads steers, and no provisioning.
Plain == Features \cap {"self", "steer", "create"} = {}

\* Such a harness holds no steers, and its thread was provisioned before.
Alone == prov = "none" /\ steers = {}

\* The channel carries what became of the guarded turn, its end last.
Calm ==
  \A i \in DOMAIN events :
    /\ events[i].kind \in {"finished", "chunk"} /\ events[i].turn = Guard
    /\ events[i].kind = "finished" => i = Len(events) /\ hturn = NoTurn

\* At most the last turn of the log is open, and the guard g is its.
Lone(ts) == OpenAt(ts) \subseteq {Len(ts)} /\ \A i \in DOMAIN ts : ts[i].id # NoTurn
Agreed(ts, g) ==
  /\ g = NoTurn <=> OpenAt(ts) = {}
  /\ g # NoTurn => ts[Len(ts)].id = g

\* So it is but for a turn about to be written and for a closed thread.
Opens ==
  /\ Lone(turns)
  /\ ~live => turnActive = NoTurn
  /\ live => IF pc = "starting" THEN OpenAt(turns) = {}
             ELSE Agreed(turns, turnActive) \/ (closed /\ ~sess /\ turnActive = NoTurn)
  /\ closed /\ sess => pc = "exiting"
  /\ pc = "dropping" /\ job.turn # NoTurn => job.turn = turnActive

\* The phase says whether a turn is open.
Phased ==
  /\ row \in {"idle", "turn", "closed"}
  /\ rowdue \in {"none", "idle", "turn", "closed"}
  /\ ~closed => phase \in {"idle", "turn"} /\ (phase = "turn" <=> OpenAt(turns) # {})

PhaseInv == FinishesClose /\ Alone /\ Calm /\ Opens /\ Phased

\* The row follows the phase, one write behind, where the server dies in no other
\* place than after it.
Followed ==
  /\ rowdue = "none" \/ rowdue = phase
  /\ rowdue = "none" => row = phase
  /\ closed => phase = "closed" /\ (pc = "exiting" \/ (~sess /\ turnActive = NoTurn))
  /\ ~live => rowdue = "none"
  /\ ~up => ~live

\* No steer reaches it and nothing provisions it again.
LEMMA AloneStep == Plain /\ Alone /\ [Next]_vars => Alone'
<1> SUFFICES ASSUME Plain, Alone, [Next]_vars PROVE Alone'
  OBVIOUS
<1> USE DEF logVars, managerVars, recoverVars, actorVars, harnessVars, historyVars
<1>1. CASE CloseThread
  BY <1>1 DEF CloseThread, OwePhase, Waiting, At, Alone
<1>2. CASE OtherCommand
  BY <1>2 DEF OtherCommand, Waiting, At, AfterCommand, Alone
<1>3. CASE GetIdle
  BY <1>3 DEF GetIdle, Activate, Waiting, At, Alone
<1>4. CASE GetTurn
  BY <1>4 DEF GetTurn, ReadTurnRow, Alone
<1>5. CASE SyncRow
  BY <1>5 DEF SyncRow, Alone
<1>6. CASE Sending
  BY <1>6 DEF Sending, At, AfterTurn, AfterCommand, Alone
<1>7. CASE Dispatch
  BY <1>7 DEF Dispatch, StartTurn, MayDispatch, At, Alone
<1>8. CASE FinishGet
  BY <1>8 DEF FinishGet, Activate, AfterCommand, Waiting, At, Alone
<1>9. CASE RecoverRead
  BY <1>9 DEF RecoverRead, Alone
<1>10. CASE RecoverPrompt
  BY <1>10 DEF RecoverPrompt, StartTurn, TakePlan, AfterCommand, Waiting, At, Alone
<1>11. CASE Continue
  BY <1>11 DEF Continue, StartTurn, TakePlan, AfterCommand, Waiting, At, Alone
<1>12. CASE BootScan
  BY <1>12 DEF BootScan, ReadTurnRow, Alone
<1>13. CASE ProvActivate
  BY <1>13 DEF ProvActivate, AfterCommand, Waiting, At, Alone
<1>14. CASE ProvRow
  BY <1>14 DEF ProvRow, Alone
<1>15. CASE ProvReady
  BY <1>15 DEF ProvReady, AfterCommand, Waiting, At, Alone
<1>16. CASE ProvError
  BY <1>16 DEF ProvError, Alone
<1>17. CASE ProvFailed
  BY <1>17 DEF ProvFailed, Alone
<1>18. CASE ProvReport
  BY <1>18 DEF ProvReport, AfterCommand, Waiting, At, Alone
<1>19. CASE Restore
  BY <1>19 DEF Restore, Alone
<1>20. CASE Stop
  BY <1>20 DEF Stop, Waiting, At, Alone
<1>21. CASE Halt
  BY <1>21 DEF Halt, Alone
<1>22. CASE Start
  BY <1>22 DEF Start, Alone
<1>23. CASE UNCHANGED vars
  BY <1>23 DEF vars, Alone
<1>24. CASE Exiting
  BY <1>24 DEF Exiting, ActorGone, At, Alone
<1>25. CASE Crash
  BY <1>25 DEF Crash, ActorGone, Alone
<1>26. CASE Refused
  BY <1>26 DEF Refused, At, AfterTurn, AfterCommand, Alone
<1>27. CASE Closing
  BY <1>27 DEF Closing, At, AfterCommand, Alone
<1>28. CASE HandleExit
  BY <1>28 DEF HandleExit, Waiting, At, Alone
<1>29. CASE HSelfStart
  BY <1>29 DEF HSelfStart, Running, Emit, Plain, Alone
<1>30. CASE HChunk
  BY <1>30 DEF HChunk, Running, Emit, Alone
<1>31. CASE HFinish
  BY <1>31 DEF HFinish, Running, Emit, Alone
<1>32. CASE HExit
  BY <1>32 DEF HExit, Emit, Alone
<1>33. CASE (\E q \in Prompts : HRead(q))
  BY <1>33 DEF HRead, Running, Emit, Alone
<1>34. CASE Cancel
  BY <1>34 DEF Cancel, CancelledEvent, TakePlan, Waiting, At, Alone
<1>35. CASE (\E p \in Prompts : Prompt(p))
  BY <1>35 DEF Prompt, StartTurn, Waiting, At, Plain, Alone
<1>36. CASE Starting
  BY <1>36 DEF Starting, At, Alone
<1>37. CASE Queueing
  BY <1>37 DEF Queueing, At, AfterCommand, Alone
<1>38. CASE (\E q \in Prompts : Dequeue(q))
  BY <1>38 DEF Dequeue, AfterCommand, Waiting, At, Alone
<1>39. CASE Dropping
  BY <1>39 DEF Dropping, At, AfterCommand, Alone
<1>40. CASE HandleEvent
  BY <1>40 DEF HandleEvent, AfterCommand, Waiting, At, Alone
<1>41. QED
  BY <1>1, <1>2, <1>3, <1>4, <1>5, <1>6, <1>7, <1>8, <1>9, <1>10, <1>11, <1>12, <1>13,
     <1>14, <1>15, <1>16, <1>17, <1>18, <1>19, <1>20, <1>21, <1>22, <1>23, <1>24,
     <1>25, <1>26, <1>27, <1>28, <1>29, <1>30, <1>31, <1>32, <1>33, <1>34, <1>35,
     <1>36, <1>37, <1>38, <1>39, <1>40
  DEF Next, Presenter, ActorStep, Reaction, Provision, HarnessStep, Server

\* What one event adds to a calm channel leaves it calm.
LEMMA CalmEmit ==
  ASSUME NEW es \in Seq(Events), NEW k \in {"finished", "chunk"}, NEW g, NEW h, NEW p, NEW s,
         \A i \in DOMAIN es : /\ es[i].kind \in {"finished", "chunk"} /\ es[i].turn = g
                              /\ es[i].kind # "finished",
         k = "finished" => h = NoTurn
  PROVE  LET ns == Append(es, [kind |-> k, turn |-> g, prompt |-> p, stop |-> s])
         IN  \A i \in DOMAIN ns :
               /\ ns[i].kind \in {"finished", "chunk"} /\ ns[i].turn = g
               /\ ns[i].kind = "finished" => i = Len(ns) /\ h = NoTurn
<1> DEFINE e == [kind |-> k, turn |-> g, prompt |-> p, stop |-> s]
           ns == Append(es, e)
<1>e. e.kind = k /\ e.turn = g
  OBVIOUS
<1> HIDE DEF e
<1>1. /\ Len(es) \in Nat /\ DOMAIN es = 1..Len(es)
      /\ DOMAIN ns = 1..(Len(es) + 1) /\ ns[Len(es) + 1] = e
      /\ \A i \in DOMAIN es : i \in DOMAIN ns /\ ns[i] = es[i]
      /\ \A i \in DOMAIN ns : i \in DOMAIN es \/ i = Len(es) + 1
  BY Appended
<1>2. Len(ns) = Len(es) + 1
  OBVIOUS
<1> HIDE DEF ns
<1>3. \A i \in DOMAIN ns :
        /\ ns[i].kind \in {"finished", "chunk"} /\ ns[i].turn = g
        /\ ns[i].kind = "finished" => i = Len(ns) /\ h = NoTurn
  BY <1>e, <1>1, <1>2
<1>4. QED
  BY <1>3 DEF ns, e

\* The channel of a plain harness stays calm.
LEMMA CalmStep ==
  Plain /\ Typing /\ GuardInv /\ GuardInv' /\ Alone /\ Alone' /\ Calm /\ [Next]_vars => Calm'
<1> SUFFICES ASSUME Plain, Typing, GuardInv, GuardInv', Alone, Alone', Calm, [Next]_vars
             PROVE  Calm'
  OBVIOUS
<1> USE DEF logVars, managerVars, recoverVars, actorVars, harnessVars, historyVars
<1>b. /\ events \in Seq(Events) /\ born \in Nat
      /\ Numbered /\ Runs /\ Resumes /\ Creating
      /\ Matched(Guard, hturn, events)
  BY DEF Typing, TypeOK, HarnessTypeOK, GuardInv
<1>e. events' = <<>> => Calm'
  BY DEF Calm, Alone
<1>g. Guard = NoTurn => events = <<>>
  <2>1. SUFFICES ASSUME Guard = NoTurn PROVE events = <<>>
    OBVIOUS
  <2>2. \A i \in DOMAIN events : FALSE
    BY <1>b, <2>1 DEF Calm, Numbered, NoTurn
  <2>3. QED
    BY <1>b, <2>2, EmptySeq
<1>h. hturn # NoTurn => hturn = Guard
  BY <1>b DEF Matched, Begun, Calm
<1>f. hturn # NoTurn => \A i \in DOMAIN events :
        /\ events[i].kind \in {"finished", "chunk"} /\ events[i].turn = Guard
        /\ events[i].kind # "finished"
  BY DEF Calm
<1>1. CASE Quietly
  <2>1. Guard' = Guard
    BY <1>1 DEF Quietly, Sends, Guard
  <2>2. QED
    BY <1>1, <2>1 DEF Quietly, Calm, Alone
<1>2. CASE Activates
  BY <1>2, <1>e, <1>g DEF Activates, Guard
<1>3. CASE Closed
  BY <1>3, <1>e, <1>g DEF Closed, Guard
<1>4. CASE Begins
  BY <1>4, <1>e, <1>g DEF Begins, Guard
<1>5. CASE Ends
  <2>1. UNCHANGED <<hturn, events>>
    BY <1>5 DEF Ends
  <2>2. CASE Guard = NoTurn
    BY <1>e, <1>g, <2>1, <2>2
  <2>3. CASE Guard # NoTurn
    BY <1>5, <1>e, <2>3 DEF Ends, Guard, Sends
  <2>4. QED
    BY <2>2, <2>3
<1>6. CASE Gone
  BY <1>6, <1>e DEF Gone, ActorGone
<1>7. CASE Restore
  BY <1>7, <1>b, <1>e DEF Restore, Runs
<1>8. CASE Starting
  BY <1>8, <1>e, <1>g DEF Starting, At, Guard
<1>9. CASE Sending
  BY <1>9, <1>e, <1>g DEF Sending, At, Guard
<1>10. CASE HandleEvent
  <2>1. /\ events # <<>> /\ events' = Tail(events) /\ UNCHANGED <<hturn, sess>> /\ sess
        /\ pc = "loop" /\ pc' = "tail"
    BY <1>10 DEF HandleEvent, Waiting, At, AfterCommand
  <2>2. /\ 1 \in DOMAIN events /\ Head(events) = events[1]
        /\ \A i \in DOMAIN events' : i + 1 \in DOMAIN events /\ events'[i] = events[i + 1]
    BY <1>b, <2>1, Taken
  <2>3. Len(events') = Len(events) - 1 /\ Len(events) \in Nat \ {0}
    BY <1>b, <2>1, EmptySeq
  <2>4. events[1].kind \in {"finished", "chunk"}
    BY <2>2 DEF Calm
  <2>5. CASE events[1].kind = "finished"
    <3>1. Len(events) = 1
      BY <2>2, <2>5 DEF Calm
    <3>2. events' = <<>>
      BY <1>b, <2>1, <2>3, <3>1, EmptySeq
    <3>3. QED
      BY <3>2, <1>e
  <2>6. CASE events[1].kind = "chunk"
    <3>1. turnActive' = turnActive
      BY <1>10, <2>2, <2>6 DEF HandleEvent, LogChunk
    <3>2. Guard' = Guard
      BY <2>1, <3>1 DEF Guard
    <3>3. \A i \in DOMAIN events' :
            /\ events'[i].kind \in {"finished", "chunk"} /\ events'[i].turn = Guard
            /\ events'[i].kind = "finished" => i + 1 = Len(events) /\ hturn = NoTurn
      BY <2>2 DEF Calm
    <3>4. \A i \in DOMAIN events' : i \in Nat /\ (i + 1 = Len(events) => i = Len(events'))
      BY <1>b, <2>1, <2>3, EmptySeq
    <3>5. QED
      BY <2>1, <3>2, <3>3, <3>4 DEF Calm, Alone
  <2>7. QED
    BY <2>4, <2>5, <2>6
<1>11. CASE Cancel
  <2>1. pc = "loop" /\ pc' = "dropping" /\ UNCHANGED <<sess, turnActive>>
    BY <1>11 DEF Cancel, Waiting, At
  <2>2. Guard' = Guard
    BY <2>1 DEF Guard
  <2>3. UNCHANGED <<hturn, events>> \/ (hturn # NoTurn /\ hturn' = NoTurn /\ CancelledEvent)
    BY <1>11 DEF Cancel
  <2>4. CASE UNCHANGED <<hturn, events>>
    BY <2>2, <2>4 DEF Calm, Alone
  <2>5. CASE hturn # NoTurn /\ hturn' = NoTurn /\ CancelledEvent
    BY <1>b, <1>h, <1>f, <2>2, <2>5, CalmEmit DEF Calm, Alone, CancelledEvent
  <2>6. QED
    BY <2>3, <2>4, <2>5
<1>12. CASE HSelfStart \/ \E q \in Prompts : HRead(q)
  BY <1>12 DEF HSelfStart, HRead, Plain, Alone
<1>13. CASE HChunk \/ HFinish \/ HExit
  <2>1. UNCHANGED <<pc, sess, turnActive>>
    BY <1>13 DEF HChunk, HFinish, HExit
  <2>2. Guard' = Guard
    BY <2>1 DEF Guard
  <2>3. \/ hturn # NoTurn /\ \E k \in {"finished", "chunk"}, s \in Stops :
             Emit(k, hturn, NoPrompt, s) /\ (k = "finished" => hturn' = NoTurn)
        \/ events' = events /\ hturn = NoTurn /\ hturn' = NoTurn
    BY <1>13 DEF HChunk, HFinish, HExit, Stops
  <2>4. CASE events' = events /\ hturn = NoTurn /\ hturn' = NoTurn
    BY <2>2, <2>4 DEF Calm, Alone
  <2>5. CASE hturn # NoTurn /\ \E k \in {"finished", "chunk"}, s \in Stops :
                Emit(k, hturn, NoPrompt, s) /\ (k = "finished" => hturn' = NoTurn)
    BY <1>b, <1>h, <1>f, <2>2, <2>5, CalmEmit DEF Calm, Alone, Emit
  <2>6. QED
    BY <2>3, <2>4, <2>5
<1>14. QED
  BY <1>b, <1>1, <1>2, <1>3, <1>4, <1>5, <1>6, <1>7, <1>8, <1>9, <1>10, <1>11, <1>12, <1>13,
     StepKinds

\* The finish of the guarded turn leaves none open.
LEMMA FinishedLone ==
  ASSUME Typing, Lone(turns), NEW t, NEW s, t # NoTurn, s # "open", LogFinished(t, s),
         turnActive = t, Agreed(turns, t)
  PROVE  /\ Lone(turns') /\ OpenAt(turns') = {} /\ turnActive' = NoTurn
         /\ phase' = "idle" /\ rowdue' = (IF phase # "idle" THEN "idle" ELSE "none")
<1>1. turns \in Seq(Turns) /\ DOMAIN turns = 1..Len(turns)
  BY DEF Typing, TypeOK, LogTypeOK
<1>2. OpenAt(turns) = {Len(turns)} /\ turns[Len(turns)].id = t
  BY DEF Lone, Agreed
<1>3. \A i \in DOMAIN turns :
        /\ [turns[i] EXCEPT !.stop = s].id = turns[i].id
        /\ [turns[i] EXCEPT !.stop = s].stop = s
  <2>1. \A i \in DOMAIN turns : turns[i] \in Turns
    BY <1>1, ElementOfSeq
  <2>2. QED
    BY <2>1 DEF Turns
<1>4. /\ DOMAIN turns' = DOMAIN turns
      /\ \A i \in DOMAIN turns :
           turns'[i] = IF turns[i].id = t THEN [turns[i] EXCEPT !.stop = s] ELSE turns[i]
  BY DEF LogFinished
<1>5. \A i \in DOMAIN turns : turns'[i].stop # "open" /\ turns'[i].id = turns[i].id
  BY <1>2, <1>3, <1>4 DEF OpenAt
<1>6. OpenAt(turns') = {} /\ Lone(turns')
  BY <1>4, <1>5 DEF OpenAt, Lone
<1>7. IsNewestOpen(turns, t)
  BY <1>2 DEF IsNewestOpen
<1>8. QED
  BY <1>6, <1>7 DEF LogFinished, OwePhase, GuardAfter

\* A start leaves its own turn open and no other.
LEMMA StartedLone ==
  ASSUME Typing, Lone(turns), OpenAt(turns) = {}, NEW t, NEW p, NEW c, NEW a, NEW o,
         t # NoTurn, LogStarted(t, p, c, a, o)
  PROVE  Lone(turns') /\ OpenAt(turns') # {} /\ Agreed(turns', t)
<1> DEFINE r == [id |-> t, prompt |-> p, cause |-> c, attempt |-> a, of |-> o,
                 stop |-> "open"]
<1>1. /\ turns' = Append(turns, r) /\ turns \in Seq(Turns)
      /\ r.id = t /\ r.stop = "open"
  BY DEF LogStarted, Typing, TypeOK, LogTypeOK
<1> HIDE DEF r
<1>2. /\ DOMAIN turns = 1..Len(turns) /\ Len(turns) \in Nat
      /\ Len(turns') = Len(turns) + 1 /\ DOMAIN turns' = 1..(Len(turns) + 1)
      /\ \A i \in 1..Len(turns) : turns'[i] = turns[i]
      /\ turns'[Len(turns) + 1] = r
  BY <1>1
<1>3. \A i \in DOMAIN turns' : i \in DOMAIN turns \/ i = Len(turns')
  BY <1>2
<1>4. OpenAt(turns') = {Len(turns')}
  BY <1>1, <1>2, <1>3 DEF OpenAt
<1>5. \A i \in DOMAIN turns' : turns'[i].id # NoTurn
  BY <1>1, <1>2, <1>3 DEF Lone
<1>6. QED
  BY <1>1, <1>2, <1>4, <1>5 DEF Lone, Agreed

\* A restored actor guards the open turn, if there is one.
LEMMA RestoredAgrees ==
  ASSUME NEW ts \in Seq(Turns), Lone(ts)
  PROVE  Agreed(ts, LastOpen(ts))
<1>1. CASE OpenAt(ts) = {}
  BY <1>1 DEF LastOpen, Agreed
<1>2. CASE OpenAt(ts) # {}
  <2>1. OpenAt(ts) = {Len(ts)} /\ Len(ts) \in Nat
    BY <1>2 DEF Lone
  <2>2. (CHOOSE i \in OpenAt(ts) : \A j \in OpenAt(ts) : j <= i) = Len(ts)
    BY <2>1
  <2>3. LastOpen(ts) = ts[Len(ts)].id
    BY <1>2, <2>2 DEF LastOpen
  <2>4. Len(ts) \in DOMAIN ts
    BY <2>1 DEF OpenAt
  <2>5. QED
    BY <1>2, <2>3, <2>4 DEF Agreed, Lone
<1>3. QED
  BY <1>1, <1>2

\* The guarded turn has ended in the log.
Done ==
  /\ live /\ rowdue = "none" /\ pc # "exiting" /\ ~(closed /\ sess)
  /\ UNCHANGED <<row, up, live, sess, closed>>
  /\ turnActive # NoTurn /\ turnActive' = NoTurn
  /\ Lone(turns') /\ OpenAt(turns') = {}
  /\ phase' = "idle" /\ rowdue' = (IF phase # "idle" THEN "idle" ELSE "none")
  /\ pc' \notin {"starting", "dropping"}

\* Whatever the actor writes after a turn, it ends the guarded turn with or none.
LEMMA WritesEnd ==
  Typing /\ GuardInv /\ FinishesClose /\ Calm /\ Opens /\ Phased
    /\ (Refused \/ Closing \/ HandleExit \/ Dropping \/ HandleEvent)
  => Done \/ (~Refused /\ UNCHANGED <<turns, turnActive, phase, closed, rowdue>>)
<1> SUFFICES ASSUME Typing, GuardInv, FinishesClose, Calm, Opens, Phased
             PROVE  Refused \/ Closing \/ HandleExit \/ Dropping \/ HandleEvent =>
                      \/ Done
                      \/ ~Refused /\ UNCHANGED <<turns, turnActive, phase, closed, rowdue>>
  OBVIOUS
<1> USE DEF logVars, managerVars, recoverVars, actorVars, harnessVars, historyVars
<1>b. Numbered /\ Runs /\ events \in Seq(Events) /\ turns \in Seq(Turns)
  BY DEF GuardInv, Typing, TypeOK, LogTypeOK, HarnessTypeOK
<1>f. ASSUME NEW t, NEW s, LogFinished(t, s), t = turnActive, t # NoTurn, s # "open",
             live, rowdue = "none", pc \notin {"exiting", "starting"},
             UNCHANGED <<row, up, live, sess>>, pc' \notin {"starting", "dropping"}
      PROVE  Done
  <2>1. ~(closed /\ sess) /\ Lone(turns) /\ Agreed(turns, t)
    BY <1>f DEF Opens
  <2>2. /\ Lone(turns') /\ OpenAt(turns') = {} /\ turnActive' = NoTurn
        /\ phase' = "idle" /\ rowdue' = (IF phase # "idle" THEN "idle" ELSE "none")
    BY <1>f, <2>1, FinishedLone
  <2>3. closed' = closed
    BY <1>f DEF LogFinished
  <2>4. QED
    BY <1>f, <2>1, <2>2, <2>3 DEF Done
<1>1. CASE Refused
  <2>1. /\ live /\ pc = "sending" /\ rowdue = "none" /\ LogFinished(job.turn, "error")
        /\ UNCHANGED <<row, up, live, sess>> /\ pc' \in {"loop", "tail"}
    BY <1>1 DEF Refused, At, AfterTurn, AfterCommand
  <2>2. job.turn = turnActive /\ job.turn # NoTurn
    BY <1>b, <2>1 DEF Numbered, NoTurn
  <2>3. QED
    BY <1>f, <2>1, <2>2
<1>2. CASE Closing
  <2>1. /\ live /\ pc = "closing" /\ rowdue = "none" /\ sess /\ ~Refused
        /\ UNCHANGED <<row, up, live, sess>> /\ pc' \in {"closing", "tail"}
    BY <1>2, <1>b DEF Closing, Refused, At, AfterCommand, Runs
  <2>2. CASE OpenAt(turns) = {} /\ UNCHANGED <<logVars, rowdue, turnActive>>
    BY <2>1, <2>2
  <2>3. ASSUME NEW i \in OpenAt(turns), LogFinished(turns[i].id, "error")
        PROVE  Done
    <3>1. Lone(turns) /\ Agreed(turns, turnActive)
      BY <2>1 DEF Opens
    <3>2. turns[i].id = turnActive /\ turnActive # NoTurn
      BY <2>3, <3>1 DEF Lone, Agreed
    <3>3. QED
      BY <1>f, <2>1, <2>3, <3>2
  <2>4. QED
    BY <1>2, <2>1, <2>2, <2>3 DEF Closing
<1>3. CASE HandleExit
  <2>1. /\ live /\ pc = "loop" /\ rowdue = "none" /\ ~Refused
        /\ UNCHANGED <<row, up, live, sess>> /\ pc' = "exiting"
    BY <1>3 DEF HandleExit, Refused, Waiting, At
  <2>2. CASE turnActive # NoTurn /\ LogFinished(turnActive, "error")
    BY <1>f, <2>1, <2>2
  <2>3. QED
    BY <1>3, <2>1, <2>2 DEF HandleExit
<1>4. CASE Dropping
  <2>1. /\ live /\ pc = "dropping" /\ rowdue = "none" /\ ~Refused
        /\ UNCHANGED <<row, up, live, sess>>
    BY <1>4 DEF Dropping, Refused, At
  <2>2. CASE job.turn # NoTurn /\ LogFinished(job.turn, "cancelled") /\ pc' = "tail"
    <3>1. job.turn = turnActive
      BY <2>1, <2>2 DEF Opens
    <3>2. QED
      BY <1>f, <2>1, <2>2, <3>1
  <2>3. CASE UNCHANGED <<turns, turnActive, phase, closed, rowdue>>
    BY <2>1, <2>3
  <2>4. QED
    BY <1>4, <2>2, <2>3 DEF Dropping, AfterCommand
<1>5. CASE HandleEvent
  <2> DEFINE e == Head(events)
  <2>1. /\ live /\ pc = "loop" /\ rowdue = "none" /\ ~Refused /\ sess /\ events # <<>>
        /\ UNCHANGED <<row, up, live, sess>> /\ pc' = "tail"
    BY <1>5 DEF HandleEvent, Refused, Waiting, At, AfterCommand
  <2>2. 1 \in DOMAIN events /\ e = events[1]
    BY <1>b, <2>1, Taken
  <2>3. /\ e.kind \in {"finished", "chunk"} /\ e.turn = turnActive /\ e.turn # NoTurn
        /\ e.kind = "finished" => e.stop # "open"
    BY <1>b, <2>1, <2>2 DEF Calm, Guard, Numbered, NoTurn, FinishesClose
  <2> HIDE DEF e
  <2>4. CASE e.kind = "finished" /\ LogFinished(e.turn, e.stop)
    BY <1>f, <2>1, <2>3, <2>4
  <2>5. CASE LogChunk
    <3>1. ~closed /\ OpenAt(turns) # {}
      BY <2>1, <2>3 DEF Opens, Agreed
    <3>2. phase = "turn"
      BY <3>1 DEF Phased
    <3>3. QED
      BY <2>1, <2>5, <3>2 DEF LogChunk, OwePhase
  <2>6. QED
    BY <1>5, <2>3, <2>4, <2>5 DEF HandleEvent, e
<1>6. QED
  BY <1>1, <1>2, <1>3, <1>4, <1>5

\* At most one turn is open, and guarded.
LEMMA OpensStep ==
  Plain /\ Typing /\ GuardInv /\ FinishesClose /\ Alone /\ Calm /\ Opens /\ Phased
    /\ [Next]_vars => Opens'
<1> SUFFICES ASSUME Plain, Typing, GuardInv, FinishesClose, Alone, Calm, Opens, Phased,
                    [Next]_vars
             PROVE  Opens'
  OBVIOUS
<1> USE DEF logVars, managerVars, recoverVars, actorVars, harnessVars, historyVars
<1>b. Numbered /\ Runs /\ Creating /\ turns \in Seq(Turns)
  BY DEF GuardInv, Typing, TypeOK, LogTypeOK
<1>d. Done => Opens'
  BY DEF Done, Opens, Agreed
<1>1. CASE CloseThread
  BY <1>1, <1>b DEF CloseThread, OwePhase, Waiting, At, Opens, Runs
<1>2. CASE OtherCommand
  BY <1>2, <1>b DEF OtherCommand, Waiting, At, AfterCommand, Opens, Runs
<1>3. CASE GetIdle
  BY <1>3, <1>b DEF GetIdle, Activate, Waiting, At, Opens, Runs
<1>4. CASE GetTurn
  BY <1>4, <1>b DEF GetTurn, ReadTurnRow, Opens, Runs
<1>5. CASE SyncRow
  BY <1>5, <1>b DEF SyncRow, Opens, Runs
<1>6. CASE Sending
  BY <1>6, <1>b DEF Sending, At, AfterTurn, AfterCommand, Opens, Runs
<1>7. CASE Dispatch
  BY <1>7, <1>b DEF Dispatch, StartTurn, MayDispatch, At, Opens, Runs, Agreed
<1>8. CASE FinishGet
  BY <1>8, <1>b DEF FinishGet, Activate, AfterCommand, Waiting, At, Opens, Runs
<1>9. CASE RecoverRead
  BY <1>9, <1>b DEF RecoverRead, Opens, Runs
<1>10. CASE RecoverPrompt
  BY <1>10, <1>b DEF RecoverPrompt, StartTurn, TakePlan, AfterCommand, Waiting, At,
     Opens, Runs, Agreed
<1>11. CASE Continue
  BY <1>11, <1>b DEF Continue, StartTurn, TakePlan, AfterCommand, Waiting, At, Opens,
     Runs, Agreed
<1>12. CASE BootScan
  BY <1>12, <1>b DEF BootScan, ReadTurnRow, Opens, Runs
<1>13. CASE ProvActivate
  BY <1>13, <1>b DEF ProvActivate, AfterCommand, Waiting, At, Alone
<1>14. CASE ProvRow
  BY <1>14, <1>b DEF ProvRow, Opens, Runs
<1>15. CASE ProvReady
  BY <1>15, <1>b DEF ProvReady, AfterCommand, Waiting, At, Opens, Runs
<1>16. CASE ProvError
  BY <1>16, <1>b DEF ProvError, Opens, Runs
<1>17. CASE ProvFailed
  BY <1>17, <1>b DEF ProvFailed, Opens, Runs
<1>18. CASE ProvReport
  BY <1>18, <1>b DEF ProvReport, AfterCommand, Waiting, At, Opens, Runs
<1>19. CASE Restore
  <2>1. /\ ~live /\ ~sess /\ pc # "starting" /\ turnActive = NoTurn /\ Lone(turns)
        /\ UNCHANGED <<turns, sess, pc, job>>
    BY <1>19, <1>b DEF Restore, Runs, Opens
  <2>2. pc = "dropping" => job.turn = NoTurn
    BY <2>1 DEF Opens
  <2>3. \/ closed' /\ turnActive' = turnActive
        \/ turnActive' = LastOpen(turns)
    BY <1>19 DEF Restore, Phased
  <2>4. Agreed(turns, LastOpen(turns))
    BY <1>b, <2>1, RestoredAgrees
  <2>5. Lone(turns') /\ (pc' = "dropping" => job'.turn = NoTurn) /\ ~sess' /\ pc' # "starting"
    BY <2>1, <2>2
  <2>6. live'
    BY <1>19 DEF Restore
  <2>7. Agreed(turns', turnActive') \/ (closed' /\ ~sess' /\ turnActive' = NoTurn)
    BY <2>1, <2>3, <2>4
  <2>8. QED
    BY <2>5, <2>6, <2>7 DEF Opens
<1>20. CASE Stop
  BY <1>20, <1>b DEF Stop, Waiting, At, Opens, Runs
<1>21. CASE Halt
  BY <1>21, <1>b DEF Halt, Opens, Runs
<1>22. CASE Start
  BY <1>22, <1>b DEF Start, Opens, Runs
<1>23. CASE UNCHANGED vars
  BY <1>23, <1>b DEF vars, Opens, Runs
<1>24. CASE Exiting
  BY <1>24, <1>b DEF Exiting, ActorGone, At, Opens, Runs
<1>25. CASE Crash
  BY <1>25, <1>b DEF Crash, ActorGone, Opens, Runs
<1>26. CASE Refused
  <2>1. Done
    BY <1>26, WritesEnd
  <2>2. QED
    BY <2>1, <1>d
<1>27. CASE Closing
  <2>1. CASE UNCHANGED <<turns, turnActive, phase, closed, rowdue>>
    BY <1>27, <1>b, <2>1 DEF Closing, At, AfterCommand, Opens, Runs
  <2>2. QED
    BY <1>27, <1>d, <2>1, WritesEnd
<1>28. CASE HandleExit
  <2>1. CASE UNCHANGED <<turns, turnActive, phase, closed, rowdue>>
    BY <1>28, <1>b, <2>1 DEF HandleExit, Waiting, At, Opens, Runs
  <2>2. QED
    BY <1>28, <1>d, <2>1, WritesEnd
<1>29. CASE HSelfStart
  BY <1>29, <1>b DEF HSelfStart, Running, Emit, Opens, Runs
<1>30. CASE HChunk
  BY <1>30, <1>b DEF HChunk, Running, Emit, Opens, Runs
<1>31. CASE HFinish
  BY <1>31, <1>b DEF HFinish, Running, Emit, Opens, Runs
<1>32. CASE HExit
  BY <1>32, <1>b DEF HExit, Emit, Opens, Runs
<1>33. CASE (\E q \in Prompts : HRead(q))
  BY <1>33, <1>b DEF HRead, Running, Emit, Opens, Runs
<1>34. CASE Cancel
  <2>1. /\ live /\ pc = "loop" /\ pc' = "dropping"
        /\ UNCHANGED <<turns, turnActive, live, sess, closed>>
        /\ job'.turn \in {NoTurn, turnActive}
    BY <1>34 DEF Cancel, NoJob, Waiting, At
  <2>2. QED
    BY <2>1 DEF Opens
<1>35. CASE (\E p \in Prompts : Prompt(p))
  BY <1>35, <1>b DEF Prompt, StartTurn, Waiting, At, Opens, Runs, Agreed
<1>36. CASE Starting
  <2>1. /\ LogStarted(job.turn, job.prompt, job.cause, job.attempt, job.of)
        /\ live /\ pc = "starting" /\ pc' = "sending" /\ rowdue = "none"
        /\ UNCHANGED <<row, up, live, sess>>
    BY <1>36 DEF Starting, At
  <2>2. sess /\ OpenAt(turns) = {} /\ turnActive = job.turn /\ job.turn # NoTurn
    BY <2>1, <1>b DEF Opens, Runs, Numbered, NoTurn
  <2>3. Lone(turns') /\ OpenAt(turns') # {} /\ Agreed(turns', job.turn)
    BY <2>1, <2>2, StartedLone DEF Opens
  <2>4. /\ turnActive' = turnActive /\ phase' = "turn" /\ closed' = closed
        /\ rowdue' = (IF phase # "turn" THEN "turn" ELSE "none")
    BY <2>1, <2>2 DEF LogStarted, OwePhase
  <2>5. QED
    BY <2>1, <2>2, <2>3, <2>4 DEF Opens
<1>37. CASE Queueing
  BY <1>37, <1>b DEF Queueing, At, AfterCommand, Opens, Runs
<1>38. CASE (\E q \in Prompts : Dequeue(q))
  BY <1>38, <1>b DEF Dequeue, AfterCommand, Waiting, At, Opens, Runs
<1>39. CASE Dropping
  <2>1. CASE UNCHANGED <<turns, turnActive, phase, closed, rowdue>>
    BY <1>39, <1>b, <2>1 DEF Dropping, At, AfterCommand, Opens, Runs
  <2>2. QED
    BY <1>39, <1>d, <2>1, WritesEnd
<1>40. CASE HandleEvent
  <2>1. CASE UNCHANGED <<turns, turnActive, phase, closed, rowdue>>
    BY <1>40, <1>b, <2>1 DEF HandleEvent, AfterCommand, Waiting, At, Opens, Runs
  <2>2. QED
    BY <1>40, <1>d, <2>1, WritesEnd
<1>41. QED
  BY <1>1, <1>2, <1>3, <1>4, <1>5, <1>6, <1>7, <1>8, <1>9, <1>10, <1>11, <1>12, <1>13,
     <1>14, <1>15, <1>16, <1>17, <1>18, <1>19, <1>20, <1>21, <1>22, <1>23, <1>24,
     <1>25, <1>26, <1>27, <1>28, <1>29, <1>30, <1>31, <1>32, <1>33, <1>34, <1>35,
     <1>36, <1>37, <1>38, <1>39, <1>40
  DEF Next, Presenter, ActorStep, Reaction, Provision, HarnessStep, Server

\* The phase goes with it.
LEMMA PhasedStep ==
  Plain /\ Typing /\ GuardInv /\ FinishesClose /\ Alone /\ Calm /\ Opens /\ Phased
    /\ [Next]_vars => Phased'
<1> SUFFICES ASSUME Plain, Typing, GuardInv, FinishesClose, Alone, Calm, Opens, Phased,
                    [Next]_vars
             PROVE  Phased'
  OBVIOUS
<1> USE DEF logVars, managerVars, recoverVars, actorVars, harnessVars, historyVars
<1>b. Numbered /\ Runs /\ Creating /\ turns \in Seq(Turns)
  BY DEF GuardInv, Typing, TypeOK, LogTypeOK
<1>d. Done => Phased'
  BY DEF Done, Phased
<1>1. CASE CloseThread
  BY <1>1, <1>b DEF CloseThread, OwePhase, Waiting, At, Phased, Opens, Runs, Alone
<1>2. CASE OtherCommand
  BY <1>2, <1>b DEF OtherCommand, Waiting, At, AfterCommand, Phased, Opens, Runs, Alone
<1>3. CASE GetIdle
  BY <1>3, <1>b DEF GetIdle, Activate, Waiting, At, Phased, Opens, Runs, Alone
<1>4. CASE GetTurn
  BY <1>4, <1>b DEF GetTurn, ReadTurnRow, Phased, Opens, Runs, Alone
<1>5. CASE SyncRow
  BY <1>5, <1>b DEF SyncRow, Phased, Opens, Runs, Alone
<1>6. CASE Sending
  BY <1>6, <1>b DEF Sending, At, AfterTurn, AfterCommand, Phased, Opens, Runs, Alone
<1>7. CASE Dispatch
  BY <1>7, <1>b DEF Dispatch, StartTurn, MayDispatch, At, Phased, Opens, Runs, Alone
<1>8. CASE FinishGet
  BY <1>8, <1>b DEF FinishGet, Activate, AfterCommand, Waiting, At, Phased, Opens,
     Runs, Alone
<1>9. CASE RecoverRead
  BY <1>9, <1>b DEF RecoverRead, Phased, Opens, Runs, Alone
<1>10. CASE RecoverPrompt
  BY <1>10, <1>b DEF RecoverPrompt, StartTurn, TakePlan, AfterCommand, Waiting, At,
     Phased, Opens, Runs, Alone
<1>11. CASE Continue
  BY <1>11, <1>b DEF Continue, StartTurn, TakePlan, AfterCommand, Waiting, At, Phased,
     Opens, Runs, Alone
<1>12. CASE BootScan
  BY <1>12, <1>b DEF BootScan, ReadTurnRow, Phased, Opens, Runs, Alone
<1>13. CASE ProvActivate
  BY <1>13, <1>b DEF ProvActivate, AfterCommand, Waiting, At, Phased, Opens, Runs, Alone
<1>14. CASE ProvRow
  BY <1>14, <1>b DEF ProvRow, Phased, Opens, Runs, Alone
<1>15. CASE ProvReady
  BY <1>15, <1>b DEF ProvReady, AfterCommand, Waiting, At, Phased, Opens, Runs, Alone
<1>16. CASE ProvError
  BY <1>16, <1>b DEF ProvError, Phased, Opens, Runs, Alone
<1>17. CASE ProvFailed
  BY <1>17, <1>b DEF ProvFailed, Phased, Opens, Runs, Alone
<1>18. CASE ProvReport
  BY <1>18, <1>b DEF ProvReport, AfterCommand, Waiting, At, Phased, Opens, Runs, Alone
<1>19. CASE Restore
  BY <1>19, <1>b DEF Restore, Phased, Opens, Runs, Alone
<1>20. CASE Stop
  BY <1>20, <1>b DEF Stop, Waiting, At, Phased, Opens, Runs, Alone
<1>21. CASE Halt
  BY <1>21, <1>b DEF Halt, Phased, Opens, Runs, Alone
<1>22. CASE Start
  BY <1>22, <1>b DEF Start, Phased, Opens, Runs, Alone
<1>23. CASE UNCHANGED vars
  BY <1>23, <1>b DEF vars, Phased, Opens, Runs, Alone
<1>24. CASE Exiting
  BY <1>24, <1>b DEF Exiting, ActorGone, At, RowAtShutdown, Phased
<1>25. CASE Crash
  BY <1>25, <1>b DEF Crash, ActorGone, Phased, Opens, Runs, Alone
<1>26. CASE Refused
  <2>1. Done
    BY <1>26, WritesEnd
  <2>2. QED
    BY <2>1, <1>d
<1>27. CASE Closing
  <2>1. CASE UNCHANGED <<turns, turnActive, phase, closed, rowdue>>
    BY <1>27, <1>b, <2>1 DEF Closing, At, AfterCommand, Phased, Opens, Runs, Alone
  <2>2. QED
    BY <1>27, <1>d, <2>1, WritesEnd
<1>28. CASE HandleExit
  <2>1. CASE UNCHANGED <<turns, turnActive, phase, closed, rowdue>>
    BY <1>28, <1>b, <2>1 DEF HandleExit, Waiting, At, Phased, Opens, Runs, Alone
  <2>2. QED
    BY <1>28, <1>d, <2>1, WritesEnd
<1>29. CASE HSelfStart
  BY <1>29, <1>b DEF HSelfStart, Running, Emit, Phased, Opens, Runs, Alone
<1>30. CASE HChunk
  BY <1>30, <1>b DEF HChunk, Running, Emit, Phased, Opens, Runs, Alone
<1>31. CASE HFinish
  BY <1>31, <1>b DEF HFinish, Running, Emit, Phased, Opens, Runs, Alone
<1>32. CASE HExit
  BY <1>32, <1>b DEF HExit, Emit, Phased, Opens, Runs, Alone
<1>33. CASE (\E q \in Prompts : HRead(q))
  BY <1>33, <1>b DEF HRead, Running, Emit, Phased, Opens, Runs, Alone
<1>34. CASE Cancel
  BY <1>34, <1>b DEF Cancel, CancelledEvent, TakePlan, Waiting, At, Phased, Opens,
     Runs, Alone
<1>35. CASE (\E p \in Prompts : Prompt(p))
  BY <1>35, <1>b DEF Prompt, StartTurn, Waiting, At, Phased, Opens, Runs, Alone
<1>36. CASE Starting
  <2>1. /\ LogStarted(job.turn, job.prompt, job.cause, job.attempt, job.of)
        /\ live /\ pc = "starting" /\ pc' = "sending" /\ rowdue = "none"
        /\ UNCHANGED <<row, up, live, sess>>
    BY <1>36 DEF Starting, At
  <2>2. sess /\ OpenAt(turns) = {} /\ turnActive = job.turn /\ job.turn # NoTurn
    BY <2>1, <1>b DEF Opens, Runs, Numbered, NoTurn
  <2>3. Lone(turns') /\ OpenAt(turns') # {} /\ Agreed(turns', job.turn)
    BY <2>1, <2>2, StartedLone DEF Opens
  <2>4. /\ turnActive' = turnActive /\ phase' = "turn" /\ closed' = closed
        /\ rowdue' = (IF phase # "turn" THEN "turn" ELSE "none")
    BY <2>1, <2>2 DEF LogStarted, OwePhase
  <2>5. QED
    BY <2>1, <2>3, <2>4 DEF Phased
<1>37. CASE Queueing
  BY <1>37, <1>b DEF Queueing, At, AfterCommand, Phased, Opens, Runs, Alone
<1>38. CASE (\E q \in Prompts : Dequeue(q))
  BY <1>38, <1>b DEF Dequeue, AfterCommand, Waiting, At, Phased, Opens, Runs, Alone
<1>39. CASE Dropping
  <2>1. CASE UNCHANGED <<turns, turnActive, phase, closed, rowdue>>
    BY <1>39, <1>b, <2>1 DEF Dropping, At, AfterCommand, Phased, Opens, Runs, Alone
  <2>2. QED
    BY <1>39, <1>d, <2>1, WritesEnd
<1>40. CASE HandleEvent
  <2>1. CASE UNCHANGED <<turns, turnActive, phase, closed, rowdue>>
    BY <1>40, <1>b, <2>1 DEF HandleEvent, AfterCommand, Waiting, At, Phased, Opens,
       Runs, Alone
  <2>2. QED
    BY <1>40, <1>d, <2>1, WritesEnd
<1>41. QED
  BY <1>1, <1>2, <1>3, <1>4, <1>5, <1>6, <1>7, <1>8, <1>9, <1>10, <1>11, <1>12, <1>13,
     <1>14, <1>15, <1>16, <1>17, <1>18, <1>19, <1>20, <1>21, <1>22, <1>23, <1>24,
     <1>25, <1>26, <1>27, <1>28, <1>29, <1>30, <1>31, <1>32, <1>33, <1>34, <1>35,
     <1>36, <1>37, <1>38, <1>39, <1>40
  DEF Next, Presenter, ActorStep, Reaction, Provision, HarnessStep, Server

\* And the row goes with the phase.
LEMMA FollowedStep ==
  "torn" \notin Features
    /\ Plain /\ Typing /\ GuardInv /\ FinishesClose /\ Alone /\ Calm /\ Opens /\ Phased /\ Followed
    /\ [Next]_vars => Followed'
<1> SUFFICES ASSUME "torn" \notin Features, Plain, Typing, GuardInv, FinishesClose,
                    Alone, Calm, Opens, Phased, Followed, [Next]_vars
             PROVE  Followed'
  OBVIOUS
<1> USE DEF logVars, managerVars, recoverVars, actorVars, harnessVars, historyVars
<1>b. Numbered /\ Runs /\ Creating /\ turns \in Seq(Turns)
  BY DEF GuardInv, Typing, TypeOK, LogTypeOK
<1>d. Done => Followed'
  BY DEF Done, Followed
<1>1. CASE CloseThread
  BY <1>1, <1>b DEF CloseThread, OwePhase, Waiting, At, Followed, Phased, Opens, Runs, Alone
<1>2. CASE OtherCommand
  BY <1>2, <1>b DEF OtherCommand, Waiting, At, AfterCommand, Followed, Phased, Opens,
     Runs, Alone
<1>3. CASE GetIdle
  BY <1>3, <1>b DEF GetIdle, Activate, Waiting, At, Followed, Phased, Opens, Runs, Alone
<1>4. CASE GetTurn
  BY <1>4, <1>b DEF GetTurn, ReadTurnRow, Followed, Phased, Opens, Runs, Alone
<1>5. CASE SyncRow
  BY <1>5, <1>b DEF SyncRow, Followed, Phased, Opens, Runs, Alone
<1>6. CASE Sending
  BY <1>6, <1>b DEF Sending, At, AfterTurn, AfterCommand, Followed, Phased, Opens,
     Runs, Alone
<1>7. CASE Dispatch
  BY <1>7, <1>b DEF Dispatch, StartTurn, MayDispatch, At, Followed, Phased, Opens,
     Runs, Alone
<1>8. CASE FinishGet
  BY <1>8, <1>b DEF FinishGet, Activate, AfterCommand, Waiting, At, Followed, Phased,
     Opens, Runs, Alone
<1>9. CASE RecoverRead
  BY <1>9, <1>b DEF RecoverRead, Followed, Phased, Opens, Runs, Alone
<1>10. CASE RecoverPrompt
  BY <1>10, <1>b DEF RecoverPrompt, StartTurn, TakePlan, AfterCommand, Waiting, At,
     Followed, Phased, Opens, Runs, Alone
<1>11. CASE Continue
  BY <1>11, <1>b DEF Continue, StartTurn, TakePlan, AfterCommand, Waiting, At,
     Followed, Phased, Opens, Runs, Alone
<1>12. CASE BootScan
  BY <1>12, <1>b DEF BootScan, ReadTurnRow, Followed, Phased, Opens, Runs, Alone
<1>13. CASE ProvActivate
  BY <1>13, <1>b DEF ProvActivate, AfterCommand, Waiting, At, Followed, Phased, Opens,
     Runs, Alone
<1>14. CASE ProvRow
  BY <1>14, <1>b DEF ProvRow, Followed, Phased, Opens, Runs, Alone
<1>15. CASE ProvReady
  BY <1>15, <1>b DEF ProvReady, AfterCommand, Waiting, At, Followed, Phased, Opens,
     Runs, Alone
<1>16. CASE ProvError
  BY <1>16, <1>b DEF ProvError, Followed, Phased, Opens, Runs, Alone
<1>17. CASE ProvFailed
  BY <1>17, <1>b DEF ProvFailed, Followed, Phased, Opens, Runs, Alone
<1>18. CASE ProvReport
  BY <1>18, <1>b DEF ProvReport, AfterCommand, Waiting, At, Followed, Phased, Opens,
     Runs, Alone
<1>19. CASE Restore
  BY <1>19, <1>b DEF Restore, Followed, Phased, Opens, Runs, Alone
<1>20. CASE Stop
  BY <1>20, <1>b DEF Stop, Waiting, At, Followed, Phased, Opens, Runs, Alone
<1>21. CASE Halt
  BY <1>21, <1>b DEF Halt, Followed, Phased, Opens, Runs, Alone
<1>22. CASE Start
  BY <1>22, <1>b DEF Start, Followed, Phased, Opens, Runs, Alone
<1>23. CASE UNCHANGED vars
  BY <1>23, <1>b DEF vars, Followed, Phased, Opens, Runs, Alone
<1>24. CASE Exiting
  <2>1. /\ live /\ rowdue = "none" /\ pc = "exiting"
        /\ UNCHANGED <<up, closed, phase>> /\ row' = RowAtShutdown
        /\ ~live' /\ rowdue' = "none" /\ ~sess' /\ turnActive' = NoTurn
    BY <1>24 DEF Exiting, ActorGone, At
  <2>2. closed => phase = "closed"
    BY DEF Followed
  <2>3. ~closed => (phase = "turn" <=> turnActive # NoTurn) /\ phase \in {"idle", "turn"}
    BY <2>1 DEF Phased, Opens, Agreed
  <2>4. row' = phase'
    BY <2>1, <2>2, <2>3 DEF RowAtShutdown
  <2>5. QED
    BY <2>1, <2>2, <2>4 DEF Followed
<1>25. CASE Crash
  BY <1>25, <1>b DEF Crash, ActorGone, Followed, Phased, Opens, Runs, Alone
<1>26. CASE Refused
  <2>1. Done
    BY <1>26, WritesEnd
  <2>2. QED
    BY <2>1, <1>d
<1>27. CASE Closing
  <2>1. CASE UNCHANGED <<turns, turnActive, phase, closed, rowdue>>
    BY <1>27, <1>b, <2>1 DEF Closing, At, AfterCommand, Followed, Phased, Opens, Runs, Alone
  <2>2. QED
    BY <1>27, <1>d, <2>1, WritesEnd
<1>28. CASE HandleExit
  <2>1. CASE UNCHANGED <<turns, turnActive, phase, closed, rowdue>>
    BY <1>28, <1>b, <2>1 DEF HandleExit, Waiting, At, Followed, Phased, Opens, Runs, Alone
  <2>2. QED
    BY <1>28, <1>d, <2>1, WritesEnd
<1>29. CASE HSelfStart
  BY <1>29, <1>b DEF HSelfStart, Running, Emit, Followed, Phased, Opens, Runs, Alone
<1>30. CASE HChunk
  BY <1>30, <1>b DEF HChunk, Running, Emit, Followed, Phased, Opens, Runs, Alone
<1>31. CASE HFinish
  BY <1>31, <1>b DEF HFinish, Running, Emit, Followed, Phased, Opens, Runs, Alone
<1>32. CASE HExit
  BY <1>32, <1>b DEF HExit, Emit, Followed, Phased, Opens, Runs, Alone
<1>33. CASE (\E q \in Prompts : HRead(q))
  BY <1>33, <1>b DEF HRead, Running, Emit, Followed, Phased, Opens, Runs, Alone
<1>34. CASE Cancel
  BY <1>34, <1>b DEF Cancel, CancelledEvent, TakePlan, Waiting, At, Followed, Phased,
     Opens, Runs, Alone
<1>35. CASE (\E p \in Prompts : Prompt(p))
  BY <1>35, <1>b DEF Prompt, StartTurn, Waiting, At, Followed, Phased, Opens, Runs, Alone
<1>36. CASE Starting
  <2>1. /\ LogStarted(job.turn, job.prompt, job.cause, job.attempt, job.of)
        /\ live /\ pc = "starting" /\ pc' = "sending" /\ rowdue = "none"
        /\ UNCHANGED <<row, up, live, sess>>
    BY <1>36 DEF Starting, At
  <2>2. sess /\ OpenAt(turns) = {} /\ turnActive = job.turn /\ job.turn # NoTurn
    BY <2>1, <1>b DEF Opens, Runs, Numbered, NoTurn
  <2>3. Lone(turns') /\ OpenAt(turns') # {} /\ Agreed(turns', job.turn)
    BY <2>1, <2>2, StartedLone DEF Opens
  <2>4. /\ turnActive' = turnActive /\ phase' = "turn" /\ closed' = closed
        /\ rowdue' = (IF phase # "turn" THEN "turn" ELSE "none")
    BY <2>1, <2>2 DEF LogStarted, OwePhase
  <2>5. QED
    BY <2>1, <2>2, <2>4 DEF Followed
<1>37. CASE Queueing
  BY <1>37, <1>b DEF Queueing, At, AfterCommand, Followed, Phased, Opens, Runs, Alone
<1>38. CASE (\E q \in Prompts : Dequeue(q))
  BY <1>38, <1>b DEF Dequeue, AfterCommand, Waiting, At, Followed, Phased, Opens,
     Runs, Alone
<1>39. CASE Dropping
  <2>1. CASE UNCHANGED <<turns, turnActive, phase, closed, rowdue>>
    BY <1>39, <1>b, <2>1 DEF Dropping, At, AfterCommand, Followed, Phased, Opens,
       Runs, Alone
  <2>2. QED
    BY <1>39, <1>d, <2>1, WritesEnd
<1>40. CASE HandleEvent
  <2>1. CASE UNCHANGED <<turns, turnActive, phase, closed, rowdue>>
    BY <1>40, <1>b, <2>1 DEF HandleEvent, AfterCommand, Waiting, At, Followed,
       Phased, Opens, Runs, Alone
  <2>2. QED
    BY <1>40, <1>d, <2>1, WritesEnd
<1>41. QED
  BY <1>1, <1>2, <1>3, <1>4, <1>5, <1>6, <1>7, <1>8, <1>9, <1>10, <1>11, <1>12, <1>13,
     <1>14, <1>15, <1>16, <1>17, <1>18, <1>19, <1>20, <1>21, <1>22, <1>23, <1>24,
     <1>25, <1>26, <1>27, <1>28, <1>29, <1>30, <1>31, <1>32, <1>33, <1>34, <1>35,
     <1>36, <1>37, <1>38, <1>39, <1>40
  DEF Next, Presenter, ActorStep, Reaction, Provision, HarnessStep, Server

\* Phase and guard agree at every step.
LEMMA PhaseCorrect == Plain => (Spec => [](Typing /\ GuardInv /\ PhaseInv))
<1> SUFFICES ASSUME Plain PROVE Spec => [](Typing /\ GuardInv /\ PhaseInv)
  OBVIOUS
<1>1. Init => PhaseInv
  <2> SUFFICES ASSUME Init PROVE PhaseInv
    OBVIOUS
  <2>1. /\ turns = <<>> /\ events = <<>> /\ prov = "none" /\ steers = {} /\ ~closed /\ live
        /\ turnActive = NoTurn /\ pc = "loop" /\ phase = "idle" /\ row = "idle"
        /\ rowdue = "none"
    BY DEF Init, Plain
  <2>2. DOMAIN turns = {} /\ DOMAIN events = {}
    BY <2>1
  <2>3. OpenAt(turns) = {}
    BY <2>2 DEF OpenAt
  <2>4. FinishesClose /\ Alone /\ Calm
    BY <2>1, <2>2 DEF FinishesClose, Alone, Calm
  <2>5. Opens
    BY <2>1, <2>2, <2>3 DEF Opens, Lone, Agreed
  <2>6. Phased
    BY <2>1, <2>3 DEF Phased
  <2>7. QED
    BY <2>4, <2>5, <2>6 DEF PhaseInv
<1>2. Typing /\ GuardInv /\ GuardInv' /\ PhaseInv /\ [Next]_vars => PhaseInv'
  <2> SUFFICES ASSUME Typing, GuardInv, GuardInv', PhaseInv, [Next]_vars PROVE PhaseInv'
    OBVIOUS
  <2>1. FinishesClose /\ Alone /\ Calm /\ Opens /\ Phased
    BY DEF PhaseInv
  <2>2. FinishesClose' /\ Alone'
    BY <2>1, FinishesCloseStep, AloneStep
  <2>3. Calm'
    BY <2>1, <2>2, CalmStep
  <2>4. Opens' /\ Phased'
    BY <2>1, OpensStep, PhasedStep
  <2>5. QED
    BY <2>2, <2>3, <2>4 DEF PhaseInv
<1>3. QED
  BY <1>1, <1>2, GuardCorrect, PTL DEF Spec

\* Between commands the projection's phase says "turn" exactly while the busy guard is
\* held, over refusals, deaths, cancels, stops, crashes and restores of a harness that
\* starts no turn of its own (state.go Apply of turn.started and turn.finished;
\* actor.go emit).
THEOREM PhaseIsTheGuard == Plain => (Spec => []PhaseAgrees)
<1> SUFFICES ASSUME Plain PROVE Spec => []PhaseAgrees
  OBVIOUS
<1>1. PhaseInv => PhaseAgrees
  <2> SUFFICES ASSUME PhaseInv, Waiting, ~closed PROVE phase = "turn" <=> turnActive # NoTurn
    BY DEF PhaseAgrees
  <2>1. Agreed(turns, turnActive)
    BY DEF PhaseInv, Opens, Waiting, At
  <2>2. QED
    BY <2>1 DEF PhaseInv, Phased, Agreed
<1>2. QED
  BY <1>1, PhaseCorrect, PTL

\* A stopped server that owes a continuation has left "turn" in the row its next start
\* scans, unless it died between an event's transaction and its row's (recovery.go
\* recoverAll; actor.go append, shutdown).
THEOREM InterruptedIsInTheRow ==
  Plain /\ "torn" \notin Features => (Spec => []InterruptedIsFound)
<1> SUFFICES ASSUME Plain, "torn" \notin Features PROVE Spec => []InterruptedIsFound
  OBVIOUS
<1>1. Init => Followed
  BY DEF Init, Followed
<1>2. Typing /\ GuardInv /\ PhaseInv /\ Followed /\ [Next]_vars => Followed'
  BY FollowedStep DEF PhaseInv
<1>3. PhaseInv /\ Followed => InterruptedIsFound
  BY DEF PhaseInv, Phased, Followed, InterruptedIsFound
<1>4. QED
  BY <1>1, <1>2, <1>3, PhaseCorrect, PTL DEF Spec

=============================================================================
