------------------------ MODULE ClaudeSessionProofs ------------------------
(***************************************************************************)
(* Proofs about ClaudeSession, for every set of prompts and steers and     *)
(* every bound: that each turn is ended once and none is abandoned,        *)
(* whichever of the session's goroutines ends it, and that what the        *)
(* harness makes of a discarded steer stays out of the log.                *)
(***************************************************************************)
EXTENDS ClaudeSession, SequenceTheorems, TLAPS

-----------------------------------------------------------------------------
(* The inductive invariant.                                                 *)

Turns == Prompts \cup 1..minted
Said ==
  [k : {"echo"}, by : Inputs] \cup [k : {"out", "result"}, by : Inputs \cup {"self"}]
    \cup [k : {"ack"}, by : Steers \cup 1..MaxCancels]

HarnessTypes == /\ alive \in BOOLEAN /\ held \in Seq(Inputs) /\ stdout \in Seq(Said)
                /\ running \in Inputs \cup {None, "self"}
                /\ interrupts \subseteq Steers \cup 1..MaxCancels
                /\ outs \in Nat /\ selfs \in Nat
SessionTypes == /\ minted \in Nat /\ turnID \in Turns \cup {None} /\ sawResult \in BOOLEAN
                /\ steers \in [Steers -> {"none", "sent", "discarded"}]
                /\ suppress \in BOOLEAN
ReaderTypes == outbox \in Seq(Emissions) /\ connDone \in BOOLEAN
WatchTypes == /\ watcher \in {"wait", "emit", "close", "done"} /\ lost \in Turns \cup {None}
              /\ watcher = "emit" => lost # None
ChannelTypes == /\ events \in Seq(Emissions) /\ Len(events) <= Room
                /\ eventsClosed \in BOOLEAN /\ closed \in BOOLEAN
ActorTypes == /\ pc \in {"loop", "prompting", "writing", "steering", "waiting",
                         "taking", "finishing", "gone"}
              /\ arg \in Inputs \cup Turns \cup {None} /\ busy \in Turns \cup {None}
              /\ acked \in BOOLEAN /\ used \subseteq Inputs
              /\ cancels \in 0..MaxCancels
HistoryTypes == opened \subseteq Turns /\ stream \in Seq(Turns)
Typing == /\ HarnessTypes /\ SessionTypes /\ ReaderTypes /\ WatchTypes
          /\ ChannelTypes /\ ActorTypes /\ HistoryTypes

\* What a frame does to the session's turn: nothing, its end, or the opening of another.
Goes == /\ UNCHANGED <<turnVars, minted>>
        /\ \/ outbox' = <<>>
           \/ turnID # None /\ \E i \in Inputs \cup {"self"} :
                outbox' = <<Injected(turnID, i)>> \/ outbox' = <<Chunk(turnID, i)>>
EndsTurn == /\ UNCHANGED minted /\ turnID' = None /\ sawResult' = TRUE
            /\ outbox' = IF turnID = None THEN <<>> ELSE <<Finish(turnID)>>
OpensAnother ==
  /\ turnID = None /\ OpensTurn
  /\ \/ outbox' = <<Started(minted')>>
     \/ \E i \in Inputs \cup {"self"} : outbox' = <<Started(minted'), Chunk(minted', i)>>

\* What the exit of the process leaves to be done, and by whom.
ExitOK ==
  /\ connDone => ~alive /\ stdout = <<>> /\ outbox = <<>>
  /\ watcher # "wait" => connDone /\ turnID = None
  /\ eventsClosed => watcher = "done"
  /\ ~alive => held = <<>> /\ running = None /\ interrupts = {}
  /\ closed => pc = "gone" /\ ~alive
  /\ turnID # None => ~sawResult

\* What the read loop has still to emit opens its turn first, and the turn it opens is
\* the session's until that is out; an end is alone.
OutboxOK ==
  \A i \in DOMAIN outbox :
    /\ outbox[i].k = "started" =>
         i = 1 /\ outbox[i].turn = minted /\ turnID = minted /\ minted # 0 /\ minted \notin opened
    /\ outbox[i].k = "finished" =>
         i = 1 /\ Len(outbox) = 1 /\ outbox[i] = Finish(outbox[i].turn)

\* What the actor's call is about.
Unannounced(t) == \E i \in DOMAIN outbox : outbox[i].k = "started" /\ outbox[i].turn = t
CallOK ==
  /\ opened \cap Prompts \subseteq used
  /\ pc = "prompting" => arg \in (Prompts \cap used) \ opened
  /\ pc = "writing" => arg \in Prompts
  /\ pc = "steering" => arg \in Steers \cap used
  /\ pc \in {"waiting", "taking", "finishing"} => IsTurn(arg)
  /\ pc \in {"taking", "finishing"} \/ (pc = "waiting" /\ acked) => ~Unannounced(arg)

\* Somebody is about to end the turn t.
ReaderHas(t) == \E i \in DOMAIN outbox : outbox[i] = Finish(t)
CancelHas(t) == pc = "finishing" /\ arg = t
WatchHas(t)  == watcher = "emit" /\ lost = t
OnceOK ==
  ~closed =>
    /\ turnID # None => /\ turnID \in opened \/ Unannounced(turnID)
                        /\ turnID \notin ended
                        /\ ~CancelHas(turnID) /\ ~ReaderHas(turnID)
    /\ \A t \in Turns :
         /\ ReaderHas(t) \/ CancelHas(t) \/ WatchHas(t) => t \in opened \ ended
         /\ ~(ReaderHas(t) /\ CancelHas(t)) /\ ~(CancelHas(t) /\ WatchHas(t))
    /\ ended \subseteq opened
    /\ \A t \in opened : \/ t \in ended \/ turnID = t \/ eventsClosed
                         \/ ReaderHas(t) \/ CancelHas(t) \/ WatchHas(t)

TurnInv == Typing /\ ExitOK /\ OutboxOK /\ CallOK /\ OnceOK

-----------------------------------------------------------------------------
(* Types.                                                                   *)

\* The first of a sequence and the rest of it.
LEMMA Parts ==
  ASSUME NEW S, NEW s \in Seq(S), s # <<>>
  PROVE  /\ Head(s) \in S /\ Head(s) = s[1] /\ Tail(s) \in Seq(S)
         /\ Len(s) \in Nat \ {0} /\ Len(Tail(s)) = Len(s) - 1 /\ DOMAIN s = 1..Len(s)
         /\ \A i \in 1..(Len(s) - 1) : Tail(s)[i] = s[i + 1]
BY HeadTailProperties

\* One more at the end of a sequence.
LEMMA Longer ==
  ASSUME NEW S, NEW s \in Seq(S), NEW e \in S
  PROVE  /\ Append(s, e) \in Seq(S) /\ s \o <<e>> = Append(s, e)
         /\ Len(Append(s, e)) = Len(s) + 1
         /\ \A i \in 1..Len(s) : Append(s, e)[i] = s[i]
         /\ Append(s, e)[Len(s) + 1] = e
BY AppendProperties, ConcatProperties

\* Short sequences.
LEMMA Few ==
  ASSUME NEW S, NEW e \in S, NEW f \in S
  PROVE  <<>> \in Seq(S) /\ <<e>> \in Seq(S) /\ <<e, f>> \in Seq(S)
OBVIOUS

\* A number more, and what was said of the turns is still about turns.
LEMMA TurnsGrow ==
  ASSUME Typing, OpensTurn
  PROVE  /\ minted' = minted + 1 /\ minted' \in Nat /\ minted' \in Turns'
         /\ Turns \subseteq Turns' /\ minted' \notin Turns
         /\ \A s \in Seq(Emissions) : s \in Seq(Emissions')
         /\ \A s \in Seq(Turns) : s \in Seq(Turns')
<1>1. /\ minted' = minted + 1 /\ minted' \in Nat /\ minted' \in Turns'
      /\ Turns \subseteq Turns' /\ minted' \notin Turns
  BY SessionConstants DEF Typing, SessionTypes, OpensTurn, Turns
<1>2. Emissions \subseteq Emissions'
  BY <1>1 DEF Emissions, Turns
<1> QED
  BY <1>1, <1>2, SeqMonotonic

\* With the same number of turns they are the same.
LEMMA TurnsStay ==
  ASSUME minted' = minted
  PROVE  Turns' = Turns /\ Emissions' = Emissions
BY DEF Turns, Emissions

\* What can be emitted of a turn.
LEMMA EventsOf ==
  ASSUME NEW t \in Turns, NEW i \in Inputs \cup {"self"}
  PROVE  {Finish(t), Started(t), Chunk(t, i), Injected(t, i)}
           \subseteq [k : {"finished", "started", "chunk", "injected"},
                      turn : Turns, by : Inputs \cup {None, "self"}]
BY DEF Finish, Started, Chunk, Injected

\* An emission is recorded, unless the channel or the session is closed.
LEMMA Emitted ==
  ASSUME Typing, NEW e \in Emissions, Emit(e)
  PROVE  /\ events' \in Seq(Emissions) /\ Len(events') <= Room
         /\ opened' \subseteq Turns /\ stream' \in Seq(Turns)
         /\ \/ (closed \/ eventsClosed) /\ UNCHANGED historyVars
            \/ ~closed /\ ~eventsClosed /\ Recorded(e)
<1>1. e.turn \in Turns
  BY DEF Emissions, Turns
<1>2. /\ \/ (closed \/ eventsClosed) /\ UNCHANGED historyVars
         \/ ~closed /\ ~eventsClosed /\ Recorded(e)
      /\ events' = events \/ (events' = Append(events, e) /\ Len(events) < Room)
  BY DEF Emit, HasRoom, Swallowed
<1>3. events' \in Seq(Emissions) /\ Len(events') <= Room
  BY <1>2, Longer, SessionConstants DEF Typing, ChannelTypes
<1>4. opened' \subseteq Turns
  BY <1>1, <1>2 DEF Typing, HistoryTypes, Recorded, historyVars
<1>5. stream' = stream \/ stream' = Append(stream, e.turn)
  BY <1>2 DEF Recorded, historyVars
<1>6. stream' \in Seq(Turns)
  BY <1>1, <1>5, Longer DEF Typing, HistoryTypes
<1> QED
  BY <1>2, <1>3, <1>4, <1>6

\* The harness adds to what it has said.
LEMMA Written ==
  ASSUME Typing, Harness
  PROVE  stdout' \in Seq(Said)
<1>1. \A r \in Inputs \cup {"self"} : {[k |-> "out", by |-> r], [k |-> "result", by |-> r]} \subseteq Said
  BY DEF Said
<1>2. \A q \in Inputs : [k |-> "echo", by |-> q] \in Said
  BY DEF Said
<1>3. \A w \in Steers \cup 1..MaxCancels : [k |-> "ack", by |-> w] \in Said
  BY DEF Said
<1>4. stdout \in Seq(Said) /\ running \in Inputs \cup {None, "self"} /\ held \in Seq(Inputs)
  BY DEF Typing, HarnessTypes
<1>5. CASE Read
  <2>1. Head(held) \in Inputs /\ stdout' = stdout \o <<[k |-> "echo", by |-> Head(held)]>>
    BY <1>4, <1>5, Parts DEF Read, Writes
  <2> QED
    BY <1>2, <1>4, <2>1, Longer
<1>6. CASE SelfStart \/ Die
  BY <1>4, <1>6 DEF SelfStart, Die
<1>7. CASE Output
  BY <1>1, <1>4, <1>7, Longer DEF Output, Writes
<1>8. CASE Result
  BY <1>1, <1>4, <1>8, Longer DEF Result, Writes
<1>9. ASSUME NEW who \in Steers \cup 1..MaxCancels, Interrupted(who)
      PROVE  stdout' \in Seq(Said)
  <2> DEFINE ack == [k |-> "ack", by |-> who]
             end == [k |-> "result", by |-> running]
  <2>1. ack \in Said
    BY <1>3
  <2>2. stdout \o <<ack>> \in Seq(Said)
    BY <1>4, <2>1, Longer
  <2>3. CASE running = None
    BY <1>9, <2>2, <2>3 DEF Interrupted, Writes
  <2>4. CASE running # None
    <3>1. end \in Said
      BY <1>1, <1>4, <2>4
    <3>2. <<ack, end>> \in Seq(Said) /\ <<end, ack>> \in Seq(Said)
      BY <2>1, <3>1
    <3>3. stdout \o <<ack, end>> \in Seq(Said) /\ stdout \o <<end, ack>> \in Seq(Said)
      BY <1>4, <3>2, ConcatProperties
    <3> QED
      BY <1>9, <2>2, <2>4, <3>3 DEF Interrupted, Writes
  <2> QED
    BY <2>3, <2>4
<1> QED
  BY <1>5, <1>6, <1>7, <1>8, <1>9 DEF Harness

\* What a step leaves alone keeps its type.
LEMMA TypesStay ==
  ASSUME Typing, minted' = minted
  PROVE  /\ Turns' = Turns /\ Emissions' = Emissions
         /\ UNCHANGED harnessVars => HarnessTypes'
         /\ UNCHANGED <<turnVars, steerVars>> => SessionTypes'
         /\ UNCHANGED <<outbox, connDone>> => ReaderTypes'
         /\ UNCHANGED <<watcher, lost>> => WatchTypes'
         /\ UNCHANGED channelVars => ChannelTypes'
         /\ UNCHANGED actorVars => ActorTypes'
         /\ UNCHANGED <<opened, stream>> => HistoryTypes'
<1>1. Turns' = Turns /\ Emissions' = Emissions
  BY TurnsStay
<1>2. UNCHANGED harnessVars => HarnessTypes'
  BY DEF Typing, HarnessTypes, harnessVars
<1>3. UNCHANGED <<turnVars, steerVars>> => SessionTypes'
  BY <1>1 DEF Typing, SessionTypes, turnVars, steerVars
<1>4. UNCHANGED <<outbox, connDone>> => ReaderTypes'
  BY <1>1 DEF Typing, ReaderTypes
<1>5. UNCHANGED <<watcher, lost>> => WatchTypes'
  BY <1>1 DEF Typing, WatchTypes
<1>6. UNCHANGED channelVars => ChannelTypes'
  BY <1>1 DEF Typing, ChannelTypes, channelVars
<1>7. UNCHANGED actorVars => ActorTypes'
  BY <1>1 DEF Typing, ActorTypes, actorVars
<1>8. UNCHANGED <<opened, stream>> => HistoryTypes'
  BY <1>1 DEF Typing, HistoryTypes
<1> QED
  BY <1>1, <1>2, <1>3, <1>4, <1>5, <1>6, <1>7, <1>8

\* A frame leaves the session's turn, ends it, or opens another.
LEMMA Frame ==
  ASSUME Typing, HandleReplay \/ HandleOutput \/ HandleResult \/ HandleAck
  PROVE  Goes \/ EndsTurn \/ OpensAnother
<1>1. stdout # <<>> /\ Head(stdout) \in Said /\ outbox = <<>>
  BY Parts DEF HandleReplay, HandleOutput, HandleResult, HandleAck, ReadLoop, Typing, HarnessTypes
<1>2. CASE HandleReplay
  <2>1. Head(stdout).by \in Inputs
    BY <1>1, <1>2 DEF HandleReplay, ReadLoop, Said
  <2> QED
    BY <1>1, <1>2, <2>1 DEF HandleReplay, Goes, OpensAnother
<1>3. CASE HandleOutput
  <2>1. Head(stdout).by \in Inputs \cup {"self"}
    BY <1>1, <1>3 DEF HandleOutput, ReadLoop, Said
  <2> QED
    BY <1>1, <1>3, <2>1 DEF HandleOutput, Goes, OpensAnother
<1>4. CASE HandleResult
  BY <1>1, <1>4 DEF HandleResult, EndsTurn
<1>5. CASE HandleAck
  BY <1>1, <1>5 DEF HandleAck, Goes
<1> QED
  BY <1>2, <1>3, <1>4, <1>5

\* Every step keeps the types.
LEMMA TypeStep ==
  ASSUME Typing, CallOK, [Next]_vars
  PROVE  Typing'
<1>1. CASE Harness
  <2>1. stdout' \in Seq(Said)
    BY <1>1, Written
  <2>2. UNCHANGED harnessElse
    BY <1>1 DEF Harness, Read, SelfStart, Output, Result, Die, Interrupted
  <2>3. held' \in Seq(Inputs) /\ running' \in Inputs \cup {None, "self"} /\ alive' \in BOOLEAN
    <3>1. held # <<>> => Head(held) \in Inputs /\ Tail(held) \in Seq(Inputs)
      BY Parts DEF Typing, HarnessTypes
    <3>2. <<>> \in Seq(Inputs) /\ held \in Seq(Inputs)
      BY DEF Typing, HarnessTypes
    <3>3. CASE Read \/ SelfStart \/ Output \/ Result \/ Die
      BY <3>1, <3>2, <3>3 DEF Read, SelfStart, Output, Result, Die, Typing, HarnessTypes
    <3>4. CASE \E who \in Steers \cup 1..MaxCancels : Interrupted(who)
      BY <3>4 DEF Interrupted, Typing, HarnessTypes
    <3> QED
      BY <1>1, <3>3, <3>4 DEF Harness
  <2>4. /\ interrupts' \subseteq interrupts /\ outs' \in {outs, outs + 1} /\ selfs' \in {selfs, selfs + 1}
    BY <1>1 DEF Harness, Read, SelfStart, Output, Result, Die, Interrupted
  <2> QED
    BY <2>1, <2>2, <2>3, <2>4, TypesStay DEF Typing, HarnessTypes, harnessElse, exitVars, historyVars
<1>2. CASE HandleReplay \/ HandleOutput \/ HandleResult \/ HandleAck
  <2>1. /\ stdout # <<>> /\ Head(stdout) \in Said /\ stdout' = Tail(stdout) /\ Tail(stdout) \in Seq(Said)
        /\ outbox = <<>> /\ UNCHANGED <<alive, held, running, outs, selfs, exitVars, channelVars,
                                        opened, stream>>
    BY <1>2, Parts DEF HandleReplay, HandleOutput, HandleResult, HandleAck, ReadLoop, Typing,
       HarnessTypes
  <2>2. HarnessTypes'
    <3>1. CASE HandleReplay
      <4>1. Head(stdout).by \in Inputs
        BY <2>1, <3>1 DEF HandleReplay, ReadLoop, Said
      <4>2. interrupts' \subseteq interrupts \cup Steers
        BY <3>1, <4>1 DEF HandleReplay, Inputs
      <4> QED
        BY <2>1, <4>2 DEF Typing, HarnessTypes
    <3>2. CASE HandleOutput \/ HandleResult \/ HandleAck
      BY <2>1, <3>2 DEF HandleOutput, HandleResult, HandleAck, Typing, HarnessTypes
    <3> QED
      BY <1>2, <3>1, <3>2
  <2>3. steers' \in [Steers -> {"none", "sent", "discarded"}] /\ suppress' \in BOOLEAN
    BY <1>2 DEF HandleReplay, HandleOutput, HandleResult, HandleAck, Typing, SessionTypes, steerVars
  <2>4. acked' \in BOOLEAN /\ UNCHANGED <<pc, arg, busy, used, cancels>>
    BY <1>2 DEF HandleReplay, HandleOutput, HandleResult, HandleAck, Typing, ActorTypes, actorVars
  <2>5. CASE OpensAnother
    <3>1. /\ Turns \subseteq Turns' /\ minted' \in Nat /\ minted' \in Turns'
          /\ \A s \in Seq(Emissions) : s \in Seq(Emissions')
          /\ \A s \in Seq(Turns) : s \in Seq(Turns')
      BY <2>5, TurnsGrow DEF OpensAnother
    <3>2. ReaderTypes'
      <4>1. {Started(minted')} \cup {Chunk(minted', i) : i \in Inputs \cup {"self"}} \subseteq Emissions'
        BY <3>1 DEF Emissions, Turns, Started, Chunk
      <4>2. connDone' \in BOOLEAN
        BY <2>1 DEF exitVars, Typing, ReaderTypes
      <4> QED
        BY <2>5, <4>1, <4>2, Few DEF OpensAnother, ReaderTypes
    <3>3. SessionTypes'
      BY <2>3, <2>5, <3>1 DEF OpensAnother, OpensTurn, SessionTypes
    <3>4. WatchTypes' /\ ChannelTypes' /\ HistoryTypes'
      BY <2>1, <3>1 DEF exitVars, channelVars, Typing, WatchTypes, ChannelTypes, HistoryTypes
    <3>5. ActorTypes'
      BY <2>4, <3>1 DEF Typing, ActorTypes
    <3> QED
      BY <2>2, <3>2, <3>3, <3>4, <3>5 DEF Typing
  <2>6. CASE Goes \/ EndsTurn
    <3>1. minted' = minted /\ turnID' \in {turnID, None} /\ sawResult' \in BOOLEAN
      BY <2>6 DEF Goes, EndsTurn, turnVars, Typing, SessionTypes
    <3>2. ReaderTypes'
      <4>1. turnID # None => /\ Finish(turnID) \in Emissions
                             /\ \A i \in Inputs \cup {"self"} :
                                  {Chunk(turnID, i), Injected(turnID, i)} \subseteq Emissions
        BY EventsOf DEF Typing, SessionTypes, Emissions, Turns, Finish, Chunk, Injected
      <4>2. connDone' \in BOOLEAN
        BY <2>1 DEF exitVars, Typing, ReaderTypes
      <4>3. outbox' \in Seq(Emissions)
        <5>1. outbox' = <<>> \/ \E e \in Emissions : outbox' = <<e>>
          BY <2>6, <4>1 DEF Goes, EndsTurn
        <5> QED
          BY <5>1, Few, EmptySeq
      <4> QED
        BY <3>1, <4>2, <4>3, TurnsStay DEF ReaderTypes
    <3>3. SessionTypes'
      BY <2>3, <3>1, TurnsStay DEF Typing, SessionTypes
    <3>4. ActorTypes'
      BY <2>4, <3>1, TurnsStay DEF Typing, ActorTypes
    <3> QED
      BY <2>1, <2>2, <3>1, <3>2, <3>3, <3>4, TypesStay DEF Typing, exitVars
  <2> QED
    BY <1>2, <2>5, <2>6, Frame
<1>3. CASE ReaderEmits
  <2>1. Head(outbox) \in Emissions /\ Tail(outbox) \in Seq(Emissions)
    BY <1>3, Parts DEF ReaderEmits, Typing, ReaderTypes
  <2>2. minted' = minted
    BY <1>3 DEF ReaderEmits
  <2>3. ReaderTypes' /\ ChannelTypes' /\ HistoryTypes'
    BY <1>3, <2>1, <2>2, TurnsStay, Emitted DEF ReaderEmits, exitVars, Typing, ReaderTypes,
       ChannelTypes, HistoryTypes
  <2> QED
    BY <1>3, <2>2, <2>3, TypesStay DEF ReaderEmits, exitVars, Typing
<1>4. CASE ReaderEnds \/ WatchTakes \/ WatchCloses
  <2>1. minted' = minted
    BY <1>4 DEF ReaderEnds, WatchTakes, WatchCloses
  <2>2. SessionTypes' /\ WatchTypes'
    BY <1>4, <2>1, TurnsStay DEF ReaderEnds, WatchTakes, WatchCloses, Typing, SessionTypes, WatchTypes,
       turnVars, steerVars
  <2>3. ReaderTypes' /\ ChannelTypes'
    BY <1>4, <2>1, TurnsStay DEF ReaderEnds, WatchTakes, WatchCloses, Typing, ReaderTypes, ChannelTypes,
       channelVars
  <2> QED
    BY <1>4, <2>1, <2>2, <2>3, TypesStay DEF ReaderEnds, WatchTakes, WatchCloses, Typing, historyVars
<1>5. CASE WatchEmits
  <2>1. Finish(lost) \in Emissions /\ minted' = minted
    BY <1>5 DEF WatchEmits, Typing, WatchTypes, Emissions, Turns, Finish
  <2>2. WatchTypes' /\ ChannelTypes' /\ HistoryTypes'
    BY <1>5, <2>1, TurnsStay, Emitted DEF WatchEmits, Typing, WatchTypes, ChannelTypes, HistoryTypes
  <2> QED
    BY <1>5, <2>1, <2>2, TypesStay DEF WatchEmits, Typing
<1>6. CASE CancelEmits
  <2>1. Finish(arg) \in Emissions /\ minted' = minted
    BY <1>6 DEF CancelEmits, Emissions, Turns, Finish, CallOK, IsTurn
  <2>2. ActorTypes' /\ ChannelTypes' /\ HistoryTypes'
    BY <1>6, <2>1, TurnsStay, Emitted DEF CancelEmits, Typing, ActorTypes, ChannelTypes, HistoryTypes
  <2> QED
    BY <1>6, <2>1, <2>2, TypesStay DEF CancelEmits, Typing, exitVars
<1>7. CASE HandleExit \/ GivesUp \/ Acknowledged \/ CancelTakes
  <2>1. minted' = minted
    BY <1>7 DEF HandleExit, GivesUp, Acknowledged, CancelTakes
  <2>2. ActorTypes' /\ SessionTypes'
    BY <1>7, <2>1, TurnsStay DEF HandleExit, GivesUp, Acknowledged, CancelTakes, Typing, ActorTypes,
       SessionTypes, turnVars, steerVars
  <2> QED
    BY <1>7, <2>1, <2>2, TypesStay DEF HandleExit, GivesUp, Acknowledged, CancelTakes, Typing,
       exitVars, historyVars
<1>8. CASE Close
  <2>1. minted' = minted
    BY <1>8 DEF Close
  <2>2. ActorTypes' /\ ChannelTypes'
    BY <1>8, <2>1, TurnsStay DEF Close, Typing, ActorTypes, ChannelTypes
  <2>3. HarnessTypes'
    <3>1. <<>> \in Seq(Inputs)
      BY EmptySeq
    <3> QED
      BY <1>8, <3>1 DEF Close, Typing, HarnessTypes
  <2> QED
    BY <1>8, <2>1, <2>2, <2>3, TypesStay DEF Close, Typing, exitVars, historyVars
<1>9. CASE HandleEvent
  <2>1. Head(events).turn \in Turns /\ Tail(events) \in Seq(Emissions) /\ Len(Tail(events)) <= Room
    <3>1. Head(events) \in Emissions /\ Tail(events) \in Seq(Emissions)
          /\ Len(Tail(events)) = Len(events) - 1 /\ Len(events) \in Nat
      BY <1>9, Parts DEF HandleEvent, Typing, ChannelTypes
    <3> QED
      BY <3>1, SessionConstants DEF Emissions, Turns, Typing, ChannelTypes
  <2>2. minted' = minted
    BY <1>9 DEF HandleEvent
  <2>3. busy' \in {busy, None, Head(events).turn}
    BY <1>9 DEF HandleEvent
  <2>4. ActorTypes' /\ ChannelTypes'
    BY <1>9, <2>1, <2>2, <2>3, TurnsStay DEF HandleEvent, Typing, ActorTypes, ChannelTypes
  <2> QED
    BY <1>9, <2>2, <2>4, TypesStay DEF HandleEvent, Typing, exitVars, historyVars
<1>10. CASE PromptWrites \/ SteerWrites
  <2>1. minted' = minted /\ arg \in Inputs /\ (pc = "steering" => arg \in Steers)
    BY <1>10 DEF PromptWrites, SteerWrites, actorElse, CallOK, Inputs
  <2>2. HarnessTypes'
    <3>1. held' \in {held, Append(held, arg)} /\ UNCHANGED <<alive, running, interrupts, stdout, outs, selfs>>
      BY <1>10 DEF PromptWrites, SteerWrites, actorElse
    <3> QED
      BY <2>1, <3>1, Longer DEF Typing, HarnessTypes
  <2>3. ActorTypes'
    BY <1>10, <2>1, TurnsStay DEF PromptWrites, SteerWrites, Typing, ActorTypes
  <2>4. SessionTypes'
    BY <1>10, <2>1, TurnsStay DEF PromptWrites, SteerWrites, Typing, SessionTypes, turnVars, steerVars
  <2> QED
    BY <1>10, <2>1, <2>2, <2>3, <2>4, TypesStay DEF PromptWrites, SteerWrites, actorElse, Typing, exitVars
<1>11. CASE PromptLocks
  <2>1. minted' = minted /\ arg \in Prompts
    BY <1>11 DEF PromptLocks, actorElse, CallOK
  <2>2. ActorTypes' /\ HarnessTypes'
    BY <1>11, <2>1, TurnsStay DEF PromptLocks, actorElse, Typing, ActorTypes, HarnessTypes
  <2>3. SessionTypes' /\ HistoryTypes'
    BY <1>11, <2>1, TurnsStay DEF PromptLocks, Typing, SessionTypes, HistoryTypes, turnVars, steerVars,
       Turns
  <2> QED
    BY <1>11, <2>1, <2>2, <2>3, TypesStay DEF PromptLocks, actorElse, Typing, exitVars
<1>12. CASE Cancel
  <2>1. minted' = minted /\ cancels' \in 1..MaxCancels
    BY <1>12, SessionConstants DEF Cancel, actorElse, Typing, ActorTypes
  <2>2. ActorTypes'
    <3>1. /\ pc' \in {pc, "waiting"} /\ arg' \in {arg, turnID} /\ acked' = FALSE
          /\ UNCHANGED <<busy, used>>
      BY <1>12 DEF Cancel
    <3>2. cancels' \in 0..MaxCancels
      BY <2>1
    <3> QED
      BY <2>1, <3>1, <3>2, TurnsStay DEF Typing, ActorTypes, SessionTypes
  <2>3. SessionTypes'
    BY <1>12, <2>1, TurnsStay DEF Cancel, Typing, SessionTypes, turnVars
  <2>4. HarnessTypes'
    BY <1>12, <2>1 DEF Cancel, actorElse, Typing, HarnessTypes
  <2> QED
    BY <1>12, <2>1, <2>2, <2>3, <2>4, TypesStay DEF Cancel, actorElse, Typing, exitVars
<1>13. CASE \E q \in Steers : SteerLocks(q)
  <2>1. minted' = minted
    BY <1>13 DEF SteerLocks
  <2>2. ActorTypes' /\ SessionTypes'
    BY <1>13, <2>1, TurnsStay DEF SteerLocks, Typing, ActorTypes, SessionTypes, turnVars, Inputs
  <2> QED
    BY <1>13, <2>1, <2>2, TypesStay DEF SteerLocks, Typing, exitVars, historyVars
<1>14. CASE \E t \in Prompts : StartTurn(t)
  <2>1. minted' = minted
    BY <1>14 DEF StartTurn
  <2>2. ActorTypes'
    BY <1>14, <2>1, TurnsStay DEF StartTurn, Typing, ActorTypes, Inputs, Turns
  <2> QED
    BY <1>14, <2>1, <2>2, TypesStay DEF StartTurn, Typing, exitVars, historyVars
<1>15. CASE UNCHANGED vars
  BY <1>15, TypesStay DEF vars, Typing, exitVars, historyVars
<1> QED
  BY <1>1, <1>2, <1>3, <1>4, <1>5, <1>6, <1>7, <1>8, <1>9, <1>10, <1>11, <1>12, <1>13, <1>14,
     <1>15 DEF Next, ReadsOn, Watch, Calls, Asks

-----------------------------------------------------------------------------
(* The turns.                                                               *)

\* A turn is not None, and the turns the session numbers are no prompts.
LEMMA TurnsApart ==
  ASSUME Typing
  PROVE  /\ None \notin Turns /\ 1..minted \cap Prompts = {} /\ minted \notin Prompts
         /\ minted + 1 \notin Prompts /\ minted + 1 # None
         /\ \A t : IsTurn(t) <=> t \in Turns
BY SessionConstants DEF Typing, SessionTypes, Turns, IsTurn

\* What an emission opens and ends.
LEMMA EmittedEnds ==
  ASSUME Typing, NEW e \in Emissions, Emit(e)
  PROVE  \/ (closed \/ eventsClosed) /\ opened' = opened /\ ended' = ended /\ stream' = stream
         \/ /\ ~closed /\ ~eventsClosed
            /\ opened' = IF e.k = "started" THEN opened \cup {e.turn} ELSE opened
            /\ ended' = IF e.k = "finished" THEN ended \cup {e.turn} ELSE ended
            /\ stream' = IF e.k = "finished" THEN Append(stream, e.turn) ELSE stream
<1>1. e.turn \in Turns /\ stream \in Seq(Turns)
  BY DEF Emissions, Turns, Typing, HistoryTypes
<1>2. stream' = stream => ended' = ended
  BY DEF ended
<1>3. stream' = Append(stream, e.turn) => ended' = ended \cup {e.turn}
  <2> SUFFICES ASSUME stream' = Append(stream, e.turn) PROVE ended' = ended \cup {e.turn}
    OBVIOUS
  <2>1. /\ DOMAIN stream = 1..Len(stream) /\ DOMAIN stream' = 1..(Len(stream) + 1)
        /\ Len(stream) \in Nat
        /\ \A i \in 1..Len(stream) : stream'[i] = stream[i]
        /\ stream'[Len(stream) + 1] = e.turn
    BY <1>1, Longer
  <2> QED
    BY <2>1 DEF ended
<1> QED
  BY <1>2, <1>3, Emitted DEF Recorded, historyVars

\* A process that has gone says nothing more, and its watcher takes what is left.
LEMMA ExitStep ==
  ASSUME Typing, ExitOK, [Next]_vars
  PROVE  ExitOK'
<1>1. CASE Harness
  <2>1. alive /\ UNCHANGED <<turnVars, outbox, exitVars, channelVars, actorVars>>
    BY <1>1 DEF Harness, Read, SelfStart, Output, Result, Die, Interrupted, harnessElse
  <2>2. alive' \/ (held' = <<>> /\ running' = None /\ interrupts' = {})
    BY <1>1, <2>1 DEF Harness, Read, SelfStart, Output, Result, Die, Interrupted
  <2> QED
    BY <2>1, <2>2 DEF ExitOK, turnVars, exitVars, channelVars, actorVars
<1>2. CASE HandleReplay \/ HandleOutput \/ HandleResult \/ HandleAck
  <2>1. stdout # <<>> /\ UNCHANGED <<alive, held, running, exitVars, channelVars, pc>>
    BY <1>2 DEF HandleReplay, HandleOutput, HandleResult, HandleAck, ReadLoop, actorVars
  <2>2. ~alive => interrupts' = interrupts
    BY <1>2 DEF HandleReplay, HandleOutput, HandleResult, HandleAck
  <2>3. turnID' # None => ~sawResult'
    BY <1>2, Frame DEF Goes, EndsTurn, OpensAnother, OpensTurn, turnVars, ExitOK
  <2> QED
    BY <2>1, <2>2, <2>3 DEF ExitOK, exitVars, channelVars
<1>3. CASE ReaderEmits \/ ReaderEnds \/ WatchTakes \/ WatchEmits \/ WatchCloses
  BY <1>3 DEF ExitOK, ReaderEmits, ReaderEnds, WatchTakes, WatchEmits, WatchCloses, harnessVars,
     turnVars, exitVars, channelVars, actorVars, Typing, ReaderTypes, WatchTypes, ChannelTypes
<1>4. CASE PromptLocks
  <2>1. turnID' # turnID => ~connDone /\ sawResult' = FALSE
    BY <1>4 DEF PromptLocks, Accepts, turnVars
  <2>2. sawResult' \in {sawResult, FALSE} /\ pc = "prompting"
    BY <1>4 DEF PromptLocks, turnVars
  <2>3. UNCHANGED <<alive, stdout, running, outbox, held, interrupts, exitVars, channelVars>>
    BY <1>4 DEF PromptLocks, actorElse
  <2>4. watcher' # "wait" => connDone' /\ turnID' = None
    BY <2>1, <2>3 DEF ExitOK, exitVars
  <2>5. turnID' # None => ~sawResult'
    BY <2>1, <2>2 DEF ExitOK
  <2> QED
    BY <2>2, <2>3, <2>4, <2>5 DEF ExitOK, exitVars, channelVars
<1>5. CASE PromptWrites \/ SteerWrites \/ Acknowledged \/ GivesUp
  BY <1>5 DEF ExitOK, PromptWrites, SteerWrites, Acknowledged, GivesUp, actorElse,
     harnessVars, turnVars, exitVars, channelVars
<1>6. CASE CancelTakes \/ CancelEmits \/ HandleEvent \/ HandleExit
  BY <1>6 DEF ExitOK, CancelTakes, CancelEmits, HandleEvent, HandleExit, harnessVars, turnVars,
     exitVars, channelVars
<1>7. CASE Cancel
  BY <1>7 DEF ExitOK, Cancel, actorElse, turnVars, exitVars, channelVars
<1>8. CASE Close
  BY <1>8 DEF ExitOK, Close, turnVars, exitVars
<1>9. CASE (\E t \in Prompts : StartTurn(t)) \/ (\E q \in Steers : SteerLocks(q))
  BY <1>9 DEF ExitOK, StartTurn, SteerLocks, harnessVars, turnVars, exitVars, channelVars
<1>10. CASE UNCHANGED vars
  BY <1>10 DEF ExitOK, vars, harnessVars, turnVars, exitVars, channelVars, actorVars
<1> QED
  BY <1>1, <1>2, <1>3, <1>5, <1>6, <1>7, <1>8, <1>9, <1>10, <1>4 DEF Next, ReadsOn, Watch, Calls, Asks

\* What may be left on its way opens what the session holds.
LEMMA OutboxStep ==
  ASSUME TurnInv, [Next]_vars
  PROVE  OutboxOK'
<1> USE DEF TurnInv
<1>1. CASE HandleReplay \/ HandleOutput \/ HandleResult \/ HandleAck
  <2>1. opened' = opened
    BY <1>1 DEF HandleReplay, HandleOutput, HandleResult, HandleAck, ReadLoop
  <2>2. CASE Goes \/ EndsTurn
    BY <2>2 DEF Goes, EndsTurn, OutboxOK, Finish, Chunk, Injected
  <2>3. CASE OpensAnother
    <3>1. turnID' = minted' /\ minted' # 0 /\ minted' \notin opened'
      <4>1. OpensTurn /\ minted' = minted + 1 /\ minted' \notin Turns
        BY <2>3, TurnsGrow DEF OpensAnother
      <4>2. minted \in Nat /\ opened \subseteq Turns
        BY DEF Typing, HistoryTypes, SessionTypes
      <4> QED
        BY <2>1, <4>1, <4>2 DEF OpensTurn
    <3> QED
      BY <2>3, <3>1 DEF OpensAnother, OutboxOK, Started, Chunk
  <2> QED
    BY <1>1, <2>2, <2>3, Frame
<1>2. CASE ReaderEmits
  <2>1. /\ outbox # <<>> /\ outbox' = Tail(outbox) /\ UNCHANGED <<turnID, minted>>
        /\ Head(outbox) \in Emissions /\ Emit(Head(outbox)) /\ Head(outbox) = outbox[1]
        /\ DOMAIN outbox = 1..Len(outbox) /\ Len(outbox) \in Nat \ {0}
        /\ Len(Tail(outbox)) = Len(outbox) - 1 /\ DOMAIN outbox' = 1..(Len(outbox) - 1)
        /\ \A i \in 1..(Len(outbox) - 1) : outbox'[i] = outbox[i + 1]
    BY <1>2, Parts DEF ReaderEmits, Typing, ReaderTypes, turnVars
  <2>2. \A i \in DOMAIN outbox' : outbox'[i].k \notin {"started", "finished"}
    BY <2>1 DEF OutboxOK
  <2> QED
    BY <2>2 DEF OutboxOK
<1>3. CASE WatchTakes
  BY <1>3 DEF WatchTakes, ExitOK, OutboxOK
<1>4. CASE CancelTakes
  <2>1. UNCHANGED <<outbox, minted, opened>> /\ (turnID' = turnID \/ (turnID = arg /\ pc = "taking"))
    BY <1>4 DEF CancelTakes, StillOpen, turnVars, historyVars
  <2> QED
    BY <2>1 DEF OutboxOK, CallOK, Unannounced
<1>5. CASE PromptLocks
  <2>1. /\ UNCHANGED <<outbox, minted>> /\ arg \in Prompts
        /\ \/ UNCHANGED <<turnID, opened>>
           \/ turnID \in {None, arg} /\ opened' = opened \cup {arg}
    BY <1>5 DEF PromptLocks, actorElse, turnVars, Accepts, CallOK
  <2> QED
    BY <2>1, TurnsApart, SessionConstants DEF OutboxOK, Typing, SessionTypes
<1>6. CASE WatchEmits \/ CancelEmits
  <2>1. \E t \in Turns : Emit(Finish(t)) /\ Finish(t) \in Emissions
    BY <1>6, TurnsApart DEF WatchEmits, CancelEmits, CallOK, Typing, WatchTypes, Emissions, Turns, Finish
  <2>2. opened' = opened
    BY <2>1, EmittedEnds DEF Finish
  <2> QED
    BY <1>6, <2>2 DEF WatchEmits, CancelEmits, OutboxOK, turnVars
<1>7. CASE UNCHANGED <<outbox, minted, turnID, opened>>
  BY <1>7 DEF OutboxOK
<1>8. Harness \/ ReaderEnds \/ WatchCloses \/ UNCHANGED vars \/ Asks
        => UNCHANGED <<outbox, minted, turnID, opened>>
  BY DEF Harness, Read, SelfStart, Output, Result, Die, Interrupted, harnessElse, ReaderEnds,
     WatchCloses, vars, Asks, StartTurn, SteerLocks, Cancel, Close, actorElse, turnVars, historyVars
<1>9. PromptWrites \/ SteerWrites \/ Acknowledged \/ GivesUp \/ HandleEvent \/ HandleExit
        => UNCHANGED <<outbox, minted, turnID, opened>>
  BY DEF PromptWrites, SteerWrites, Acknowledged, GivesUp, HandleEvent, HandleExit, actorElse,
     turnVars, historyVars
<1> QED
  BY <1>1, <1>2, <1>3, <1>4, <1>5, <1>6, <1>7, <1>8, <1>9 DEF Next, ReadsOn, Watch, Calls

\* What the actor's call is about is a turn that was announced, or one nobody opened yet.
LEMMA CallStep ==
  ASSUME TurnInv, [Next]_vars
  PROVE  CallOK'
<1> USE DEF TurnInv
<1>1. CASE HandleReplay \/ HandleOutput \/ HandleResult \/ HandleAck
  <2>1. UNCHANGED <<opened, pc, arg, used>>
    BY <1>1 DEF HandleReplay, HandleOutput, HandleResult, HandleAck, ReadLoop, actorVars
  <2>2. acked' = acked \/ outbox' = <<>>
    BY <1>1 DEF HandleReplay, HandleOutput, HandleResult, HandleAck, ReadLoop, actorVars
  <2>3. CASE Goes \/ EndsTurn
    <3>1. minted' = minted /\ ~\E t : Unannounced(t)'
      BY <2>3 DEF Goes, EndsTurn, turnVars, Unannounced, Finish, Chunk, Injected
    <3> QED
      BY <2>1, <3>1 DEF CallOK, IsTurn
  <2>4. CASE OpensAnother
    <3>1. Turns \subseteq Turns' /\ minted' \notin Turns
      BY <2>4, TurnsGrow DEF OpensAnother
    <3>2. \A t \in Turns : IsTurn(t)' /\ ~Unannounced(t)'
      BY <2>4, <3>1 DEF OpensAnother, Unannounced, Started, Chunk, IsTurn, Turns
    <3>3. pc \in {"waiting", "taking", "finishing"} => arg \in Turns
      BY TurnsApart DEF CallOK
    <3> QED
      BY <2>1, <3>2, <3>3 DEF CallOK
  <2> QED
    BY <1>1, <2>3, <2>4, Frame
<1>2. CASE ReaderEmits
  <2>1. /\ outbox # <<>> /\ outbox' = Tail(outbox) /\ UNCHANGED <<minted, pc, arg, acked, used>>
        /\ Head(outbox) \in Emissions /\ Emit(Head(outbox)) /\ Head(outbox) = outbox[1]
        /\ DOMAIN outbox = 1..Len(outbox) /\ Len(outbox) \in Nat \ {0}
        /\ Len(Tail(outbox)) = Len(outbox) - 1 /\ DOMAIN outbox' = 1..(Len(outbox) - 1)
        /\ \A i \in 1..(Len(outbox) - 1) : outbox'[i] = outbox[i + 1]
    BY <1>2, Parts DEF ReaderEmits, Typing, ReaderTypes, actorVars
  <2>2. ~\E t : Unannounced(t)'
    BY <2>1 DEF OutboxOK, Unannounced
  <2>3. opened' = opened \/ opened' = opened \cup {minted}
    BY <2>1, EmittedEnds DEF OutboxOK
  <2>4. minted \notin Prompts
    BY TurnsApart
  <2> QED
    BY <2>1, <2>2, <2>3, <2>4 DEF CallOK, IsTurn
<1>3. CASE PromptLocks
  <2>1. /\ pc = "prompting" /\ pc' \in {"writing", "loop"} /\ UNCHANGED <<used, arg>>
        /\ opened' = opened \/ opened' = opened \cup {arg}
    BY <1>3 DEF PromptLocks
  <2> QED
    BY <2>1 DEF CallOK
<1>4. CASE WatchEmits \/ CancelEmits
  <2>1. \E t \in Turns : Emit(Finish(t)) /\ Finish(t) \in Emissions
    BY <1>4, TurnsApart DEF WatchEmits, CancelEmits, CallOK, Typing, WatchTypes, Emissions, Turns, Finish
  <2>2. opened' = opened
    BY <2>1, EmittedEnds DEF Finish
  <2>3. CASE WatchEmits
    BY <2>2, <2>3 DEF WatchEmits, actorVars, CallOK, IsTurn, Unannounced
  <2>4. CASE CancelEmits
    BY <2>2, <2>4 DEF CancelEmits, CallOK
  <2> QED
    BY <1>4, <2>3, <2>4
<1>5. CASE Acknowledged \/ CancelTakes
  BY <1>5 DEF Acknowledged, CancelTakes, historyVars, CallOK, IsTurn, Unannounced
<1>6. CASE \E t \in Prompts : StartTurn(t)
  BY <1>6 DEF StartTurn, historyVars, CallOK
<1>7. CASE \E q \in Steers : SteerLocks(q)
  BY <1>7 DEF SteerLocks, historyVars, CallOK
<1>8. CASE Cancel
  <2>1. /\ acked' = FALSE /\ UNCHANGED <<opened, used, minted>> /\ pc' \in {"loop", "waiting"}
        /\ pc' = "waiting" => arg' = turnID /\ turnID # None
    BY <1>8 DEF Cancel, actorElse
  <2>2. turnID # None => IsTurn(turnID)
    BY DEF Typing, SessionTypes, Turns, IsTurn
  <2> QED
    BY <2>1, <2>2 DEF CallOK, IsTurn
<1>9. CASE PromptWrites \/ SteerWrites \/ GivesUp \/ HandleEvent \/ HandleExit \/ Close
  BY <1>9 DEF PromptWrites, SteerWrites, GivesUp, HandleEvent, HandleExit, Close, historyVars, CallOK
<1>10. CASE Harness \/ ReaderEnds \/ WatchTakes \/ WatchCloses \/ UNCHANGED vars
  <2>1. UNCHANGED <<outbox, minted, opened, pc, arg, acked, used>>
    BY <1>10 DEF Harness, Read, SelfStart, Output, Result, Die, Interrupted, harnessElse, ReaderEnds,
       WatchTakes, WatchCloses, vars, actorVars, historyVars
  <2> QED
    BY <2>1 DEF CallOK, IsTurn, Unannounced
<1> QED
  BY <1>1, <1>2, <1>3, <1>4, <1>5, <1>6, <1>7, <1>8, <1>9, <1>10 DEF Next, ReadsOn, Watch, Calls, Asks

\* The reader's end of a turn is alone in what it has to emit.
LEMMA ReaderEnd ==
  ASSUME Typing, OutboxOK, outbox # <<>>
  PROVE  /\ \A t : ReaderHas(t) <=> outbox[1] = Finish(t)
         /\ outbox[1] \in Emissions /\ Head(outbox) = outbox[1]
         /\ outbox[1].k = "started" => outbox[1].turn = minted /\ turnID = minted
         /\ outbox[1].k = "finished" => outbox[1] = Finish(outbox[1].turn)
         /\ \A t : Unannounced(t) <=> outbox[1].k = "started" /\ outbox[1].turn = t
         /\ outbox' = Tail(outbox) =>
              \A t : ~(\E i \in DOMAIN outbox' : outbox'[i] = Finish(t))
                     /\ ~(\E i \in DOMAIN outbox' : outbox'[i].k = "started" /\ outbox'[i].turn = t)
<1>1. /\ DOMAIN outbox = 1..Len(outbox) /\ Len(outbox) \in Nat \ {0}
      /\ Head(outbox) = outbox[1] /\ Head(outbox) \in Emissions
      /\ Len(Tail(outbox)) = Len(outbox) - 1 /\ DOMAIN Tail(outbox) = 1..(Len(outbox) - 1)
      /\ \A i \in 1..(Len(outbox) - 1) : Tail(outbox)[i] = outbox[i + 1]
  BY Parts DEF Typing, ReaderTypes
<1>2. \A t : Finish(t).k = "finished"
  BY DEF Finish
<1> QED
  BY <1>1, <1>2 DEF OutboxOK, ReaderHas, Unannounced

\* A turn is ended by one of the three, once, after it was opened.
LEMMA OnceStep ==
  ASSUME TurnInv, [Next]_vars
  PROVE  OnceOK'
<1> USE DEF TurnInv
<1>1. CASE HandleReplay \/ HandleOutput \/ HandleResult \/ HandleAck
  <2>1. /\ outbox = <<>> /\ UNCHANGED <<opened, stream, pc, arg, watcher, lost, closed, eventsClosed>>
        /\ watcher = "wait"
    BY <1>1 DEF HandleReplay, HandleOutput, HandleResult, HandleAck, ReadLoop, actorVars, exitVars,
       channelVars, ExitOK
  <2>2. ended' = ended /\ ~\E t : Unannounced(t) \/ ReaderHas(t)
    BY <2>1 DEF ended, Unannounced, ReaderHas
  <2>3. CASE Goes
    <3>1. UNCHANGED <<turnID, minted>> /\ ~\E t : ReaderHas(t)'
      BY <2>3 DEF Goes, turnVars, ReaderHas, Finish, Chunk, Injected
    <3> QED
      BY <2>1, <2>2, <3>1 DEF OnceOK, CancelHas, WatchHas, Turns
  <2>4. CASE EndsTurn
    <3>1. turnID' = None /\ minted' = minted /\ \A t : ReaderHas(t)' <=> t = turnID /\ turnID # None
      BY <2>4 DEF EndsTurn, ReaderHas, Finish
    <3> QED
      BY <2>1, <2>2, <3>1 DEF OnceOK, CancelHas, WatchHas, Turns
  <2>5. CASE OpensAnother
    <3>1. turnID' = minted' /\ minted' = minted + 1 /\ minted' \notin Turns /\ minted \in Nat
      BY <2>5, TurnsGrow DEF OpensAnother, OpensTurn, Typing, SessionTypes
    <3>2. Turns' = Turns \cup {minted'}
      BY <3>1 DEF Turns
    <3>3. Unannounced(turnID)'
      BY <2>5, <3>1 DEF OpensAnother, Unannounced, Started, Chunk
    <3>4. ~\E t : ReaderHas(t)'
      BY <2>5 DEF OpensAnother, ReaderHas, Started, Chunk, Finish
    <3>5. pc = "finishing" => arg \in Turns
      BY TurnsApart DEF CallOK
    <3>6. opened \subseteq Turns
      BY DEF Typing, HistoryTypes
    <3>7. (\A t : ~CancelHas(t)' \/ t \in Turns) /\ \A t : ~WatchHas(t)'
      BY <2>1, <3>5 DEF CancelHas, WatchHas
    <3>8. turnID = None /\ None \notin Turns
      BY <2>5, TurnsApart DEF OpensAnother
    <3> QED
      BY <2>1, <2>2, <3>1, <3>4, <3>5, <3>6, <3>2, <3>3, <3>7, <3>8 DEF OnceOK, CancelHas, WatchHas
  <2> QED
    BY <1>1, <2>3, <2>4, <2>5, Frame
<1>2. CASE ReaderEmits
  <2>1. /\ outbox # <<>> /\ outbox' = Tail(outbox) /\ Emit(outbox[1]) /\ outbox[1] \in Emissions
        /\ UNCHANGED <<turnID, minted, pc, arg, watcher, lost, closed, eventsClosed>>
    BY <1>2, ReaderEnd DEF ReaderEmits, turnVars, actorVars, exitVars
  <2>2. watcher = "wait" /\ ~eventsClosed
    BY <2>1 DEF ExitOK
  <2>3. ~\E t : ReaderHas(t)' \/ Unannounced(t)'
    BY <2>1, ReaderEnd DEF ReaderHas, Unannounced
  <2>4. /\ \A t : ReaderHas(t) <=> outbox[1] = Finish(t)
        /\ \A t : Unannounced(t) <=> outbox[1].k = "started" /\ outbox[1].turn = t
        /\ outbox[1].k = "finished" => outbox[1] = Finish(outbox[1].turn)
        /\ outbox[1].k = "started" => outbox[1].turn = turnID
    BY <2>1, ReaderEnd
  <2>5. outbox[1].turn \in Turns
    BY <2>1 DEF Emissions, Turns
  <2>6. Turns' = Turns
    BY <2>1 DEF Turns
  <2>7. ~closed => /\ opened' = IF outbox[1].k = "started" THEN opened \cup {outbox[1].turn} ELSE opened
                   /\ ended' = IF outbox[1].k = "finished" THEN ended \cup {outbox[1].turn} ELSE ended
    BY <2>1, <2>2, EmittedEnds
  <2>8. UNCHANGED <<turnID, closed, eventsClosed, pc, arg, watcher, lost>>
    BY <2>1
  <2>9. \A t : Finish(t).turn = t /\ Finish(t).k = "finished"
    BY DEF Finish
  <2>10. CASE outbox[1].k = "finished"
    <3> DEFINE u == outbox[1].turn
    <3>1. \A t : ReaderHas(t) <=> t = u
      BY <2>4, <2>10, <2>9
    <3>2. ~closed => opened' = opened /\ ended' = ended \cup {u}
      BY <2>7, <2>10
    <3>3. ~\E t : Unannounced(t)
      BY <2>4, <2>10
    <3>4. u \in Turns
      BY <2>5
    <3> HIDE DEF u
    <3> QED
      BY <2>2, <2>3, <2>6, <2>8, <3>1, <3>2, <3>3, <3>4 DEF OnceOK, CancelHas, WatchHas
  <2>11. CASE outbox[1].k # "finished"
    <3>1. ~\E t : ReaderHas(t)
      BY <2>4, <2>11, <2>9
    <3>2. ~closed => ended' = ended /\ opened \subseteq opened' /\ opened' \subseteq opened \cup {turnID}
      BY <2>4, <2>7, <2>11
    <3>3. ~closed => \A t : Unannounced(t) => t \in opened'
      BY <2>4, <2>7
    <3> QED
      BY <2>2, <2>3, <2>6, <2>8, <3>1, <3>2, <3>3 DEF OnceOK, CancelHas, WatchHas
  <2> QED
    BY <2>10, <2>11
<1>3. CASE PromptLocks
  <2>1. /\ pc = "prompting" /\ pc' \in {"writing", "loop"}
        /\ UNCHANGED <<outbox, stream, watcher, lost, closed, eventsClosed, minted>>
        /\ \/ UNCHANGED <<turnID, opened>>
           \/ turnID \in {None, arg} /\ turnID' = arg /\ opened' = opened \cup {arg}
    BY <1>3 DEF PromptLocks, Accepts, actorElse, exitVars, channelVars, turnVars
  <2>2. ended' = ended /\ \A t : ReaderHas(t)' = ReaderHas(t) /\ Unannounced(t)' = Unannounced(t)
    BY <2>1 DEF ended, ReaderHas, Unannounced
  <2>3. arg \in Turns \ opened /\ opened \subseteq Turns /\ None \notin Turns
    BY <2>1, TurnsApart DEF CallOK, Turns, Typing, HistoryTypes
  <2> QED
    BY <2>1, <2>2, <2>3 DEF OnceOK, CancelHas, WatchHas, Turns
<1>4. CASE WatchTakes
  <2>1. /\ outbox = <<>> /\ watcher = "wait" /\ lost' = turnID /\ turnID' = None
        /\ UNCHANGED <<outbox, opened, stream, pc, arg, closed, eventsClosed, minted>>
        /\ watcher' = "emit" <=> turnID # None
    BY <1>4 DEF WatchTakes, ExitOK, actorVars, channelVars, historyVars
  <2>2. ended' = ended /\ ~\E t : ReaderHas(t) \/ ReaderHas(t)' \/ Unannounced(t)
    BY <2>1 DEF ended, ReaderHas, Unannounced
  <2> QED
    BY <2>1, <2>2 DEF OnceOK, CancelHas, WatchHas, Turns
<1>5. CASE WatchEmits
  <2>1. /\ watcher = "emit" /\ watcher' = "close" /\ lost \in Turns /\ turnID = None
        /\ Emit(Finish(lost)) /\ UNCHANGED <<outbox, pc, arg, closed, eventsClosed, minted, turnID>>
        /\ outbox = <<>>
    BY <1>5 DEF WatchEmits, Typing, WatchTypes, ExitOK, actorVars, turnVars
  <2>2. Finish(lost) \in Emissions /\ Finish(lost).k = "finished" /\ Finish(lost).turn = lost
    BY <2>1 DEF Emissions, Turns, Finish
  <2>3. ~\E t : ReaderHas(t) \/ ReaderHas(t)'
    BY <2>1 DEF ReaderHas
  <2>4. opened' = opened /\ (ended' = ended \cup {lost} \/ (ended' = ended /\ (closed \/ eventsClosed)))
    BY <2>1, <2>2, EmittedEnds
  <2> QED
    BY <2>1, <2>3, <2>4 DEF OnceOK, CancelHas, WatchHas, Turns
<1>6. CASE CancelTakes
  <2>1. /\ pc = "taking" /\ UNCHANGED <<outbox, opened, stream, arg, closed, eventsClosed, minted, watcher, lost>>
        /\ \/ turnID = arg /\ turnID' = None /\ pc' = "finishing"
           \/ turnID' = turnID /\ pc' = "loop"
    BY <1>6 DEF CancelTakes, StillOpen, turnVars, exitVars, channelVars, historyVars
  <2>2. ended' = ended /\ \A t : ReaderHas(t)' = ReaderHas(t) /\ Unannounced(t)' = Unannounced(t)
    BY <2>1 DEF ended, ReaderHas, Unannounced
  <2>3. arg \in Turns /\ arg # None /\ ~Unannounced(arg)
    BY <2>1, TurnsApart DEF CallOK
  <2>4. watcher = "emit" => turnID = None
    BY DEF ExitOK
  <2> QED
    BY <2>1, <2>2, <2>3, <2>4 DEF OnceOK, CancelHas, WatchHas, Turns
<1>7. CASE CancelEmits
  <2>1. /\ pc = "finishing" /\ pc' = "loop" /\ arg \in Turns /\ Emit(Finish(arg))
        /\ UNCHANGED <<outbox, closed, eventsClosed, minted, turnID, watcher, lost>>
    BY <1>7, TurnsApart DEF CancelEmits, CallOK, turnVars, exitVars
  <2>2. Finish(arg) \in Emissions /\ Finish(arg).k = "finished" /\ Finish(arg).turn = arg
    BY <2>1 DEF Emissions, Turns, Finish
  <2>3. \A t : ReaderHas(t)' = ReaderHas(t) /\ Unannounced(t)' = Unannounced(t)
    BY <2>1 DEF ReaderHas, Unannounced
  <2>4. opened' = opened /\ (ended' = ended \cup {arg} \/ (ended' = ended /\ (closed \/ eventsClosed)))
    BY <2>1, <2>2, EmittedEnds
  <2> QED
    BY <2>1, <2>3, <2>4 DEF OnceOK, CancelHas, WatchHas, Turns
<1>8. CASE Close
  BY <1>8 DEF Close, OnceOK
<1>9. CASE /\ UNCHANGED <<outbox, opened, stream, closed, eventsClosed, minted, turnID, watcher, lost>>
           /\ pc = "finishing" \/ pc' = "finishing" => UNCHANGED <<pc, arg>>
  <2>1. ended' = ended /\ \A t : ReaderHas(t)' = ReaderHas(t) /\ Unannounced(t)' = Unannounced(t)
    BY <1>9 DEF ended, ReaderHas, Unannounced
  <2> QED
    BY <1>9, <2>1 DEF OnceOK, CancelHas, WatchHas, Turns
<1>10. CASE /\ UNCHANGED <<outbox, opened, stream, closed, minted, turnID, lost, pc, arg>>
            /\ watcher' = "emit" <=> watcher = "emit"
            /\ eventsClosed => eventsClosed'
  <2>1. ended' = ended /\ \A t : ReaderHas(t)' = ReaderHas(t) /\ Unannounced(t)' = Unannounced(t)
    BY <1>10 DEF ended, ReaderHas, Unannounced
  <2> QED
    BY <1>10, <2>1 DEF OnceOK, CancelHas, WatchHas, Turns
<1>11. CASE Harness \/ UNCHANGED vars
  <2>1. UNCHANGED <<turnVars, minted, outbox, exitVars, channelVars, actorVars, historyVars>>
    BY <1>11 DEF Harness, Read, SelfStart, Output, Result, Die, Interrupted, harnessElse,
       vars
  <2> QED
    BY <1>10, <2>1 DEF turnVars, exitVars, channelVars, actorVars, historyVars
<1>12. CASE ReaderEnds \/ WatchCloses
  BY <1>10, <1>12 DEF ReaderEnds, WatchCloses, turnVars, exitVars, channelVars, actorVars, historyVars
<1>13. CASE PromptWrites \/ SteerWrites \/ Acknowledged \/ GivesUp \/ HandleEvent \/ HandleExit
  BY <1>9, <1>13 DEF PromptWrites, SteerWrites, Acknowledged, GivesUp, HandleEvent, HandleExit,
     actorElse, turnVars, exitVars, channelVars, historyVars
<1>14. CASE (\E t \in Prompts : StartTurn(t)) \/ (\E q \in Steers : SteerLocks(q)) \/ Cancel
  BY <1>9, <1>14 DEF StartTurn, SteerLocks, Cancel, actorElse, turnVars, exitVars, channelVars,
     historyVars
<1> QED
  BY <1>1, <1>2, <1>3, <1>4, <1>5, <1>6, <1>7, <1>8, <1>11, <1>13, <1>14, <1>12
     DEF Next, ReadsOn, Watch, Calls, Asks

\* No turn is open at first.
LEMMA TurnInvInit == Init => TurnInv
<1> SUFFICES ASSUME Init PROVE TurnInv
  OBVIOUS
<1>1. Typing
  <2>1. /\ <<>> \in Seq(Inputs) /\ <<>> \in Seq(Said) /\ <<>> \in Seq(Emissions)
        /\ <<>> \in Seq(Turns) /\ Len(<<>>) = 0
    BY EmptySeq
  <2>2. HarnessTypes /\ ReaderTypes /\ WatchTypes /\ HistoryTypes
    BY <2>1 DEF Init, HarnessTypes, ReaderTypes, WatchTypes, HistoryTypes
  <2>3. SessionTypes
    BY DEF Init, SessionTypes
  <2>4. 0 \in 0..MaxCancels /\ 0 <= Room
    BY SessionConstants
  <2>5. ChannelTypes
    BY <2>1, <2>4 DEF Init, ChannelTypes
  <2>6. ActorTypes
    BY <2>4 DEF Init, ActorTypes
  <2> QED
    BY <2>2, <2>3, <2>5, <2>6 DEF Typing
<1>2. ended = {}
  BY DEF Init, ended
<1> QED
  BY <1>1, <1>2 DEF Init, TurnInv, ExitOK, OutboxOK, CallOK, OnceOK, ReaderHas, CancelHas, WatchHas

\* The turns stay as the invariant has them, whoever steps.
LEMMA TurnInvStep ==
  ASSUME TurnInv, [Next]_vars
  PROVE  TurnInv'
<1>1. Typing'
  BY TypeStep DEF TurnInv
<1>2. ExitOK'
  BY ExitStep DEF TurnInv
<1> QED
  BY <1>1, <1>2, OutboxStep, CallStep, OnceStep DEF TurnInv

\* The invariant of the turns holds throughout.
LEMMA TurnsCorrect == Spec => []TurnInv
<1>1. TurnInv /\ [Next]_vars => TurnInv'
  BY TurnInvStep
<1> QED
  BY <1>1, TurnInvInit, PTL DEF Spec

\* Every variable of the session, its goroutines and the harness keeps its type.
THEOREM TypeCorrect == Spec => []TypeOK
<1>1. TurnInv => TypeOK
  <2> SUFFICES ASSUME TurnInv PROVE TypeOK
    OBVIOUS
  <2>1. stdout \in Seq(Frames)
    <3>1. Said \subseteq Frames
      BY DEF Said, Frames
    <3> QED
      BY <3>1, SeqMonotonic DEF TurnInv, Typing, HarnessTypes
  <2>2. \A t : IsTurn(t) <=> t \in Turns
    BY TurnsApart DEF TurnInv
  <2>3. \A i \in DOMAIN stream : stream[i] \in Turns
    BY ElementOfSeq DEF TurnInv, Typing, HistoryTypes
  <2> QED
    BY <2>1, <2>2, <2>3 DEF TurnInv, Typing, HarnessTypes, SessionTypes, ReaderTypes, WatchTypes,
       ChannelTypes, ActorTypes, HistoryTypes, TypeOK
<1> QED
  BY <1>1, TurnsCorrect, PTL

\* A turn that was prompted or announced is ended or in the hand of one of the three
\* that end turns, until the channel or the session is closed (claude.go handleResult,
\* Cancel, watchExit).
THEOREM EndsAreInHand == Spec => []NoTurnAbandoned
<1>1. TurnInv => NoTurnAbandoned
  BY DEF TurnInv, OnceOK, NoTurnAbandoned, EndInHand, ReaderHas, CancelHas, WatchHas
<1> QED
  BY <1>1, TurnsCorrect, PTL

\* Each turn is opened once and ended at most once after, whichever of the read loop,
\* a cancel and the exit watcher ends it: the session implements TurnStream.
THEOREM EveryTurnIsPaired == Spec => TurnsPaired
<1>1. Init => Stream!Init
  BY DEF Init, Stream!Init
<1>2. TurnInv /\ [Next]_vars => [Stream!Next]_<<opened, stream>>
  <2> SUFFICES ASSUME TurnInv, [Next]_vars PROVE Stream!Next \/ UNCHANGED <<opened, stream>>
    OBVIOUS
  <2>1. ASSUME NEW t \in opened \ ended, Emit(Finish(t)), Finish(t) \in Emissions
        PROVE  Stream!Next \/ UNCHANGED <<opened, stream>>
    <3>1. opened' = opened /\ (stream' = stream \/ stream' = Append(stream, t))
      BY <2>1, EmittedEnds DEF Finish, TurnInv
    <3> QED
      BY <2>1, <3>1 DEF Stream!Next, Stream!End, Stream!Ended, ended
  <2>2. CASE ReaderEmits
    <3>1. /\ outbox # <<>> /\ outbox' = Tail(outbox) /\ Emit(outbox[1]) /\ outbox[1] \in Emissions
      BY <2>2, ReaderEnd DEF ReaderEmits, TurnInv
    <3>2. CASE outbox[1].k = "finished"
      <4>1. outbox[1] = Finish(outbox[1].turn) /\ ReaderHas(outbox[1].turn) /\ outbox[1].turn \in Turns
        BY <3>1, <3>2, ReaderEnd DEF TurnInv, Emissions, Turns
      <4>2. closed \/ outbox[1].turn \in opened \ ended
        BY <4>1 DEF TurnInv, OnceOK
      <4>3. closed => UNCHANGED <<opened, stream>>
        BY <3>1, EmittedEnds DEF TurnInv
      <4> QED
        BY <2>1, <3>1, <4>1, <4>2, <4>3
    <3>3. CASE outbox[1].k = "started"
      <4>1. outbox[1].turn \notin opened
        BY <3>1, <3>3, Parts DEF TurnInv, OutboxOK, Typing, ReaderTypes
      <4>2. UNCHANGED <<opened, stream>> \/ (opened' = opened \cup {outbox[1].turn} /\ stream' = stream)
        BY <3>1, <3>3, EmittedEnds DEF TurnInv
      <4> QED
        BY <4>1, <4>2 DEF Stream!Next, Stream!Open
    <3>4. CASE outbox[1].k \notin {"started", "finished"}
      BY <3>1, <3>4, EmittedEnds DEF TurnInv
    <3> QED
      BY <3>2, <3>3, <3>4
  <2>3. CASE WatchEmits
    <3>1. Emit(Finish(lost)) /\ WatchHas(lost) /\ lost \in Turns
      BY <2>3 DEF WatchEmits, WatchHas, TurnInv, Typing, WatchTypes
    <3>2. Finish(lost) \in Emissions
      BY <3>1 DEF Emissions, Turns, Finish
    <3>3. closed \/ lost \in opened \ ended
      BY <3>1 DEF TurnInv, OnceOK
    <3>4. closed => UNCHANGED <<opened, stream>>
      BY <3>1, <3>2, EmittedEnds DEF TurnInv
    <3> QED
      BY <2>1, <3>1, <3>2, <3>3, <3>4
  <2>4. CASE CancelEmits
    <3>1. Emit(Finish(arg)) /\ CancelHas(arg) /\ arg \in Turns
      BY <2>4, TurnsApart DEF CancelEmits, CancelHas, TurnInv, CallOK
    <3>2. Finish(arg) \in Emissions
      BY <3>1 DEF Emissions, Turns, Finish
    <3>3. closed \/ arg \in opened \ ended
      BY <3>1 DEF TurnInv, OnceOK
    <3>4. closed => UNCHANGED <<opened, stream>>
      BY <3>1, <3>2, EmittedEnds DEF TurnInv
    <3> QED
      BY <2>1, <3>1, <3>2, <3>3, <3>4
  <2>5. CASE PromptLocks
    <3>1. arg \notin opened /\ stream' = stream /\ opened' \in {opened, opened \cup {arg}}
      BY <2>5 DEF PromptLocks, TurnInv, CallOK
    <3> QED
      BY <3>1 DEF Stream!Next, Stream!Open
  <2>6. CASE Harness \/ HandleReplay \/ HandleOutput \/ HandleResult \/ HandleAck \/ UNCHANGED vars
    BY <2>6 DEF Harness, Read, SelfStart, Output, Result, Die, Interrupted, harnessElse, HandleReplay,
       HandleOutput, HandleResult, HandleAck, ReadLoop, vars, historyVars
  <2>7. CASE ReaderEnds \/ WatchTakes \/ WatchCloses \/ Asks
    BY <2>7 DEF ReaderEnds, WatchTakes, WatchCloses, Asks, StartTurn, SteerLocks, Cancel, Close,
       historyVars
  <2>8. CASE \/ PromptWrites \/ SteerWrites \/ Acknowledged \/ GivesUp \/ CancelTakes \/ HandleEvent
             \/ HandleExit
    BY <2>8 DEF PromptWrites, SteerWrites, Acknowledged, GivesUp, CancelTakes, HandleEvent, HandleExit,
       historyVars
  <2> QED
    BY <2>2, <2>3, <2>4, <2>5, <2>6, <2>7, <2>8 DEF Next, ReadsOn, Watch, Calls
<1> QED
  BY <1>1, <1>2, TurnsCorrect, PTL DEF Spec, TurnsPaired, Stream!Spec

-----------------------------------------------------------------------------
(* Discarded steers.                                                        *)

\* A steer the harness has not read, and what stands for one on its way back.
Waits(q) ==
  \/ q \notin used
  \/ pc = "steering" /\ arg = q
  \/ \E i \in DOMAIN held : held[i] = q
HeldOK ==
  /\ \A i, j \in DOMAIN held : held[i] = held[j] => i = j
  /\ \A i \in DOMAIN held : held[i] \in used
  /\ pc \in {"prompting", "writing", "steering"} => arg \in used /\ \A i \in DOMAIN held : held[i] # arg

\* Frame i says k of q; a result ends what runs between frame i and frame j.
Says(s, i, k, q) == s[i].k = k /\ s[i].by = q
Ending(s, i, j) == \E m \in DOMAIN s : i < m /\ m < j /\ s[m].k = "result"
Silent(q) == q \notin shown /\ \A i \in DOMAIN outbox : outbox[i].k = "chunk" => outbox[i].by # q
WaitsOK ==
  \A q \in Steers : Waits(q) =>
    /\ running # q /\ Silent(q) /\ q \notin dropped
    /\ \A i \in DOMAIN stdout : ~Says(stdout, i, "echo", q) /\ ~Says(stdout, i, "out", q)
EchoOK ==
  \A q \in Steers : \A i \in DOMAIN stdout : Says(stdout, i, "echo", q) =>
    /\ Silent(q) /\ q \notin dropped
    /\ \A j \in DOMAIN stdout : /\ Says(stdout, j, "echo", q) => j = i
                                /\ Says(stdout, j, "out", q) => i < j /\ ~Ending(stdout, i, j)
    /\ running = q => ~Ending(stdout, i, Len(stdout) + 1)
DroppedOK ==
  /\ dropped \subseteq Steers
  /\ \A q \in dropped :
       /\ Silent(q)
       /\ \A j \in DOMAIN stdout : Says(stdout, j, "out", q) => suppress /\ ~Ending(stdout, 0, j)
       /\ running = q => suppress /\ ~Ending(stdout, 0, Len(stdout) + 1)

SteerInv == TurnInv /\ HeldOK /\ WaitsOK /\ EchoOK /\ DroppedOK

\* What the harness does to what it has said: it reads one it holds, it puts one out, or
\* it comes to rest or starts by itself.
Kept == Len(stdout) <= Len(stdout') /\ \A i \in DOMAIN stdout : stdout'[i] = stdout[i]
Adds(k, q) == /\ Len(stdout') = Len(stdout) + 1
              /\ stdout'[Len(stdout) + 1].k = k /\ stdout'[Len(stdout) + 1].by = q
Echoes == /\ held # <<>> /\ held' = Tail(held) /\ Adds("echo", Head(held))
          /\ running' = IF running = None THEN Head(held) ELSE running
Outputs == running # None /\ Adds("out", running) /\ UNCHANGED <<running, held>>
Rests == /\ running' \in {None, "self"} /\ held' \in {held, <<>>}
         /\ \A i \in DOMAIN stdout' : i > Len(stdout) => stdout'[i].k \in {"result", "ack"}

\* What the harness does to its side of the pipe.
LEMMA Speaks ==
  ASSUME Typing, Harness
  PROVE  Kept /\ (Echoes \/ Outputs \/ Rests)
<1>1. /\ stdout \in Seq(Said) /\ Len(stdout) \in Nat /\ DOMAIN stdout = 1..Len(stdout)
      /\ running \in Inputs \cup {None, "self"} /\ held \in Seq(Inputs)
  BY DEF Typing, HarnessTypes
<1>2. \A f \in Said : LET s == stdout \o <<f>>
                      IN  /\ Len(s) = Len(stdout) + 1 /\ s[Len(stdout) + 1] = f
                          /\ \A i \in DOMAIN stdout : s[i] = stdout[i]
  BY <1>1, Longer
<1>3. CASE Read
  <2>1. [k |-> "echo", by |-> Head(held)] \in Said
    BY <1>1, <1>3, Parts DEF Read, Said
  <2> QED
    BY <1>1, <1>2, <1>3, <2>1 DEF Read, Writes, Kept, Echoes, Adds
<1>4. CASE Output
  <2>1. [k |-> "out", by |-> running] \in Said
    BY <1>1, <1>4 DEF Output, Said
  <2> QED
    BY <1>1, <1>2, <1>4, <2>1 DEF Output, Writes, Kept, Outputs, Adds
<1>5. CASE SelfStart \/ Die
  BY <1>1, <1>5 DEF SelfStart, Die, Kept, Rests
<1>6. CASE Result
  <2>1. [k |-> "result", by |-> running] \in Said
    BY <1>1, <1>6 DEF Result, Said
  <2> QED
    BY <1>1, <1>2, <1>6, <2>1 DEF Result, Writes, Kept, Rests
<1>7. ASSUME NEW who \in Steers \cup 1..MaxCancels, Interrupted(who)
      PROVE  Kept /\ Rests
  <2> DEFINE ack == [k |-> "ack", by |-> who]
             end == [k |-> "result", by |-> running]
  <2>1. /\ running' = None /\ held' = held
        /\ \/ stdout' = stdout \o <<ack>>
           \/ running # None /\ (stdout' = stdout \o <<end, ack>> \/ stdout' = stdout \o <<ack, end>>)
    BY <1>7 DEF Interrupted, Writes
  <2>2. ack \in Said /\ (running # None => end \in Said)
    BY <1>1 DEF Said
  <2>3. \A n \in Seq(Said) : LET s == stdout \o n
          IN  /\ Len(s) = Len(stdout) + Len(n) /\ Len(n) \in Nat /\ DOMAIN s = 1..(Len(stdout) + Len(n))
              /\ \A i \in DOMAIN s : s[i] = IF i <= Len(stdout) THEN stdout[i] ELSE n[i - Len(stdout)]
    BY <1>1, ConcatProperties
  <2>4. \E n \in Seq(Said) : stdout' = stdout \o n /\ \A i \in 1..Len(n) : n[i].k \in {"result", "ack"}
    <3>1. CASE stdout' = stdout \o <<ack>>
      <4>1. <<ack>> \in Seq(Said) /\ \A i \in 1..Len(<<ack>>) : <<ack>>[i].k \in {"result", "ack"}
        BY <2>2
      <4> QED
        BY <3>1, <4>1
    <3>2. CASE running # None /\ stdout' = stdout \o <<end, ack>>
      <4>1. /\ <<end, ack>> \in Seq(Said)
            /\ \A i \in 1..Len(<<end, ack>>) : <<end, ack>>[i].k \in {"result", "ack"}
        BY <2>2, <3>2
      <4> QED
        BY <3>2, <4>1
    <3>3. CASE running # None /\ stdout' = stdout \o <<ack, end>>
      <4>1. /\ <<ack, end>> \in Seq(Said)
            /\ \A i \in 1..Len(<<ack, end>>) : <<ack, end>>[i].k \in {"result", "ack"}
        BY <2>2, <3>3
      <4> QED
        BY <3>3, <4>1
    <3> QED
      BY <2>1, <3>1, <3>2, <3>3
  <2> HIDE DEF ack, end
  <2> QED
    BY <1>1, <2>1, <2>3, <2>4 DEF Kept, Rests
<1> QED
  BY <1>3, <1>4, <1>5, <1>6, <1>7 DEF Harness

\* What the reading of a frame leaves of the pipe.
LEMMA ReadOff ==
  ASSUME Typing, HandleReplay \/ HandleOutput \/ HandleResult \/ HandleAck
  PROVE  /\ stdout # <<>> /\ Len(stdout) \in Nat \ {0} /\ Len(stdout') = Len(stdout) - 1
         /\ DOMAIN stdout = 1..Len(stdout) /\ DOMAIN stdout' = 1..(Len(stdout) - 1)
         /\ \A i \in DOMAIN stdout' : stdout'[i] = stdout[i + 1]
         /\ Head(stdout) = stdout[1] /\ stdout[1] \in Said
         /\ outbox = <<>> /\ UNCHANGED <<held, running, shown, used, pc, arg>>
<1>1. stdout # <<>> /\ stdout' = Tail(stdout) /\ outbox = <<>> /\ UNCHANGED <<held, running, shown, used, pc, arg>>
  BY DEF HandleReplay, HandleOutput, HandleResult, HandleAck, ReadLoop, actorVars
<1>2. stdout \in Seq(Said)
  BY DEF Typing, HarnessTypes
<1> QED
  BY <1>1, <1>2, Parts

\* What is held was asked for once, and is not what is about to be written.
LEMMA HeldStep ==
  ASSUME Typing, CallOK, HeldOK, [Next]_vars
  PROVE  HeldOK'
<1>1. held \in Seq(Inputs) /\ DOMAIN held = 1..Len(held) /\ Len(held) \in Nat
  BY DEF Typing, HarnessTypes
<1>2. CASE Harness
  <2>1. UNCHANGED <<pc, arg, used>>
    BY <1>2 DEF Harness, Read, SelfStart, Output, Result, Die, Interrupted, harnessElse, actorVars
  <2>2. held' \in {held, <<>>} \/ (held # <<>> /\ held' = Tail(held))
    BY <1>2, Speaks DEF Echoes, Outputs, Rests
  <2> QED
    BY <1>1, <2>1, <2>2, Parts DEF HeldOK
<1>3. CASE PromptWrites \/ SteerWrites
  <2>1. /\ pc' = "loop" /\ used' = used /\ held' \in {held, Append(held, arg)}
        /\ pc \in {"writing", "steering"} /\ arg \in Inputs
    BY <1>3 DEF PromptWrites, SteerWrites, CallOK, Inputs
  <2> QED
    BY <1>1, <2>1, Longer DEF HeldOK
<1>4. CASE (\E t \in Prompts : StartTurn(t)) \/ (\E q \in Steers : SteerLocks(q))
  <2>1. arg' \notin used /\ used' = used \cup {arg'} /\ held' = held
    BY <1>4 DEF StartTurn, SteerLocks, harnessVars
  <2> QED
    BY <2>1 DEF HeldOK
<1>5. CASE PromptLocks
  BY <1>5 DEF PromptLocks, HeldOK
<1>6. CASE Cancel \/ Close
  BY <1>6, <1>1, EmptySeq DEF Cancel, Close, HeldOK
<1>7. CASE HandleReplay \/ HandleOutput \/ HandleResult \/ HandleAck
  BY <1>7, ReadOff DEF HeldOK
<1>8. CASE ReaderEmits \/ ReaderEnds \/ Watch \/ UNCHANGED vars
  BY <1>8 DEF ReaderEmits, ReaderEnds, Watch, WatchTakes, WatchEmits, WatchCloses, vars, harnessVars,
     actorVars, HeldOK
<1>9. CASE Acknowledged \/ GivesUp \/ CancelTakes \/ CancelEmits \/ HandleEvent \/ HandleExit
  BY <1>9 DEF Acknowledged, GivesUp, CancelTakes, CancelEmits, HandleEvent, HandleExit, harnessVars,
     HeldOK
<1> QED
  BY <1>2, <1>3, <1>4, <1>5, <1>6, <1>7, <1>8, <1>9 DEF Next, ReadsOn, Calls, Asks

\* A steer that is read, or was, waits no more.
LEMMA WaitsShrink ==
  ASSUME Typing, CallOK, HeldOK, [Next]_vars, NEW q \in Steers, Waits(q)'
  PROVE  Waits(q) /\ (Harness /\ Echoes => q # Head(held))
<1>1. held \in Seq(Inputs) /\ DOMAIN held = 1..Len(held) /\ Len(held) \in Nat
  BY DEF Typing, HarnessTypes
<1>2. CASE Harness
  <2>1. UNCHANGED <<pc, arg, used>>
    BY <1>2 DEF Harness, Read, SelfStart, Output, Result, Die, Interrupted, harnessElse, actorVars
  <2>2. CASE Echoes
    BY <1>1, <2>1, <2>2, Parts DEF Echoes, Waits, HeldOK
  <2>3. CASE ~Echoes
    <3>1. held' \in {held, <<>>}
      BY <1>2, <2>3, Speaks DEF Outputs, Rests
    <3> QED
      BY <1>1, <2>1, <2>3, <3>1 DEF Waits
  <2> QED
    BY <2>2, <2>3
<1>3. CASE PromptWrites \/ SteerWrites
  <2>1. /\ pc' = "loop" /\ used' = used /\ held' \in {held, Append(held, arg)}
        /\ \/ pc = "writing" /\ arg \in Prompts
           \/ pc = "steering"
    BY <1>3 DEF PromptWrites, SteerWrites, CallOK
  <2>2. arg \in Inputs /\ q \notin Prompts
    BY <2>1, SessionConstants DEF CallOK, Inputs
  <2>3. ~Harness
    BY <2>1 DEF Harness, Read, SelfStart, Output, Result, Die, Interrupted, harnessElse, actorVars
  <2> QED
    BY <1>1, <2>1, <2>2, <2>3, Longer DEF Waits
<1>4. CASE ~Harness /\ held' \in {held, <<>>} /\ used \subseteq used'
           /\ (pc' = "steering" => (pc = "steering" /\ arg' = arg) \/ arg' \notin used)
  BY <1>1, <1>4 DEF Waits
<1>5. CASE ~Harness /\ ((\E t \in Prompts : StartTurn(t)) \/ (\E p \in Steers : SteerLocks(p)) \/ PromptLocks
            \/ Cancel \/ Close)
  BY <1>4, <1>5 DEF StartTurn, SteerLocks, PromptLocks, Cancel, Close, harnessVars, actorElse
<1>6. CASE ~Harness /\ (HandleReplay \/ HandleOutput \/ HandleResult \/ HandleAck)
  BY <1>4, <1>6, ReadOff
<1>7. CASE ~Harness /\ (ReaderEmits \/ ReaderEnds \/ Watch \/ UNCHANGED vars)
  BY <1>4, <1>7 DEF ReaderEmits, ReaderEnds, Watch, WatchTakes, WatchEmits, WatchCloses, vars, harnessVars,
     actorVars
<1>8. CASE ~Harness /\ (Acknowledged \/ GivesUp \/ CancelTakes \/ CancelEmits \/ HandleEvent \/ HandleExit)
  BY <1>4, <1>8 DEF Acknowledged, GivesUp, CancelTakes, CancelEmits, HandleEvent, HandleExit, harnessVars
<1> QED
  BY <1>2, <1>3, <1>5, <1>6, <1>7, <1>8 DEF Next, ReadsOn, Calls, Asks

\* Every other step leaves both sides of the pipe alone, but that it may end what runs.
Reading == HandleReplay \/ HandleOutput \/ HandleResult \/ HandleAck
LEMMA Elsewhere ==
  ASSUME [Next]_vars, ~Harness, ~Reading
  PROVE  UNCHANGED <<stdout, dropped, suppress>> /\ running' \in {running, None}
<1>1. CASE Close
  BY <1>1 DEF Close, steerVars, historyVars
<1>2. CASE ReaderEmits
  BY <1>2 DEF ReaderEmits, harnessVars, steerVars, Emit, Recorded, historyVars
<1>3. CASE WatchEmits \/ CancelEmits
  BY <1>3 DEF WatchEmits, CancelEmits, harnessVars, steerVars, Emit, Recorded, historyVars
<1>4. CASE ReaderEnds \/ WatchTakes \/ WatchCloses \/ UNCHANGED vars
  BY <1>4 DEF ReaderEnds, WatchTakes, WatchCloses, vars, harnessVars, steerVars, historyVars
<1>5. CASE PromptLocks \/ PromptWrites \/ SteerWrites \/ Cancel
  BY <1>5 DEF PromptLocks, PromptWrites, SteerWrites, Cancel, actorElse, steerVars
<1>6. CASE Acknowledged \/ GivesUp \/ CancelTakes \/ HandleEvent \/ HandleExit
  BY <1>6 DEF Acknowledged, GivesUp, CancelTakes, HandleEvent, HandleExit, harnessVars, steerVars,
     historyVars
<1>7. CASE (\E t \in Prompts : StartTurn(t)) \/ (\E p \in Steers : SteerLocks(p))
  BY <1>7 DEF StartTurn, SteerLocks, harnessVars, steerVars, historyVars
<1> QED
  BY <1>1, <1>2, <1>3, <1>4, <1>5, <1>6, <1>7 DEF Next, ReadsOn, Watch, Calls, Asks, Reading

\* Only the reading of its own output, where nothing suppresses it, tells of a steer.
LEMMA Hush ==
  ASSUME Typing, CallOK, [Next]_vars, NEW q \in Steers, Silent(q),
         ~(HandleOutput /\ ~suppress /\ stdout[1].by = q)
  PROVE  Silent(q)'
<1>1. q # None
  BY SessionConstants
<1>2. CASE Reading
  <2>1. outbox = <<>> /\ shown' = shown /\ Head(stdout) = stdout[1]
    BY <1>2, ReadOff DEF Reading
  <2>2. CASE HandleOutput
    BY <2>1, <2>2 DEF HandleOutput, Suppressed, Silent, Started, Chunk
  <2>3. CASE HandleReplay
    BY <2>1, <2>3 DEF HandleReplay, Silent, Started, Injected
  <2>4. CASE HandleResult \/ HandleAck
    BY <2>1, <2>4 DEF HandleResult, HandleAck, Silent, Finish
  <2> QED
    BY <1>2, <2>2, <2>3, <2>4 DEF Reading
<1>3. CASE ReaderEmits
  <2>1. /\ outbox # <<>> /\ outbox' = Tail(outbox) /\ Emit(Head(outbox)) /\ Head(outbox) = outbox[1]
        /\ DOMAIN outbox = 1..Len(outbox) /\ Len(outbox) \in Nat \ {0}
        /\ DOMAIN outbox' = 1..(Len(outbox) - 1)
        /\ \A i \in 1..(Len(outbox) - 1) : outbox'[i] = outbox[i + 1]
    BY <1>3, Parts DEF ReaderEmits, Typing, ReaderTypes
  <2>2. shown' = shown \/ (outbox[1].k = "chunk" /\ shown' = shown \cup {outbox[1].by})
    BY <2>1 DEF Emit, Recorded, historyVars
  <2> QED
    BY <2>1, <2>2 DEF Silent
<1>4. CASE WatchEmits \/ CancelEmits
  BY <1>4 DEF WatchEmits, CancelEmits, Emit, Recorded, historyVars, Finish, Silent
<1>5. CASE UNCHANGED <<outbox, shown>>
  BY <1>5 DEF Silent
<1>6. Harness \/ ReaderEnds \/ WatchTakes \/ WatchCloses \/ UNCHANGED vars => UNCHANGED <<outbox, shown>>
  BY DEF Harness, Read, SelfStart, Output, Result, Die, Interrupted, harnessElse, ReaderEnds,
     WatchTakes, WatchCloses, vars, historyVars
<1>7. Asks \/ PromptLocks \/ PromptWrites \/ SteerWrites => UNCHANGED <<outbox, shown>>
  BY DEF Asks, StartTurn, SteerLocks, Cancel, Close, PromptLocks, PromptWrites, SteerWrites, actorElse,
     historyVars
<1>8. Acknowledged \/ GivesUp \/ CancelTakes \/ HandleEvent \/ HandleExit => UNCHANGED <<outbox, shown>>
  BY DEF Acknowledged, GivesUp, CancelTakes, HandleEvent, HandleExit, historyVars
<1> QED
  BY <1>2, <1>3, <1>4, <1>5, <1>6, <1>7, <1>8 DEF Next, ReadsOn, Watch, Calls, Reading

\* The output of a steer comes after it was read.
LEMMA WaitsStep ==
  ASSUME SteerInv, [Next]_vars
  PROVE  WaitsOK'
<1> SUFFICES ASSUME NEW q \in Steers, Waits(q)'
             PROVE  /\ (running # q)' /\ Silent(q)' /\ q \notin dropped'
                    /\ \A i \in DOMAIN stdout' : /\ ~(stdout'[i].k = "echo" /\ stdout'[i].by = q)
                                                 /\ ~(stdout'[i].k = "out" /\ stdout'[i].by = q)
  BY DEF WaitsOK, Says
<1>1. Waits(q) /\ (Harness /\ Echoes => q # Head(held))
  BY WaitsShrink DEF SteerInv, TurnInv
<1>2. /\ running # q /\ Silent(q) /\ q \notin dropped
      /\ \A i \in DOMAIN stdout : /\ ~(stdout[i].k = "echo" /\ stdout[i].by = q)
                                  /\ ~(stdout[i].k = "out" /\ stdout[i].by = q)
  BY <1>1 DEF SteerInv, WaitsOK, Says
<1>3. q \notin {None, "self"}
  BY SessionConstants
<1>4. stdout \in Seq(Said) /\ DOMAIN stdout = 1..Len(stdout) /\ Len(stdout) \in Nat
  BY DEF SteerInv, TurnInv, Typing, HarnessTypes
<1>5. CASE Harness
  <2>1. Kept /\ (Echoes \/ Outputs \/ Rests) /\ stdout' \in Seq(Said)
    BY <1>5, Speaks, Written DEF SteerInv, TurnInv
  <2>2. DOMAIN stdout' = 1..Len(stdout') /\ Len(stdout') \in Nat
    BY <2>1
  <2>3. dropped' = dropped /\ Silent(q)'
    BY <1>2, <1>5 DEF Harness, Read, SelfStart, Output, Result, Die, Interrupted, harnessElse, historyVars,
       Silent
  <2>4. \A i \in DOMAIN stdout : /\ stdout'[i] = stdout[i]
                                 /\ ~(stdout'[i].k = "echo" /\ stdout'[i].by = q)
                                 /\ ~(stdout'[i].k = "out" /\ stdout'[i].by = q)
    BY <1>2, <2>1 DEF Kept
  <2>5. CASE Echoes
    <3>1. DOMAIN stdout' = 1..(Len(stdout) + 1) /\ ~Says(stdout', Len(stdout) + 1, "echo", q)
          /\ ~Says(stdout', Len(stdout) + 1, "out", q)
      BY <1>1, <1>5, <2>2, <2>5 DEF Echoes, Adds, Says
    <3>2. running' # q
      BY <1>1, <1>2, <1>5, <2>5 DEF Echoes
    <3> QED
      BY <1>2, <1>4, <2>3, <2>4, <3>1, <3>2 DEF Says
  <2>6. CASE Outputs
    <3>1. DOMAIN stdout' = 1..(Len(stdout) + 1) /\ ~Says(stdout', Len(stdout) + 1, "echo", q)
          /\ ~Says(stdout', Len(stdout) + 1, "out", q) /\ running' # q
      BY <1>2, <2>2, <2>6 DEF Outputs, Adds, Says
    <3> QED
      BY <1>2, <1>4, <2>3, <2>4, <3>1 DEF Says
  <2>7. CASE Rests
    <3>1. running' # q
      BY <1>3, <2>7 DEF Rests
    <3>2. \A i \in DOMAIN stdout' : i \in DOMAIN stdout \/ stdout'[i].k \in {"result", "ack"}
      BY <1>4, <2>2, <2>7 DEF Rests
    <3> QED
      BY <1>2, <2>3, <2>4, <3>1, <3>2
  <2> QED
    BY <2>1, <2>5, <2>6, <2>7
<1>6. CASE Reading
  <2>1. /\ Len(stdout) \in Nat \ {0} /\ DOMAIN stdout' = 1..(Len(stdout) - 1) /\ running' = running
        /\ \A i \in DOMAIN stdout' : stdout'[i] = stdout[i + 1]
        /\ Head(stdout) = stdout[1]
    BY <1>6, ReadOff DEF Reading, SteerInv, TurnInv
  <2>2. ~(HandleOutput /\ stdout[1].by = q)
    BY <1>2, <1>4, <2>1 DEF HandleOutput, ReadLoop
  <2>3. Silent(q)'
    BY <1>2, <2>2, Hush DEF SteerInv, TurnInv
  <2>4. q \notin dropped'
    BY <1>2, <1>4, <1>6, <2>1 DEF Reading, HandleReplay, HandleOutput, HandleResult, HandleAck, ReadLoop
  <2> QED
    BY <1>2, <1>4, <2>1, <2>3, <2>4
<1>7. CASE ~Harness /\ ~Reading
  <2>1. Silent(q)'
    BY <1>2, <1>7, Hush DEF Reading, SteerInv, TurnInv
  <2> QED
    BY <1>2, <1>3, <1>7, <2>1, Elsewhere
<1> QED
  BY <1>5, <1>6, <1>7

\* A steer is read once, and its output comes after that and before the result that ends it.
LEMMA EchoStep ==
  ASSUME SteerInv, [Next]_vars
  PROVE  EchoOK'
<1> SUFFICES ASSUME NEW q \in Steers, NEW i \in DOMAIN stdout', Says(stdout', i, "echo", q)
             PROVE  /\ Silent(q)' /\ q \notin dropped'
                    /\ \A j \in DOMAIN stdout' : /\ Says(stdout', j, "echo", q) => j = i
                                                 /\ Says(stdout', j, "out", q) => i < j /\ ~Ending(stdout', i, j)
                    /\ running' = q => ~Ending(stdout', i, Len(stdout') + 1)
  BY DEF EchoOK
<1>1. q \notin {None, "self"}
  BY SessionConstants
<1>2. stdout \in Seq(Said) /\ DOMAIN stdout = 1..Len(stdout) /\ Len(stdout) \in Nat
  BY DEF SteerInv, TurnInv, Typing, HarnessTypes
<1>3. CASE Harness
  <2>1. Kept /\ (Echoes \/ Outputs \/ Rests) /\ stdout' \in Seq(Said)
    BY <1>3, Speaks, Written DEF SteerInv, TurnInv
  <2>2. DOMAIN stdout' = 1..Len(stdout') /\ Len(stdout') \in Nat
    BY <2>1
  <2>3. dropped' = dropped /\ (Silent(q)' <=> Silent(q))
    BY <1>3 DEF Harness, Read, SelfStart, Output, Result, Die, Interrupted, harnessElse, historyVars,
       Silent
  <2>4. CASE i \in DOMAIN stdout
    <3>1. /\ Silent(q) /\ q \notin dropped /\ Says(stdout, i, "echo", q)
          /\ \A j \in DOMAIN stdout : /\ Says(stdout, j, "echo", q) => j = i
                                      /\ Says(stdout, j, "out", q) => i < j /\ ~Ending(stdout, i, j)
          /\ running = q => ~Ending(stdout, i, Len(stdout) + 1)
      BY <2>1, <2>4 DEF SteerInv, EchoOK, Kept, Says
    <3>2. Echoes => q # Head(held)
      BY <2>4, <3>1, <1>3, Parts DEF SteerInv, TurnInv, WaitsOK, Waits, Echoes, Says, Typing, HarnessTypes
    <3>3. \A j \in DOMAIN stdout : /\ Says(stdout', j, "out", q) <=> Says(stdout, j, "out", q)
                                   /\ Says(stdout', j, "echo", q) <=> Says(stdout, j, "echo", q)
                                   /\ Ending(stdout', i, j) <=> Ending(stdout, i, j)
      BY <1>2, <2>1, <2>2 DEF Kept, Says, Ending
    <3>4. CASE Echoes
      <4>1. running' = q => running = q
        BY <3>2, <3>4 DEF Echoes
      <4>2. Ending(stdout', i, Len(stdout') + 1) <=> Ending(stdout, i, Len(stdout) + 1)
        BY <1>2, <2>1, <2>2, <3>4 DEF Kept, Ending, Echoes, Adds
      <4> QED
        BY <1>2, <2>2, <2>3, <3>1, <3>2, <3>3, <3>4, <4>1, <4>2 DEF Echoes, Adds, Says
    <3>5. CASE Outputs
      <4>1. Ending(stdout', i, Len(stdout')) <=> Ending(stdout, i, Len(stdout) + 1)
        BY <1>2, <2>1, <2>2, <3>5 DEF Kept, Ending, Outputs, Adds
      <4>2. Ending(stdout', i, Len(stdout') + 1) <=> Ending(stdout, i, Len(stdout) + 1)
        BY <1>2, <2>1, <2>2, <3>5 DEF Kept, Ending, Outputs, Adds
      <4> QED
        <5>1. DOMAIN stdout' = 1..(Len(stdout) + 1) /\ Len(stdout') = Len(stdout) + 1
              /\ stdout'[Len(stdout) + 1].k = "out"
              /\ stdout'[Len(stdout) + 1].by = running /\ running' = running
          BY <1>2, <2>2, <3>5 DEF Outputs, Adds
        <5>2. ASSUME NEW j \in DOMAIN stdout'
              PROVE  /\ Says(stdout', j, "echo", q) => j = i
                     /\ Says(stdout', j, "out", q) => i < j /\ ~Ending(stdout', i, j)
          <6>1. CASE j \in DOMAIN stdout
            BY <3>1, <3>3, <6>1
          <6>2. CASE j \notin DOMAIN stdout
            <7>1. j = Len(stdout) + 1 /\ j = Len(stdout')
              BY <1>2, <5>1, <6>2
            <7> QED
              BY <1>2, <2>4, <3>1, <4>1, <5>1, <7>1 DEF Says
          <6> QED
            BY <6>1, <6>2
        <5> QED
          BY <2>3, <3>1, <4>2, <5>1, <5>2
    <3>6. CASE Rests
      BY <1>1, <1>2, <2>2, <2>3, <3>1, <3>3, <3>6 DEF Rests, Says
    <3> QED
      BY <2>1, <3>4, <3>5, <3>6
  <2>5. CASE i \notin DOMAIN stdout
    <3>1. Echoes /\ i = Len(stdout) + 1 /\ q = Head(held)
      <4>1. i \in Nat /\ i > Len(stdout) /\ i <= Len(stdout') /\ stdout'[i].k = "echo" /\ stdout'[i].by = q
        BY <1>2, <2>2, <2>5 DEF Says
      <4>2. ~Rests
        BY <4>1 DEF Rests
      <4>3. Len(stdout') = Len(stdout) + 1 => i = Len(stdout) + 1
        BY <1>2, <4>1
      <4>4. ~Outputs
        BY <4>1, <4>3 DEF Outputs, Adds
      <4> QED
        BY <2>1, <4>1, <4>2, <4>3, <4>4 DEF Echoes, Adds
    <3>2. Waits(q)
      BY <3>1, Parts DEF Waits, Echoes, SteerInv, TurnInv, Typing, HarnessTypes
    <3>3. /\ Silent(q) /\ q \notin dropped
          /\ \A j \in DOMAIN stdout : ~Says(stdout, j, "echo", q) /\ ~Says(stdout, j, "out", q)
      BY <3>2 DEF SteerInv, WaitsOK
    <3>4. \A j \in DOMAIN stdout' : Says(stdout', j, "echo", q) \/ Says(stdout', j, "out", q) => j = i
      BY <1>2, <2>1, <2>2, <3>1, <3>3 DEF Says, Kept, Echoes, Adds
    <3>5. ~Says(stdout', i, "out", q)
      BY DEF Says
    <3>6. ~Ending(stdout', i, Len(stdout') + 1)
      BY <1>2, <2>2, <3>1 DEF Ending, Echoes, Adds
    <3> QED
      BY <2>3, <3>3, <3>4, <3>5, <3>6
  <2> QED
    BY <2>4, <2>5
<1>4. CASE Reading
  <2>1. /\ Len(stdout) \in Nat \ {0} /\ DOMAIN stdout' = 1..(Len(stdout) - 1) /\ running' = running
        /\ Len(stdout') = Len(stdout) - 1 /\ \A j \in DOMAIN stdout' : stdout'[j] = stdout[j + 1]
        /\ Head(stdout) = stdout[1]
    BY <1>4, ReadOff DEF Reading, SteerInv, TurnInv
  <2>2. Says(stdout, i + 1, "echo", q) /\ i + 1 \in DOMAIN stdout /\ i >= 1
    BY <1>2, <2>1 DEF Says
  <2>3. /\ Silent(q) /\ q \notin dropped
        /\ \A j \in DOMAIN stdout : /\ Says(stdout, j, "echo", q) => j = i + 1
                                    /\ Says(stdout, j, "out", q) => i + 1 < j /\ ~Ending(stdout, i + 1, j)
        /\ running = q => ~Ending(stdout, i + 1, Len(stdout) + 1)
    BY <2>2 DEF SteerInv, EchoOK
  <2>4. ~(HandleOutput /\ stdout[1].by = q)
    BY <1>2, <2>1, <2>2, <2>3 DEF HandleOutput, ReadLoop, Says
  <2>5. Silent(q)'
    BY <2>3, <2>4, Hush DEF SteerInv, TurnInv
  <2>6. q \notin dropped'
    BY <1>2, <1>4, <2>1, <2>2, <2>3
       DEF Reading, HandleReplay, HandleOutput, HandleResult, HandleAck, ReadLoop, Says
  <2>7. \A j \in DOMAIN stdout' : /\ Says(stdout', j, "out", q) => Says(stdout, j + 1, "out", q)
                                  /\ Says(stdout', j, "echo", q) => Says(stdout, j + 1, "echo", q)
                                  /\ j + 1 \in DOMAIN stdout
    BY <1>2, <2>1 DEF Says
  <2>8. \A j \in 1..Len(stdout) : Ending(stdout', i, j) => Ending(stdout, i + 1, j + 1)
    BY <1>2, <2>1 DEF Ending
  <2>9. Ending(stdout', i, Len(stdout') + 1) => Ending(stdout, i + 1, Len(stdout) + 1)
    BY <1>2, <2>1 DEF Ending
  <2> QED
    BY <1>2, <2>1, <2>2, <2>3, <2>5, <2>6, <2>7, <2>8, <2>9
<1>5. CASE ~Harness /\ ~Reading
  <2>1. UNCHANGED <<stdout, dropped>> /\ running' \in {running, None}
    BY <1>5, Elsewhere
  <2>2. /\ Silent(q) /\ q \notin dropped
        /\ \A j \in DOMAIN stdout : /\ Says(stdout, j, "echo", q) => j = i
                                    /\ Says(stdout, j, "out", q) => i < j /\ ~Ending(stdout, i, j)
        /\ running = q => ~Ending(stdout, i, Len(stdout) + 1)
    BY <2>1 DEF SteerInv, EchoOK, Says
  <2>3. Silent(q)'
    BY <1>5, <2>2, Hush DEF Reading, SteerInv, TurnInv
  <2> QED
    BY <1>1, <2>1, <2>2, <2>3 DEF Says, Ending
<1> QED
  BY <1>3, <1>4, <1>5

\* What is left of a steer that was read as discarded is suppressed up to its result.
LEMMA DroppedStep ==
  ASSUME SteerInv, [Next]_vars
  PROVE  DroppedOK'
<1>1. stdout \in Seq(Said) /\ DOMAIN stdout = 1..Len(stdout) /\ Len(stdout) \in Nat
  BY DEF SteerInv, TurnInv, Typing, HarnessTypes
<1>2. \A q \in Steers : q \notin {None, "self"}
  BY SessionConstants
<1>3. ASSUME NEW q \in dropped
      PROVE  /\ q \in Steers /\ Silent(q)
             /\ \A j \in DOMAIN stdout : Says(stdout, j, "out", q) => suppress /\ ~Ending(stdout, 0, j)
             /\ running = q => suppress /\ ~Ending(stdout, 0, Len(stdout) + 1)
  BY DEF SteerInv, DroppedOK
<1>4. CASE Harness
  <2>1. Kept /\ (Echoes \/ Outputs \/ Rests) /\ stdout' \in Seq(Said)
    BY <1>4, Speaks, Written DEF SteerInv, TurnInv
  <2>2. DOMAIN stdout' = 1..Len(stdout') /\ Len(stdout') \in Nat
    BY <2>1
  <2>3. /\ dropped' = dropped /\ suppress' = suppress
        /\ \A q \in Steers : Silent(q)' <=> Silent(q)
    BY <1>4 DEF Harness, Read, SelfStart, Output, Result, Die, Interrupted, harnessElse, historyVars,
       steerVars, Silent
  <2> SUFFICES ASSUME NEW q \in dropped
               PROVE  /\ \A j \in DOMAIN stdout' :
                           Says(stdout', j, "out", q) => suppress /\ ~Ending(stdout', 0, j)
                      /\ running' = q => suppress /\ ~Ending(stdout', 0, Len(stdout') + 1)
    BY <1>3, <2>3 DEF DroppedOK
  <2>4. \A j \in DOMAIN stdout : /\ Says(stdout', j, "out", q) => suppress
                                 /\ Says(stdout', j, "out", q) => ~Ending(stdout', 0, j)
    BY <1>1, <1>3, <2>1, <2>2 DEF Kept, Says, Ending
  <2>5. CASE Echoes
    <3>1. Head(held) # q
      BY <1>3, <2>5, Parts DEF SteerInv, TurnInv, WaitsOK, Waits, Echoes, Typing, HarnessTypes
    <3>2. /\ Len(stdout') = Len(stdout) + 1 /\ stdout'[Len(stdout) + 1].k = "echo"
          /\ running' = q => running = q
      BY <2>5, <3>1 DEF Echoes, Adds
    <3>3. Ending(stdout', 0, Len(stdout') + 1) => Ending(stdout, 0, Len(stdout) + 1)
      BY <1>1, <2>1, <2>2, <3>2 DEF Kept, Ending
    <3>4. \A j \in DOMAIN stdout' : j \in DOMAIN stdout \/ ~Says(stdout', j, "out", q)
      BY <1>1, <2>2, <3>2 DEF Says
    <3> QED
      BY <1>3, <2>4, <3>2, <3>3, <3>4
  <2>6. CASE Outputs
    <3>1. /\ Len(stdout') = Len(stdout) + 1 /\ stdout'[Len(stdout) + 1].k = "out"
          /\ stdout'[Len(stdout) + 1].by = running /\ running' = running
      BY <2>6 DEF Outputs, Adds
    <3>2. Ending(stdout', 0, Len(stdout') + 1) => Ending(stdout, 0, Len(stdout) + 1)
      BY <1>1, <2>1, <2>2, <3>1 DEF Kept, Ending
    <3>3. Ending(stdout', 0, Len(stdout) + 1) => Ending(stdout, 0, Len(stdout) + 1)
      BY <1>1, <2>1, <2>2, <3>1 DEF Kept, Ending
    <3>4. \A j \in DOMAIN stdout' : j \in DOMAIN stdout \/ j = Len(stdout) + 1
      BY <1>1, <2>2, <3>1
    <3> QED
      BY <1>3, <2>4, <3>1, <3>2, <3>3, <3>4 DEF Says
  <2>7. CASE Rests
    <3>1. running' # q
      BY <1>2, <1>3, <2>7 DEF Rests
    <3>2. \A j \in DOMAIN stdout' : j \in DOMAIN stdout \/ stdout'[j].k # "out"
      BY <1>1, <2>2, <2>7 DEF Rests
    <3> QED
      BY <2>4, <3>1, <3>2 DEF Says
  <2> QED
    BY <2>1, <2>5, <2>6, <2>7
<1>5. CASE Reading
  <2>1. /\ Len(stdout) \in Nat \ {0} /\ DOMAIN stdout' = 1..(Len(stdout) - 1) /\ running' = running
        /\ Len(stdout') = Len(stdout) - 1 /\ \A j \in DOMAIN stdout' : stdout'[j] = stdout[j + 1]
        /\ Head(stdout) = stdout[1] /\ stdout[1] \in Said
    BY <1>5, ReadOff DEF Reading, SteerInv, TurnInv
  <2>2. \/ HandleReplay /\ stdout[1].k = "echo"
        \/ HandleOutput /\ stdout[1].k = "out"
        \/ HandleResult /\ stdout[1].k = "result"
        \/ HandleAck /\ stdout[1].k = "ack"
    BY <1>5, <2>1 DEF Reading, HandleReplay, HandleOutput, HandleResult, HandleAck, ReadLoop
  <2>3. CASE dropped' = dropped
    <3> SUFFICES ASSUME NEW q \in dropped
                 PROVE  /\ Silent(q)'
                        /\ \A j \in DOMAIN stdout' :
                             Says(stdout', j, "out", q) => suppress' /\ ~Ending(stdout', 0, j)
                        /\ running' = q => suppress' /\ ~Ending(stdout', 0, Len(stdout') + 1)
      BY <1>3, <2>3 DEF DroppedOK
    <3>1. 1 \in DOMAIN stdout
      BY <1>1, <2>1
    <3>2. ~(HandleOutput /\ ~suppress /\ stdout[1].by = q)
      BY <1>3, <2>1, <3>1 DEF HandleOutput, ReadLoop, Says
    <3>3. Silent(q)'
      BY <1>3, <3>2, Hush DEF SteerInv, TurnInv
    <3>4. ~HandleResult => (suppress => suppress')
      BY <2>2 DEF HandleReplay, HandleOutput, HandleAck, steerVars
    <3>5. ASSUME NEW j \in 2..(Len(stdout) + 1), ~Ending(stdout, 0, j), suppress
          PROVE  suppress' /\ ~Ending(stdout', 0, j - 1)
      <4>1. stdout[1].k # "result"
        BY <3>1, <3>5 DEF Ending
      <4>2. ~Ending(stdout', 0, j - 1)
        BY <1>1, <2>1, <3>5 DEF Ending
      <4>3. ~HandleResult
        BY <2>1, <4>1 DEF HandleResult, ReadLoop
      <4> QED
        BY <3>4, <3>5, <4>2, <4>3
    <3>6. ASSUME NEW j \in DOMAIN stdout', Says(stdout', j, "out", q)
          PROVE  suppress' /\ ~Ending(stdout', 0, j)
      <4>1. j + 1 \in 2..(Len(stdout) + 1) /\ j + 1 \in DOMAIN stdout /\ (j + 1) - 1 = j
        BY <1>1, <2>1
      <4>2. Says(stdout, j + 1, "out", q)
        BY <2>1, <3>6 DEF Says
      <4>3. suppress /\ ~Ending(stdout, 0, j + 1)
        BY <1>3, <4>1, <4>2
      <4> QED
        BY <3>5, <4>1, <4>3
    <3>7. ASSUME running' = q
          PROVE  suppress' /\ ~Ending(stdout', 0, Len(stdout') + 1)
      <4>1. Len(stdout) + 1 \in 2..(Len(stdout) + 1) /\ (Len(stdout) + 1) - 1 = Len(stdout') + 1
        BY <2>1
      <4>2. suppress /\ ~Ending(stdout, 0, Len(stdout) + 1)
        BY <1>3, <2>1, <3>7
      <4> QED
        BY <3>5, <4>1, <4>2
    <3> QED
      BY <3>3, <3>6, <3>7
  <2>4. CASE dropped' # dropped
    <3>1. PICK p \in Steers : /\ HandleReplay /\ stdout[1].by = p /\ stdout[1].k = "echo"
                              /\ dropped' = dropped \cup {p} /\ suppress' = TRUE
      <4>1. HandleReplay /\ stdout[1].k = "echo"
        BY <2>2, <2>4 DEF HandleOutput, HandleResult, HandleAck
      <4>2. stdout[1].by \in Steers
        BY <2>1, <2>4, <4>1 DEF HandleReplay, Said, Inputs
      <4> QED
        BY <2>1, <2>4, <4>1, <4>2 DEF HandleReplay
    <3>2. /\ Silent(p)
          /\ \A j \in DOMAIN stdout : Says(stdout, j, "out", p) => 1 < j /\ ~Ending(stdout, 1, j)
          /\ running = p => ~Ending(stdout, 1, Len(stdout) + 1)
      <4>1. 1 \in DOMAIN stdout /\ Says(stdout, 1, "echo", p)
        BY <1>1, <2>1, <3>1 DEF Says
      <4> QED
        BY <4>1 DEF SteerInv, EchoOK
    <3>3. ASSUME NEW q \in dropped'
          PROVE  /\ q \in Steers /\ Silent(q)
                 /\ \A j \in DOMAIN stdout : Says(stdout, j, "out", q) => ~Ending(stdout, 1, j)
                 /\ running = q => ~Ending(stdout, 1, Len(stdout) + 1)
      <4>1. CASE q = p
        BY <3>2, <4>1
      <4>2. CASE q \in dropped
        <5>1. \A j : Ending(stdout, 1, j) => Ending(stdout, 0, j)
          BY <1>1 DEF Ending
        <5> QED
          BY <1>3, <4>2, <5>1
      <4> QED
        BY <3>1, <4>1, <4>2
    <3>4. \A j \in 1..Len(stdout) : Ending(stdout', 0, j) => Ending(stdout, 1, j + 1)
      BY <1>1, <2>1 DEF Ending
    <3> SUFFICES ASSUME NEW q \in dropped'
                 PROVE  /\ q \in Steers /\ Silent(q)'
                        /\ \A j \in DOMAIN stdout' : Says(stdout', j, "out", q) => ~Ending(stdout', 0, j)
                        /\ running' = q => ~Ending(stdout', 0, Len(stdout') + 1)
      BY <3>1 DEF DroppedOK
    <3>5. Silent(q)'
      <4>1. ~HandleOutput
        BY <2>1, <3>1 DEF HandleOutput, ReadLoop
      <4> QED
        BY <3>3, <4>1, Hush DEF SteerInv, TurnInv
    <3>6. ASSUME NEW j \in DOMAIN stdout', Says(stdout', j, "out", q)
          PROVE  ~Ending(stdout', 0, j)
      <4>1. j + 1 \in DOMAIN stdout /\ j \in 1..Len(stdout)
        BY <1>1, <2>1
      <4>2. Says(stdout, j + 1, "out", q)
        BY <2>1, <3>6 DEF Says
      <4> QED
        BY <3>3, <3>4, <4>1, <4>2
    <3>7. running' = q => ~Ending(stdout', 0, Len(stdout') + 1)
      <4>1. Len(stdout') + 1 = Len(stdout) /\ Len(stdout) \in 1..Len(stdout)
        BY <2>1
      <4> QED
        BY <2>1, <3>3, <3>4, <4>1
    <3> QED
      BY <3>3, <3>5, <3>6, <3>7
  <2> QED
    BY <2>3, <2>4
<1>6. CASE ~Harness /\ ~Reading
  <2>1. UNCHANGED <<stdout, dropped, suppress>> /\ running' \in {running, None}
    BY <1>6, Elsewhere
  <2>2. \A q \in dropped : Silent(q)'
    BY <1>3, <1>6, Hush DEF Reading, SteerInv, TurnInv
  <2> QED
    BY <1>2, <1>3, <2>1, <2>2 DEF DroppedOK, Says, Ending
<1> QED
  BY <1>4, <1>5, <1>6

\* What the harness makes of a steer that was discarded before it was read is not shown:
\* from the reading of the steer to the result that follows its output is suppressed
\* (claude.go Cancel, handleReplay, handleResult).
THEOREM WhatIsDiscardedStaysOut == Spec => []DiscardedStaysOut
<1>1. Init => SteerInv
  <2> SUFFICES ASSUME Init PROVE SteerInv
    OBVIOUS
  <2>1. DOMAIN held = {} /\ DOMAIN stdout = {} /\ DOMAIN outbox = {}
    BY EmptySeq DEF Init
  <2>2. \A q \in Steers : running # q
    BY SessionConstants DEF Init
  <2>3. HeldOK /\ WaitsOK
    BY <2>1, <2>2 DEF Init, HeldOK, WaitsOK, Silent
  <2>4. EchoOK /\ DroppedOK
    BY <2>1 DEF Init, EchoOK, DroppedOK
  <2> QED
    BY TurnInvInit, <2>3, <2>4 DEF SteerInv
<1>2. SteerInv /\ [Next]_vars => SteerInv'
  <2> SUFFICES ASSUME SteerInv, [Next]_vars PROVE SteerInv'
    OBVIOUS
  <2>1. TurnInv'
    BY TurnInvStep DEF SteerInv
  <2> QED
    BY <2>1, HeldStep, WaitsStep, EchoStep, DroppedStep DEF SteerInv, TurnInv
<1>3. SteerInv => DiscardedStaysOut
  BY DEF SteerInv, DroppedOK, Silent, DiscardedStaysOut
<1> QED
  BY <1>1, <1>2, <1>3, PTL DEF Spec

=============================================================================
