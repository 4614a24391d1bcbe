--------------------------- MODULE ClaudeSession ---------------------------
(***************************************************************************)
(* One session of the Claude Code adapter: the turn it believes is open,   *)
(* the steers the harness has not read, and the four goroutines that share *)
(* them: the connection's read loop, the exit watcher, the thread's actor   *)
(* calling Prompt, Steer, Cancel and Close, and the interrupt of a          *)
(* discarded steer.                                                        *)
(*                                                                         *)
(* internal/adapter/claudecode/claude.go (session), internal/jsonrpc        *)
(* (Conn), internal/thread/actor.go (pump, and what decides when the actor  *)
(* calls).  The bridge and Claude Code behind it are external: they hold    *)
(* prompts, read one when idle or at the next model call of a running turn, *)
(* and may or may not write a result for a turn that was interrupted.       *)
(*                                                                         *)
(* Usage, settings, jobs and permissions leave by the same channel and are  *)
(* left out; so is the text of a message.                                   *)
(***************************************************************************)
EXTENDS Naturals, Sequences, FiniteSets

CONSTANTS Prompts,     \* ids of the turns the actor prompts
          Steers,      \* queue ids of the prompts it steers
          None,
          Room,        \* events the channel and the inbox hold together
          MaxOuts,     \* bound on messages the harness writes
          MaxSelf,     \* bound on turns the harness starts by itself
          MaxCancels   \* bound on cancels

ASSUME SessionConstants ==
  /\ Prompts \cap Steers = {} /\ None \notin Prompts \cup Steers
  /\ \A i \in Prompts \cup Steers \cup {None} : i \notin Nat /\ i # "self"
  /\ Room \in Nat \ {0}
  /\ MaxOuts \in Nat /\ MaxSelf \in Nat /\ MaxCancels \in Nat

VARIABLES
  \* the harness
  alive, held, running, interrupts, stdout,
  \* the session
  turnID, sawResult, steers, suppress, minted,
  \* its goroutines
  outbox,      \* what the read loop has still to emit
  connDone,    \* the read loop has ended
  watcher,     \* watchExit: "wait", "emit", "close", "done"
  lost,        \* the turn watchExit took
  events, eventsClosed, closed,
  \* the actor
  pc, arg, acked, busy, used,
  \* bounds and history
  outs, selfs, cancels,
  opened,      \* turns prompted or announced
  stream,      \* the finishes that were emitted, in order
  shown,       \* the inputs whose output was emitted
  dropped,     \* the steers found discarded when they were read
  closedBy     \* per result that ended a turn, <<what ran, the turn>>

harnessVars == <<alive, held, running, interrupts, stdout, outs, selfs>>
turnVars    == <<turnID, sawResult>>
steerVars   == <<steers, suppress>>
exitVars    == <<connDone, watcher, lost>>
channelVars == <<events, eventsClosed, closed>>
actorVars   == <<pc, arg, acked, busy, used, cancels>>
historyVars == <<opened, stream, shown, dropped, closedBy>>
vars == <<harnessVars, turnVars, steerVars, minted, outbox, exitVars,
          channelVars, actorVars, historyVars>>

Inputs == Prompts \cup Steers
IsTurn(t) == t \in Prompts \/ t \in 1..minted
Finish(t) == [k |-> "finished", turn |-> t, by |-> None]
Started(t) == [k |-> "started", turn |-> t, by |-> None]
Chunk(t, i) == [k |-> "chunk", turn |-> t, by |-> i]
Injected(t, q) == [k |-> "injected", turn |-> t, by |-> q]
Emissions ==
  [k : {"finished", "started", "chunk", "injected"},
   turn : Prompts \cup 1..minted, by : Inputs \cup {None, "self"}]
Frames ==
  [k : {"echo", "out", "result"}, by : Inputs \cup {"self"}]
    \cup [k : {"ack"}, by : Steers \cup 1..MaxCancels]

TypeOK ==
  /\ alive \in BOOLEAN /\ held \in Seq(Inputs)
  /\ running \in Inputs \cup {None, "self"}
  /\ interrupts \subseteq Steers \cup 1..MaxCancels
  /\ stdout \in Seq(Frames)
  /\ turnID = None \/ IsTurn(turnID)
  /\ sawResult \in BOOLEAN /\ suppress \in BOOLEAN /\ minted \in Nat
  /\ \A q \in Steers : steers[q] \in {"none", "sent", "discarded"}
  /\ outbox \in Seq(Emissions) /\ events \in Seq(Emissions)
  /\ connDone \in BOOLEAN /\ eventsClosed \in BOOLEAN /\ closed \in BOOLEAN
  /\ watcher \in {"wait", "emit", "close", "done"}
  /\ lost = None \/ IsTurn(lost)
  /\ pc \in {"loop", "prompting", "writing", "steering", "waiting",
             "taking", "finishing", "gone"}
  /\ arg = None \/ arg \in Inputs \/ IsTurn(arg)
  /\ acked \in BOOLEAN /\ (busy = None \/ IsTurn(busy))
  /\ used \subseteq Inputs
  /\ Len(events) <= Room
  /\ outs \in Nat /\ selfs \in Nat /\ cancels \in Nat
  /\ \A t \in opened : IsTurn(t)
  /\ \A i \in DOMAIN stream : IsTurn(stream[i])

Init ==
  /\ alive = TRUE /\ held = <<>> /\ running = None
  /\ interrupts = {} /\ stdout = <<>>
  /\ turnID = None /\ sawResult = FALSE
  /\ steers = [q \in Steers |-> "none"] /\ suppress = FALSE /\ minted = 0
  /\ outbox = <<>> /\ connDone = FALSE /\ watcher = "wait" /\ lost = None
  /\ events = <<>> /\ eventsClosed = FALSE /\ closed = FALSE
  /\ pc = "loop" /\ arg = None /\ acked = FALSE /\ busy = None /\ used = {}
  /\ outs = 0 /\ selfs = 0 /\ cancels = 0
  /\ opened = {} /\ stream = <<>> /\ shown = {}
  /\ dropped = {} /\ closedBy = {}

-----------------------------------------------------------------------------
(* The harness.                                                             *)

harnessElse == <<turnVars, steerVars, minted, outbox, exitVars, channelVars,
                 actorVars, historyVars>>

Writes(frames) == stdout' = stdout \o frames

\* A prompt it holds is read: it starts a turn, or joins the running one.
Read ==
  /\ alive /\ held # <<>>
  /\ held' = Tail(held)
  /\ running' = IF running = None THEN Head(held) ELSE running
  /\ Writes(<<[k |-> "echo", by |-> Head(held)]>>)
  /\ UNCHANGED <<alive, interrupts, outs, selfs, harnessElse>>

SelfStart ==
  /\ alive /\ running = None /\ selfs < MaxSelf
  /\ running' = "self" /\ selfs' = selfs + 1
  /\ UNCHANGED <<alive, held, interrupts, stdout, outs, harnessElse>>

Output ==
  /\ alive /\ running # None /\ outs < MaxOuts
  /\ outs' = outs + 1
  /\ Writes(<<[k |-> "out", by |-> running]>>)
  /\ UNCHANGED <<alive, held, running, interrupts, selfs, harnessElse>>

Result ==
  /\ alive /\ running # None
  /\ running' = None
  /\ Writes(<<[k |-> "result", by |-> running]>>)
  /\ UNCHANGED <<alive, held, interrupts, outs, selfs, harnessElse>>

\* An interrupted turn ends with a result before or after the reply, or none.
Interrupted(who) ==
  /\ alive /\ who \in interrupts
  /\ interrupts' = interrupts \ {who}
  /\ running' = None
  /\ LET ack == [k |-> "ack", by |-> who]
         end == [k |-> "result", by |-> running]
     IN  IF running = None THEN Writes(<<ack>>)
         ELSE Writes(<<ack>>) \/ Writes(<<end, ack>>) \/ Writes(<<ack, end>>)
  /\ UNCHANGED <<alive, held, outs, selfs, harnessElse>>

Die ==
  /\ alive
  /\ alive' = FALSE /\ held' = <<>> /\ running' = None /\ interrupts' = {}
  /\ UNCHANGED <<stdout, outs, selfs, harnessElse>>

-----------------------------------------------------------------------------
(* emit: the event waits for room; a closed channel swallows it, and so may  *)
(* a closed session, whose channel nobody reads.                            *)

Recorded(e) ==
  /\ opened' = IF e.k = "started" THEN opened \cup {e.turn} ELSE opened
  /\ stream' = IF e.k = "finished" THEN Append(stream, e.turn) ELSE stream
  /\ shown'  = IF e.k = "chunk" THEN shown \cup {e.by} ELSE shown
  /\ UNCHANGED <<dropped, closedBy>>

HasRoom == Len(events) < Room

\* Fault: a closed session still waits.
SwallowedLate == eventsClosed
Swallowed == eventsClosed \/ closed

Emit(e) ==
  \/ /\ ~eventsClosed /\ HasRoom
     /\ events' = Append(events, e)
     /\ IF closed THEN UNCHANGED historyVars ELSE Recorded(e)
  \/ Swallowed /\ UNCHANGED <<events, historyVars>>

-----------------------------------------------------------------------------
(* The read loop handles one message at a time and emits before the next.   *)

ReadLoop(kind) ==
  /\ stdout # <<>> /\ outbox = <<>> /\ Head(stdout).k = kind
  /\ stdout' = Tail(stdout)
  /\ UNCHANGED <<alive, held, running, outs, selfs, exitVars, channelVars,
                 opened, stream, shown>>

OpensTurn ==
  /\ minted' = minted + 1 /\ turnID' = minted' /\ sawResult' = FALSE

\* handleReplay.  A steer read in a turn joined it; one read in none has
\* started a turn; one that was discarded is interrupted, once.
Discarded(q) == steers[q] = "discarded"

HandleReplay ==
  LET q == Head(stdout).by
  IN  /\ ReadLoop("echo")
      /\ IF q \in Prompts \/ (q \in Steers /\ steers[q] = "none")
         THEN UNCHANGED <<turnVars, steerVars, minted, interrupts, outbox, dropped>>
         ELSE /\ steers' = [steers EXCEPT ![q] = "none"]
              /\ IF Discarded(q)
                 THEN /\ suppress' = TRUE /\ dropped' = dropped \cup {q}
                      /\ interrupts' = IF suppress \/ ~alive THEN interrupts
                                       ELSE interrupts \cup {q}
                      /\ UNCHANGED <<turnVars, minted, outbox>>
                 ELSE /\ UNCHANGED <<suppress, interrupts, dropped>>
                      /\ IF turnID # None
                         THEN /\ outbox' = <<Injected(turnID, q)>>
                              /\ UNCHANGED <<turnVars, minted>>
                         ELSE OpensTurn /\ outbox' = <<Started(minted')>>
      /\ UNCHANGED <<actorVars, closedBy>>

\* handleSDKMessage, handleStreamEvent and ensureTurn: output opens a turn if
\* none is open, and that of a discarded steer is dropped.
\* Fault: only while a turn is open.
SuppressedInTurn == suppress /\ turnID # None
Suppressed == suppress

HandleOutput ==
  LET i == Head(stdout).by
  IN  /\ ReadLoop("out")
      /\ IF Suppressed
         THEN UNCHANGED <<turnVars, minted, outbox>>
         ELSE IF turnID # None
              THEN outbox' = <<Chunk(turnID, i)>> /\ UNCHANGED <<turnVars, minted>>
              ELSE OpensTurn /\ outbox' = <<Started(minted'), Chunk(minted', i)>>
      /\ UNCHANGED <<steerVars, interrupts, actorVars, dropped, closedBy>>

\* handleResult: it ends whatever turn is open.
HandleResult ==
  /\ ReadLoop("result")
  /\ sawResult' = TRUE /\ suppress' = FALSE
  /\ turnID' = None
  /\ IF turnID = None
     THEN UNCHANGED <<outbox, closedBy>>
     ELSE /\ outbox' = <<Finish(turnID)>>
          /\ closedBy' = closedBy \cup {<<Head(stdout).by, turnID>>}
  /\ UNCHANGED <<steers, minted, interrupts, actorVars, dropped>>

\* The reply to a call that is still waited for.
HandleAck ==
  /\ ReadLoop("ack")
  /\ acked' = (acked \/ (pc = "waiting" /\ Head(stdout).by = cancels))
  /\ UNCHANGED <<turnVars, steerVars, minted, interrupts, outbox,
                 pc, arg, busy, used, cancels, dropped, closedBy>>

ReaderEmits ==
  /\ outbox # <<>>
  /\ Emit(Head(outbox))
  /\ outbox' = Tail(outbox)
  /\ UNCHANGED <<harnessVars, turnVars, steerVars, minted, exitVars,
                 eventsClosed, closed, actorVars>>

ReaderEnds ==
  /\ ~alive /\ stdout = <<>> /\ outbox = <<>> /\ ~connDone
  /\ connDone' = TRUE
  /\ UNCHANGED <<harnessVars, turnVars, steerVars, minted, outbox, watcher,
                 lost, channelVars, actorVars, historyVars>>

-----------------------------------------------------------------------------
(* watchExit.                                                               *)

WatchTakes ==
  /\ connDone /\ watcher = "wait"
  /\ turnID' = None
  /\ lost' = turnID
  /\ watcher' = IF turnID # None /\ ~sawResult THEN "emit" ELSE "close"
  /\ UNCHANGED <<harnessVars, sawResult, steerVars, minted, outbox, connDone,
                 channelVars, actorVars, historyVars>>

WatchEmits ==
  /\ watcher = "emit"
  /\ Emit(Finish(lost))
  /\ watcher' = "close"
  /\ UNCHANGED <<harnessVars, turnVars, steerVars, minted, outbox, connDone,
                 lost, eventsClosed, closed, actorVars>>

WatchCloses ==
  /\ watcher = "close"
  /\ eventsClosed' = TRUE /\ watcher' = "done"
  /\ UNCHANGED <<harnessVars, turnVars, steerVars, minted, outbox, connDone,
                 lost, events, closed, actorVars, historyVars>>

-----------------------------------------------------------------------------
(* The actor: one call at a time, and events only between calls.            *)

actorElse == <<alive, running, stdout, outs, selfs, minted, outbox, exitVars,
               dropped, closedBy>>

\* startTurn: the turn is logged before the session is asked.
StartTurn(t) ==
  /\ pc = "loop" /\ busy = None /\ t \notin used
  /\ used' = used \cup {t} /\ busy' = t /\ arg' = t /\ pc' = "prompting"
  /\ UNCHANGED <<harnessVars, turnVars, steerVars, minted, outbox, exitVars,
                 channelVars, acked, cancels, historyVars>>

\* Prompt: refused by a dead bridge, and by a turn the actor does not know of.
\* Fault: that turn is overwritten.
AcceptsAny(t) == ~connDone
Accepts(t) == ~connDone /\ turnID \in {None, t}

PromptLocks ==
  /\ pc = "prompting"
  /\ IF Accepts(arg)
     THEN /\ turnID' = arg /\ sawResult' = FALSE
          /\ opened' = opened \cup {arg}
          /\ pc' = "writing" /\ UNCHANGED busy
     ELSE /\ pc' = "loop" /\ busy' = None
          /\ UNCHANGED <<turnVars, opened>>
  /\ UNCHANGED <<held, interrupts, steerVars, channelVars, arg, acked, used,
                 cancels, stream, shown, actorElse>>

\* The frame is written, or the pipe is broken: the actor ends the turn, and
\* the session still holds it.
PromptWrites ==
  /\ pc = "writing"
  /\ pc' = "loop"
  /\ held' = IF alive THEN Append(held, arg) ELSE held
  /\ busy' = IF alive THEN busy ELSE None
  /\ UNCHANGED <<interrupts, turnVars, steerVars, channelVars, arg, acked,
                 used, cancels, opened, stream, shown, actorElse>>

SteerLocks(q) ==
  /\ pc = "loop" /\ busy # None /\ q \notin used /\ ~connDone
  /\ used' = used \cup {q} /\ arg' = q /\ pc' = "steering"
  /\ steers' = [steers EXCEPT ![q] = "sent"]
  /\ UNCHANGED <<harnessVars, turnVars, suppress, minted, outbox, exitVars,
                 channelVars, acked, busy, cancels, historyVars>>

SteerWrites ==
  /\ pc = "steering"
  /\ pc' = "loop"
  /\ IF alive THEN held' = Append(held, arg) /\ UNCHANGED steers
              ELSE steers' = [steers EXCEPT ![arg] = "none"] /\ UNCHANGED held
  /\ UNCHANGED <<interrupts, turnVars, suppress, channelVars, arg, acked,
                 busy, used, cancels, opened, stream, shown, actorElse>>

\* Cancel, up to its call.  A session with no turn open interrupts nothing.
Cancel ==
  /\ pc = "loop" /\ busy # None /\ cancels < MaxCancels
  /\ cancels' = cancels + 1 /\ acked' = FALSE
  /\ steers' = [q \in Steers |-> IF steers[q] = "none" THEN "none" ELSE "discarded"]
  /\ IF turnID = None \/ ~alive
     THEN UNCHANGED <<pc, arg, interrupts>>
     ELSE /\ arg' = turnID /\ pc' = "waiting"
          /\ interrupts' = interrupts \cup {cancels'}
  /\ UNCHANGED <<held, turnVars, suppress, channelVars, busy, used, opened,
                 stream, shown, actorElse>>

Acknowledged ==
  /\ pc = "waiting" /\ acked
  /\ pc' = "taking"
  /\ UNCHANGED <<harnessVars, turnVars, steerVars, minted, outbox, exitVars,
                 channelVars, arg, acked, busy, used, cancels, historyVars>>

\* The call is out of time, or its connection ended.
GivesUp ==
  /\ pc = "waiting"
  /\ pc' = "loop"
  /\ UNCHANGED <<harnessVars, turnVars, steerVars, minted, outbox, exitVars,
                 channelVars, arg, acked, busy, used, cancels, historyVars>>

\* The turn is taken unless its result was first.  Fault: it is not checked.
StillOpenAlways(t) == TRUE
StillOpen(t) == turnID = t

CancelTakes ==
  /\ pc = "taking"
  /\ IF StillOpen(arg)
     THEN turnID' = None /\ sawResult' = TRUE /\ pc' = "finishing"
     ELSE pc' = "loop" /\ UNCHANGED turnVars
  /\ UNCHANGED <<harnessVars, steerVars, minted, outbox, exitVars, channelVars,
                 arg, acked, busy, used, cancels, historyVars>>

CancelEmits ==
  /\ pc = "finishing"
  /\ Emit(Finish(arg))
  /\ pc' = "loop"
  /\ UNCHANGED <<harnessVars, turnVars, steerVars, minted, outbox, exitVars,
                 eventsClosed, closed, arg, acked, busy, used, cancels>>

\* pump and cmdHarnessEvent, as far as the busy guard.
HandleEvent ==
  /\ pc = "loop" /\ events # <<>>
  /\ events' = Tail(events)
  /\ LET e == Head(events)
     IN  busy' = CASE e.k = "started" -> e.turn
                   [] e.k = "finished" /\ e.turn = busy -> None
                   [] OTHER -> busy
  /\ UNCHANGED <<harnessVars, turnVars, steerVars, minted, outbox, exitVars,
                 eventsClosed, closed, pc, arg, acked, used, cancels, historyVars>>

\* cmdHarnessExit; and cmdClose, which kills the process and stops the pump.
HandleExit ==
  /\ pc = "loop" /\ eventsClosed /\ events = <<>>
  /\ pc' = "gone" /\ busy' = None
  /\ UNCHANGED <<harnessVars, turnVars, steerVars, minted, outbox, exitVars,
                 channelVars, arg, acked, used, cancels, historyVars>>

Close ==
  /\ pc = "loop"
  /\ pc' = "gone" /\ closed' = TRUE /\ busy' = None
  /\ alive' = FALSE /\ held' = <<>> /\ running' = None /\ interrupts' = {}
  /\ UNCHANGED <<stdout, outs, selfs, turnVars, steerVars, minted, outbox,
                 exitVars, events, eventsClosed, arg, acked, used, cancels,
                 historyVars>>

-----------------------------------------------------------------------------
Harness == Read \/ SelfStart \/ Output \/ Result \/ Die
             \/ \E who \in Steers \cup 1..MaxCancels : Interrupted(who)
ReadsOn == HandleReplay \/ HandleOutput \/ HandleResult \/ HandleAck
             \/ ReaderEmits \/ ReaderEnds
Watch   == WatchTakes \/ WatchEmits \/ WatchCloses
Calls   == PromptLocks \/ PromptWrites \/ SteerWrites \/ Acknowledged \/ GivesUp
             \/ CancelTakes \/ CancelEmits \/ HandleEvent \/ HandleExit
Asks    == (\E t \in Prompts : StartTurn(t)) \/ (\E q \in Steers : SteerLocks(q))
             \/ Cancel \/ Close

Next == Harness \/ ReadsOn \/ Watch \/ Calls \/ Asks

Spec == Init /\ [][Next]_vars

\* Goroutines that can go on do, and a call that waits is answered or times
\* out.  Nothing is assumed of the harness or of what is asked.
FairSpec == Spec /\ WF_vars(ReadsOn) /\ WF_vars(Watch) /\ WF_vars(Calls)

-----------------------------------------------------------------------------
(* Properties.                                                              *)

ended == {stream[i] : i \in DOMAIN stream}

\* The read loop, a cancel and the exit watcher may all be about to end one
\* turn: it is ended once, and not before it was prompted or announced.
Stream == INSTANCE TurnStream WITH ends <- stream
TurnsPaired == Stream!Spec

\* A turn the session took on is ended: until then it is the session's, or
\* somebody holds its end and is about to emit it, or the channel is closed.
EndInHand(t) ==
  \/ turnID = t
  \/ \E i \in DOMAIN outbox : outbox[i] = Finish(t)
  \/ pc = "finishing" /\ arg = t
  \/ watcher = "emit" /\ lost = t
NoTurnAbandoned ==
  \A t \in opened : t \in ended \/ EndInHand(t) \/ eventsClosed \/ closed

\* What the harness makes of a steer that was discarded before it was read
\* never reaches the log.
DiscardedStaysOut == shown \cap dropped = {}

\* A session whose process is gone, or that is closed, closes its channel, even
\* when the channel is full, or the actor waits for a reply that will not come
\* or has stopped reading.  Only a cancel that cannot emit is in the way.
TornDown == ~alive ~> eventsClosed \/ pc = "finishing"

\* actor.go (cmdCancel): a call of the harness is bounded, since one it never
\* settles "must not wedge every later command for this thread".
CancelReturns == pc = "waiting" ~> pc \in {"loop", "gone"}

\* steer_test.go: the result of the turn run from a discarded steer "lifts the
\* suppression without finishing a turn".
ResultEndsItsOwn ==
  \A c \in closedBy : c[2] \in Prompts => c[1] = c[2]
=============================================================================
