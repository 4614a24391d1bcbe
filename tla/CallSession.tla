----------------------------- MODULE CallSession -----------------------------
(***************************************************************************)
(* One session of the Codex adapter (internal/adapter/codexapp) or of the   *)
(* Pi adapter (internal/adapter/piapp).  Both ask their harness by calls    *)
(* whose reply comes back on the stream that carries its events, so the     *)
(* actor, waiting in Prompt, Steer, Cancel or a composer action, and the    *)
(* read loop run against each other; and both harnesses start turns that    *)
(* nobody asked for.  Codex names its turns, and a session has to match     *)
(* those names with its own; Pi does not.                                   *)
(*                                                                         *)
(* The harness is external.  Codex takes a prompt sent while a turn runs    *)
(* into that turn, runs subagents that may outlive the turn that spawned    *)
(* them, and may complete a turn twice or finish an item after its turn.    *)
(* Pi refuses a prompt while it runs.  Usage, settings, permissions,        *)
(* compaction notices and the text of a message are left out.               *)
(***************************************************************************)
EXTENDS Naturals, Sequences, FiniteSets

CONSTANTS Kinds,       \* which adapters: a subset of {"codex", "pi"}
          Prompts,     \* the turns the actor prompts
          Actions,     \* the turns it opens with a composer action
          Steers,      \* the prompts it steers
          None,
          Menus,       \* what the actor may ask in one behaviour
          Room,        \* events the channel and the inbox hold together
          MaxExtras,   \* bound on output, turns nobody asked for and strays
          MaxCancels   \* bound on cancels

ASSUME CallConstants ==
  /\ Kinds \subseteq {"codex", "pi"} /\ Room \in Nat \ {0}
  /\ None \notin Prompts \cup Actions \cup Steers
  /\ Prompts \cap Actions = {} /\ Steers \cap (Prompts \cup Actions) = {}
  /\ \A m \in Menus : m \subseteq Prompts \cup Actions \cup Steers
  /\ MaxExtras \in Nat /\ MaxCancels \in Nat
  \* An id is not a number: the turns a session opens itself are numbered.
  /\ \A i \in Prompts \cup Actions \cup Steers \cup {None} : i \notin Nat

VARIABLES
  kind,
  \* the harness; its turns are 1, 2, ...
  alive, running, turns, held, stdin, stdout, home, extras,
  \* the session
  turnID, serverTurnID, interrupting, owner, minted,
  \* its goroutines
  rd,          \* the notification the read loop is at
  outbox,      \* what it has still to emit
  connDone,    \* it has ended
  watcher,     \* watchExit: "wait", "emit", "close", "done"
  lost,        \* the turn watchExit took
  events, eventsClosed, closed,
  \* the actor
  doing, call, calls, answer, busy, used, cancels,
  \* history
  opened,      \* turns prompted or announced
  stream,      \* the finishes the session emitted, in order
  asides       \* the turns the subagent's output went to

harnessVars == <<alive, running, turns, held, stdin, home, extras>>
nameVars    == <<serverTurnID, interrupting>>
turnVars    == <<turnID, nameVars, owner, minted>>
readVars    == <<rd, outbox>>
exitVars    == <<connDone, watcher, lost>>
channelVars == <<events, eventsClosed, closed>>
actorVars   == <<doing, call, calls, answer, busy, used, cancels>>
historyVars == <<opened, stream, asides>>
sessionVars == <<kind, harnessVars, stdout, turnVars, readVars, exitVars,
                 channelVars, actorVars, historyVars>>

Inputs == Prompts \cup Actions \cup Steers
IsTurn(t) == t \in Prompts \cup Actions \/ t \in 1..minted

Message(k, n, by) == [k |-> k, n |-> n, by |-> by]
Reply(n, c)    == [k |-> "reply", n |-> n, by |-> c]
Refusal(c)     == [k |-> "refusal", n |-> 0, by |-> c]
Silent         == [k |-> "none", n |-> 0, by |-> None]
Idle           == [m |-> Silent, turn |-> None, go |-> FALSE]
NoCall         == [what |-> "none", by |-> None, n |-> 0, c |-> 0]

Event(k, t) == [k |-> k, turn |-> t]
Finish(t)   == Event("finished", t)

TypeOK ==
  /\ kind \in {"codex", "pi"} /\ alive \in BOOLEAN
  /\ running \in 0..turns /\ home \in 0..turns /\ held \in Seq(Inputs)
  /\ turnID = None \/ IsTurn(turnID)
  /\ serverTurnID \in 0..turns /\ interrupting \in BOOLEAN
  /\ owner = None \/ IsTurn(owner)
  /\ kind = "pi" => serverTurnID = 0 /\ ~interrupting /\ owner = None
  /\ Len(events) <= Room /\ watcher \in {"wait", "emit", "close", "done"}
  /\ doing \in {"loop", "calling", "gone"} /\ (busy = None \/ IsTurn(busy))
  /\ \A t \in opened : IsTurn(t)

SessionInit ==
  /\ kind \in Kinds
  /\ alive = TRUE /\ running = 0 /\ turns = 0 /\ held = <<>> /\ home = 0
  /\ stdin = <<>> /\ stdout = <<>> /\ extras = 0
  /\ turnID = None /\ serverTurnID = 0 /\ interrupting = FALSE
  /\ owner = None /\ minted = 0
  /\ rd = Idle /\ outbox = <<>>
  /\ connDone = FALSE /\ watcher = "wait" /\ lost = None
  /\ events = <<>> /\ eventsClosed = FALSE /\ closed = FALSE
  /\ doing = "loop" /\ call = NoCall /\ calls = 0 /\ answer = Silent
  /\ busy = None /\ cancels = 0 /\ used \in {Inputs \ m : m \in Menus}
  /\ opened = {} /\ stream = <<>> /\ asides = {}

-----------------------------------------------------------------------------
(* The harness.                                                             *)

harnessElse == <<kind, turnVars, readVars, exitVars, channelVars, actorVars,
                 historyVars>>

Writes(notes) == stdout' = stdout \o notes
NewTurn == turns' = turns + 1 /\ running' = turns'

Extra == extras < MaxExtras /\ extras' = extras + 1

\* A prompt or an action: it starts a turn, joins the running one, or is
\* refused.  The reply to an action does not name the turn.
StartsTurn ==
  /\ alive /\ stdin # <<>> /\ Head(stdin).k \in {"prompt", "action"}
  /\ stdin' = Tail(stdin)
  /\ LET r == Head(stdin) IN
     \/ /\ Writes(<<Refusal(r.n)>>) /\ UNCHANGED <<turns, running, held>>
     \/ /\ running = 0 /\ NewTurn
        /\ held' = IF r.k = "action" THEN <<>> ELSE <<r.by>>
        /\ Writes(<<Reply(IF r.k = "action" THEN 0 ELSE turns', r.n)>>)
     \/ /\ running # 0 /\ kind = "codex" /\ r.k = "prompt"
        /\ held' = Append(held, r.by)
        /\ Writes(<<Reply(running, r.n)>>) /\ UNCHANGED <<turns, running>>
  /\ UNCHANGED <<alive, home, extras, harnessElse>>

\* An interrupt that names the running turn, and Pi's abort, end the turn and
\* drop what it has not read; one that is late is refused or never answered.
Stops ==
  /\ alive /\ stdin # <<>> /\ Head(stdin).k = "stop"
  /\ stdin' = Tail(stdin)
  /\ LET r    == Head(stdin)
         done == Message("done", running, None)
     IN  IF running # 0 /\ (kind = "pi" \/ r.by = running)
         THEN /\ running' = 0 /\ held' = <<>>
              /\ Writes(<<done, Reply(0, r.n)>>) \/ Writes(<<Reply(0, r.n), done>>)
         ELSE /\ UNCHANGED <<running, held>>
              /\ IF kind = "pi" THEN Writes(<<Reply(0, r.n)>>)
                 ELSE Writes(<<Refusal(r.n)>>) \/ UNCHANGED stdout
  /\ UNCHANGED <<alive, turns, home, extras, harnessElse>>

Reads ==
  /\ alive /\ held # <<>>
  /\ held' = Tail(held) /\ Writes(<<Message("read", running, Head(held))>>)
  /\ UNCHANGED <<alive, running, turns, stdin, home, extras,
                 harnessElse>>

SelfStart ==
  /\ alive /\ running = 0 /\ NewTurn /\ Extra
  /\ UNCHANGED <<alive, held, stdin, stdout, home, harnessElse>>

Output ==
  /\ alive /\ running # 0 /\ Extra
  /\ Writes(<<Message("item", running, None)>>)
  /\ UNCHANGED <<alive, running, turns, held, stdin, home,
                 harnessElse>>

Completes ==
  /\ alive /\ running # 0 /\ held = <<>>
  /\ running' = 0 /\ Writes(<<Message("done", running, None)>>)
  /\ UNCHANGED <<alive, turns, held, stdin, home, extras,
                 harnessElse>>

\* An item completes after its turn, or the completion comes again.
Strays ==
  /\ alive /\ kind = "codex" /\ Extra
  /\ \E n \in (1..turns) \ {running}, k \in {"tail", "done"} :
       Writes(<<Message(k, n, None)>>)
  /\ UNCHANGED <<alive, running, turns, held, stdin, home,
                 harnessElse>>

\* The subagent speaks: it was spawned by a turn and knows no end of it.
SubSpeaks ==
  /\ alive /\ kind = "codex" /\ Extra
  /\ IF home = 0 THEN running # 0 /\ home' = running ELSE UNCHANGED home
  /\ Writes(<<Message("sub", 0, None)>>) \/ (home = 0 /\ UNCHANGED stdout)
  /\ UNCHANGED <<alive, running, turns, held, stdin,
                 harnessElse>>

Die ==
  /\ alive
  /\ alive' = FALSE /\ running' = 0 /\ held' = <<>> /\ stdin' = <<>>
  /\ UNCHANGED <<turns, stdout, home, extras, harnessElse>>

-----------------------------------------------------------------------------
(* emit: it waits for room; a closed channel swallows the event, and so may  *)
(* a closed session.                                                        *)

Recorded(e) ==
  /\ opened' = IF e.k = "started" THEN opened \cup {e.turn} ELSE opened
  /\ stream' = IF e.k = "finished" THEN Append(stream, e.turn) ELSE stream
  /\ asides' = IF e.k = "aside" THEN asides \cup {e.turn} ELSE asides

\* Fault: a closed session still waits.
SwallowedLate == eventsClosed
Swallowed == eventsClosed \/ closed

Emit(e) ==
  \/ /\ ~eventsClosed /\ Len(events) < Room
     /\ events' = Append(events, e)
     /\ IF closed THEN UNCHANGED historyVars ELSE Recorded(e)
  \/ Swallowed /\ UNCHANGED <<events, historyVars>>

-----------------------------------------------------------------------------
(* The read loop.                                                           *)

loopElse == <<kind, harnessVars, exitVars, channelVars, actorVars>>

\* A reply goes to the call that waits for it, if it still does.
ReadReply ==
  /\ rd = Idle /\ outbox = <<>> /\ stdout # <<>>
  /\ Head(stdout).k \in {"reply", "refusal"}
  /\ stdout' = Tail(stdout)
  /\ answer' = IF doing = "calling" /\ call.c = Head(stdout).by THEN Head(stdout)
               ELSE answer
  /\ UNCHANGED <<kind, harnessVars, turnVars, readVars, exitVars, channelVars,
                 doing, call, calls, busy, used, cancels, historyVars>>

\* handleNotification reads the open turn first, and may go by it later.
Notice ==
  /\ rd = Idle /\ outbox = <<>> /\ stdout # <<>>
  /\ Head(stdout).k \notin {"reply", "refusal"}
  /\ stdout' = Tail(stdout)
  /\ rd' = [m |-> Head(stdout), turn |-> turnID, go |-> FALSE]
  /\ UNCHANGED <<loopElse, turnVars, outbox, historyVars>>

\* ensureTurn: the open turn, or one that is opened here.
EnsuredTurn == IF turnID # None THEN turnID ELSE minted + 1
Announced   == IF turnID # None THEN <<>> ELSE <<Event("started", minted + 1)>>
Ensures(n) ==
  /\ turnID' = EnsuredTurn
  /\ minted' = IF turnID # None THEN minted ELSE minted + 1
  /\ serverTurnID' = IF turnID = None \/ serverTurnID = 0 THEN n ELSE serverTurnID

\* What an item says: output, or the reading of a steer.  A turn's own prompt
\* is in the log already.
Says(t) ==
  CASE rd.m.k \in {"item", "tail"} -> <<Event("chunk", t)>>
    [] rd.m.k = "read" /\ rd.m.by \in Steers -> <<Event("injected", t)>>
    [] OTHER -> <<>>

\* Codex: an item that starts, or streams, while no turn was open opens one.
CodexItem ==
  /\ kind = "codex" /\ rd.m.k \in {"item", "read"}
  /\ IF rd.turn # None
     THEN outbox' = Says(rd.turn) /\ UNCHANGED <<turnID, minted, serverTurnID>>
     ELSE Ensures(rd.m.n) /\ outbox' = Announced \o Says(EnsuredTurn)
  /\ rd' = Idle
  /\ UNCHANGED <<loopElse, stdout, interrupting, owner, historyVars>>

\* One that completes does not.  Fault: it does.
ReopensAlways == TRUE
Reopens == FALSE
CodexTail ==
  /\ kind = "codex" /\ rd.m.k = "tail"
  /\ IF rd.turn # None
     THEN outbox' = Says(rd.turn) /\ UNCHANGED <<turnID, minted, serverTurnID>>
     ELSE IF Reopens
     THEN Ensures(rd.m.n) /\ outbox' = Announced \o Says(EnsuredTurn)
     ELSE outbox' = <<>> /\ UNCHANGED <<turnID, minted, serverTurnID>>
  /\ rd' = Idle
  /\ UNCHANGED <<loopElse, stdout, interrupting, owner, historyVars>>

\* spawningTurn: the turn that ran when the subagent first spoke, and nowhere
\* once that one has ended.  Fault: whatever runs.
SpawningAny(turn) == turn
Spawning(turn) == IF owner \in {None, turn} THEN turn ELSE None

SubagentOutput ==
  /\ rd.m.k = "sub"
  /\ owner' = IF owner = None THEN rd.turn ELSE owner
  /\ outbox' = IF Spawning(rd.turn) = None THEN <<>>
               ELSE <<Event("aside", Spawning(rd.turn))>>
  /\ rd' = Idle
  /\ UNCHANGED <<loopElse, stdout, turnID, nameVars, minted, historyVars>>

\* turn/completed, in its two locks: a completion of another turn than the one
\* known to run is stale, and what is open when it clears is what it ends.
StaleCompletion ==
  /\ kind = "codex" /\ rd.m.k = "done" /\ ~rd.go
  /\ rd' = IF serverTurnID \notin {0, rd.m.n} THEN Idle ELSE [rd EXCEPT !.go = TRUE]
  /\ UNCHANGED <<loopElse, stdout, turnVars, outbox, historyVars>>

\* Fault: the turn is left set.
LeftOpen == turnID
AfterEnd == None

Ends ==
  /\ turnID' = AfterEnd /\ serverTurnID' = 0 /\ interrupting' = FALSE
  /\ outbox' = IF turnID = None THEN <<>> ELSE <<Finish(turnID)>>
  /\ rd' = Idle

Completion ==
  /\ kind = "codex" /\ rd.m.k = "done" /\ rd.go /\ Ends
  /\ UNCHANGED <<loopElse, stdout, owner, minted, historyVars>>

\* Pi: every event of a run ensures a turn, and agent_settled ends it.
PiEvent ==
  /\ kind = "pi" /\ rd.m.k \in {"item", "read"}
  /\ Ensures(0) /\ outbox' = Announced \o Says(EnsuredTurn)
  /\ rd' = Idle
  /\ UNCHANGED <<loopElse, stdout, interrupting, owner, historyVars>>

PiSettled ==
  /\ kind = "pi" /\ rd.m.k = "done" /\ Ends
  /\ UNCHANGED <<loopElse, stdout, owner, minted, historyVars>>

LoopEmits ==
  /\ outbox # <<>>
  /\ Emit(Head(outbox))
  /\ outbox' = Tail(outbox)
  /\ UNCHANGED <<kind, harnessVars, stdout, turnVars, rd, exitVars, eventsClosed,
                 closed, actorVars>>

LoopEnds ==
  /\ ~alive /\ stdout = <<>> /\ rd = Idle /\ outbox = <<>> /\ ~connDone
  /\ connDone' = TRUE
  /\ UNCHANGED <<kind, harnessVars, stdout, turnVars, readVars, watcher, lost,
                 channelVars, actorVars, historyVars>>

-----------------------------------------------------------------------------
(* watchExit.                                                               *)

WatchTakes ==
  /\ connDone /\ watcher = "wait"
  /\ lost' = turnID /\ turnID' = None /\ serverTurnID' = 0 /\ interrupting' = FALSE
  /\ watcher' = IF turnID # None THEN "emit" ELSE "close"
  /\ UNCHANGED <<kind, harnessVars, stdout, owner, minted, readVars, connDone,
                 channelVars, actorVars, historyVars>>

WatchEmits ==
  /\ watcher = "emit"
  /\ Emit(Finish(lost))
  /\ watcher' = "close"
  /\ UNCHANGED <<kind, harnessVars, stdout, turnVars, readVars, connDone, lost,
                 eventsClosed, closed, actorVars>>

WatchCloses ==
  /\ watcher = "close"
  /\ watcher' = "done" /\ eventsClosed' = TRUE
  /\ UNCHANGED <<kind, harnessVars, stdout, turnVars, readVars, connDone, lost,
                 events, closed, actorVars, historyVars>>

-----------------------------------------------------------------------------
(* The actor: one call at a time, and events only between calls.            *)

askElse == <<kind, alive, running, turns, held, home, extras,
             stdout, owner, minted, readVars, exitVars, channelVars, stream, asides>>

\* A request is written, or the pipe is broken, which is as good as a refusal.
Calls(what, k, by, n) ==
  /\ doing' = "calling" /\ calls' = calls + 1
  /\ answer' = IF alive THEN Silent ELSE Refusal(calls')
  /\ call' = [what |-> what, by |-> by, n |-> n, c |-> calls']
  /\ stdin' = IF alive THEN Append(stdin, [k |-> k, n |-> calls',
                                           by |-> IF what = "cancel" THEN n ELSE by])
              ELSE stdin

\* Prompt and RunComposerAction: refused by a turn the actor does not know of.
Accepts(t) == turnID = None

BeginTurn(t) ==
  /\ doing = "loop" /\ busy = None /\ t \in (Prompts \cup Actions) \ used
  /\ used' = used \cup {t}
  /\ IF Accepts(t)
     THEN /\ turnID' = t /\ busy' = t /\ opened' = opened \cup {t}
          /\ IF t \in Prompts THEN Calls("begin", "prompt", t, 0)
                              ELSE kind = "codex" /\ Calls("begin", "action", t, 0)
     ELSE UNCHANGED <<turnID, busy, opened, doing, call, calls, answer, stdin>>
  /\ UNCHANGED <<askElse, nameVars, cancels>>

\* Codex only.  What a steer's reply says changes nothing here.
Steer(q) ==
  /\ kind = "codex" /\ doing = "loop" /\ busy # None /\ q \in Steers \ used
  /\ used' = used \cup {q}
  /\ IF turnID # None THEN Calls("steer", "prompt", q, 0)
     ELSE UNCHANGED <<doing, call, calls, answer, stdin>>
  /\ UNCHANGED <<askElse, turnID, nameVars, busy, opened, cancels>>

\* Codex interrupts by name, and one turn once.
CodexCancel ==
  /\ kind = "codex" /\ doing = "loop" /\ busy # None /\ cancels < MaxCancels
  /\ cancels' = cancels + 1
  /\ IF serverTurnID = 0 \/ interrupting
     THEN UNCHANGED <<interrupting, doing, call, calls, answer, stdin>>
     ELSE interrupting' = TRUE /\ Calls("cancel", "stop", None, serverTurnID)
  /\ UNCHANGED <<askElse, turnID, serverTurnID, busy, used, opened>>

PiCancel ==
  /\ kind = "pi" /\ doing = "loop" /\ busy # None /\ cancels < MaxCancels
  /\ cancels' = cancels + 1
  /\ IF turnID = None THEN UNCHANGED <<doing, call, calls, answer, stdin>>
     ELSE Calls("cancel", "stop", None, 0)
  /\ UNCHANGED <<askElse, turnID, nameVars, busy, used, opened>>

returnElse == <<kind, harnessVars, stdout, owner, minted, readVars, exitVars,
                channelVars, calls, used, cancels, historyVars>>
Returns == doing' = "loop" /\ call' = NoCall /\ answer' = Silent

\* The turn is still this one: its name is worth keeping.  Fault: not checked.
NamedAlways(t) == TRUE
Named(t) == turnID = t

Granted ==
  /\ doing = "calling" /\ answer.k = "reply" /\ Returns
  /\ serverTurnID' = IF kind = "codex" /\ call.by \in Prompts /\ Named(call.by)
                     THEN answer.n ELSE serverTurnID
  /\ UNCHANGED <<returnElse, turnID, interrupting, busy>>

\* The turn never started, so nothing will end it; a stop that was refused may
\* be pressed again.  Fault: that one stays coalesced.
RearmsNever == FALSE
Rearms == serverTurnID = call.n
Fails ==
  /\ Returns
  /\ turnID' = IF call.what = "begin" /\ turnID = call.by THEN None ELSE turnID
  /\ busy' = IF call.what = "begin" THEN None ELSE busy
  /\ interrupting' = (interrupting /\ ~(call.what = "cancel" /\ Rearms))
  /\ UNCHANGED <<returnElse, serverTurnID>>

Refused  == doing = "calling" /\ (answer.k = "refusal" \/ connDone) /\ Fails

\* Every call but Prompt has a deadline.
TimesOut == doing = "calling" /\ call.by \notin Prompts /\ Fails

HandleEvent ==
  /\ doing = "loop" /\ events # <<>>
  /\ events' = Tail(events)
  /\ LET e == Head(events)
     IN  busy' = CASE e.k = "started" /\ busy = None -> e.turn
                   [] e.k = "finished" /\ e.turn = busy -> None
                   [] OTHER -> busy
  /\ UNCHANGED <<kind, harnessVars, stdout, turnVars, readVars, exitVars,
                 eventsClosed, closed, doing, call, calls, answer, used, cancels,
                 historyVars>>

HandleExit ==
  /\ doing = "loop" /\ eventsClosed /\ events = <<>>
  /\ doing' = "gone" /\ busy' = None
  /\ UNCHANGED <<kind, harnessVars, stdout, turnVars, readVars, exitVars,
                 channelVars, call, calls, answer, used, cancels, historyVars>>

Close ==
  /\ doing = "loop"
  /\ doing' = "gone" /\ closed' = TRUE /\ busy' = None
  /\ alive' = FALSE /\ running' = 0 /\ held' = <<>> /\ stdin' = <<>>
  /\ UNCHANGED <<kind, turns, stdout, home, extras, turnVars,
                 readVars, exitVars, events, eventsClosed, call, calls, answer,
                 used, cancels, historyVars>>

-----------------------------------------------------------------------------
Serves  == StartsTurn \/ Stops
Harness == Serves \/ Reads \/ SelfStart \/ Output \/ Completes \/ Strays
             \/ SubSpeaks \/ Die
ReadsOn == ReadReply \/ Notice \/ CodexItem \/ CodexTail \/ SubagentOutput
             \/ StaleCompletion \/ Completion \/ PiEvent \/ PiSettled
             \/ LoopEmits \/ LoopEnds
Watch   == WatchTakes \/ WatchEmits \/ WatchCloses
Answers == Granted \/ Refused \/ TimesOut \/ HandleEvent \/ HandleExit
Asks    == (\E t \in Prompts \cup Actions : BeginTurn(t))
             \/ (\E q \in Steers : Steer(q)) \/ CodexCancel \/ PiCancel \/ Close

SessionNext == Harness \/ ReadsOn \/ Watch \/ Answers \/ Asks

SessionSpec == SessionInit /\ [][SessionNext]_sessionVars

\* Goroutines that can go on do, and deadlines pass.  Nothing is assumed of the
\* harness or of what is asked.
FairSessions ==
  /\ SessionSpec
  /\ WF_sessionVars(ReadsOn) /\ WF_sessionVars(Watch) /\ WF_sessionVars(Answers)

\* A harness that answers whatever it is asked.
ServedSpec == FairSessions /\ WF_sessionVars(Serves)

-----------------------------------------------------------------------------
(* Properties.                                                              *)

\* The read loop, a call that fails and the exit watcher may all be about to
\* end one turn: the session ends it once, and only what was opened.
Stream == INSTANCE TurnStream WITH ends <- stream
TurnsPaired == Stream!Spec

\* A session whose harness is at rest, with nothing on its way, has no turn
\* open: else its thread would be working, and every prompt refused, for ever.
AtRest ==
  /\ alive /\ running = 0 /\ stdin = <<>> /\ stdout = <<>>
  /\ rd = Idle /\ outbox = <<>> /\ doing = "loop"
NoTurnStuck == AtRest => turnID = None

\* All a subagent says is told in one turn, however long it outlives it.
SubagentStays ==
  \A s, t \in asides : s = t

\* A stop that is coalesced has one before it that will be answered, by the
\* reply to its call or by the completion of its turn.
StopStaysArmed ==
  interrupting =>
    \/ ~alive \/ (doing = "calling" /\ call.what = "cancel")
    \/ \E i \in DOMAIN stdout : stdout[i] = Message("done", serverTurnID, None)
    \/ rd.m = Message("done", serverTurnID, None)

\* A session whose process is gone, or that is closed, closes its channel.  Only
\* a prompt that waits for its reply is in the way.
TornDown == ~alive ~> eventsClosed \/ (doing = "calling" /\ call.by \in Prompts)

\* actor.go (cmdCancel): calls of the harness are bounded, since one it never
\* settles "must not wedge every later command for this thread".  Refuted for
\* Prompt: the channel fills up, the read loop waits for room and the reply
\* behind it is not read, while the actor that would make room waits for it.
CallReturns == doing = "calling" ~> doing # "calling"

\* codex.go (turn/completed): a completion of another turn must not "close a
\* turn that is still working".  Refuted: until the reply to turn/start has been
\* taken no name is known, and any completion closes the turn.
EndsItsOwn ==
  [][Completion \/ PiSettled => \A i \in DOMAIN stdin : stdin[i].by # turnID]_sessionVars

\* codex.go (spawningTurn): a subagent that outlives its turn "must not spill
\* into whatever turn is running now".  Refuted for one that is first heard
\* after it.
SubagentAtHome ==
  [][owner' # owner =>
       home = running
       \/ \E i \in DOMAIN stdout : stdout[i] = Message("done", home, None)]_sessionVars

\* codex.go (Cancel): the stop button "silently did nothing before".  Refuted
\* for a composer action, whose turn has no name: stop still does nothing.
StopIsHeard ==
  [][cancels' > cancels /\ turnID # None /\ running # 0 =>
       stdin' # stdin \/ interrupting]_sessionVars
=============================================================================
