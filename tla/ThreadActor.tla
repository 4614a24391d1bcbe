---------------------------- MODULE ThreadActor ----------------------------
(***************************************************************************)
(* One thread of the server: its event log (as the projection folds it),   *)
(* the actor that is the log's only writer, the manager's activation and   *)
(* restart recovery, the provisioning runner's last steps, and the session *)
(* of the harness process the actor drives.                                *)
(*                                                                         *)
(* internal/thread/actor.go, recovery.go, manager.go (get, finishGet),     *)
(* lifecycle.go (provision), internal/projection/state.go,                 *)
(* internal/adapter/claudecode/claude.go (Prompt, Steer, Cancel, replay).  *)
(*                                                                         *)
(* A command of the actor loop that writes the log more than once is split *)
(* at each write, since the server may die between two of them: pc says    *)
(* which write comes next, job what it needs.  The thread row is a second  *)
(* transaction, pending in rowdue.                                         *)
(***************************************************************************)
EXTENDS Naturals, Sequences, SequencesExt

CONSTANTS Prompts,      \* what humans send: one member per send_prompt
          NoPrompt,     \* the text of a turn no human prompt opened
          Features,     \* which optional behaviours this instance has
          MaxTurns,     \* bound on the turns of self-starts and continues
          MaxAttempts,  \* maxRecoveryAttempts
          MaxGets,      \* bound on Gets of an interrupted thread in flight
          MaxStops,     \* bound on server stops and crashes
          MaxEvents     \* bound on the session's event channel

AllFeatures == {"steer", "self", "refuse", "die", "cancel", "dequeue",
                "continue", "close", "stop", "crash", "torn", "create"}

ASSUME ConstantsOK ==
  /\ NoPrompt \notin Prompts
  /\ Features \subseteq AllFeatures
  /\ {MaxTurns, MaxAttempts, MaxGets, MaxStops, MaxEvents} \subseteq Nat

VARIABLES
  turns, queue, shown, removed, cancelled, phase, closed,  \* the folded log
  row,                                           \* threads.phase in the store
  up, boot, gets, recs, held, prov, stops,       \* server and manager
  live, turnActive, sess, preparing, recovering, plan, sent, pc, job, rowdue,
  alive, hturn, steers, events, given,           \* harness session
  accepted, born                                 \* history

logVars     == <<turns, queue, shown, removed, cancelled, phase, closed>>
managerVars == <<up, boot, prov, stops>>
recoverVars == <<gets, recs, held, recovering, plan>>
actorVars   == <<live, turnActive, sess, preparing, sent>>
harnessVars == <<alive, hturn, steers, events, given>>
historyVars == <<accepted, born>>
vars == <<logVars, row, managerVars, recoverVars, actorVars, pc, job, rowdue,
          harnessVars, historyVars>>

NoTurn == 0
Causes == {"user", "queue", "continue", "restart", "harness"}
Stops  == {"open", "end", "error", "cancelled"}
Texts  == Prompts \cup {NoPrompt}
Jobs   == [turn : Nat, prompt : Texts, cause : Causes, attempt : Nat, of : Nat]
Turns  == [id : Nat, prompt : Texts, cause : Causes, attempt : Nat, of : Nat,
           stop : Stops]
Kinds  == {"started", "finished", "injected", "chunk"}
Events == [kind : Kinds, turn : Nat, prompt : Texts, stop : Stops]
Plans  == [of : Nat, attempt : Nat]
Phases == {"idle", "turn", "closed", "provisioning", "provision_failed", "ready"}

NoPlan == [of |-> NoTurn, attempt |-> 0]
NoJob  == [turn |-> NoTurn, prompt |-> NoPrompt, cause |-> "user",
           attempt |-> 0, of |-> NoTurn]
Queued == {queue[i] : i \in DOMAIN queue}
StartedPrompts == {turns[i].prompt : i \in DOMAIN turns}

-----------------------------------------------------------------------------
(* The projection's view of turns (state.go Apply, recovery.go).           *)

OpenAt(ts) == {i \in DOMAIN ts : ts[i].stop = "open"}
LastOpen(ts) ==
  IF OpenAt(ts) = {} THEN NoTurn
  ELSE ts[CHOOSE i \in OpenAt(ts) : \A j \in OpenAt(ts) : j <= i].id

\* A finish takes the thread idle only if it is for the newest open turn, or
\* if none is open.
\* Fault: no finish counts while a turn is open.
IsNewestOpenNever(ts, t) == OpenAt(ts) = {}
IsNewestOpen(ts, t) ==
  \A i \in OpenAt(ts) : (\A j \in OpenAt(ts) : j <= i) => ts[i].id = t

\* Fault: the oldest entry goes, whichever was named.
WithoutOldest(s, q) ==
  IF \E i \in DOMAIN s : s[i] = q THEN Tail(s) ELSE s
Without(s, q) ==
  IF \E i \in DOMAIN s : s[i] = q
  THEN RemoveAt(s, CHOOSE i \in DOMAIN s : s[i] = q) ELSE s

PlanRecovery(ts) ==
  IF ts = <<>> \/ closed THEN NoPlan
  ELSE LET last == ts[Len(ts)]
       IN  IF last.stop # "open" \/ last.attempt + 1 > MaxAttempts THEN NoPlan
           ELSE [of |-> last.id, attempt |-> last.attempt + 1]

-----------------------------------------------------------------------------
(* append: the log write, its fold, and the row write it leaves pending.   *)

OwePhase(ph) ==
  /\ phase' = ph
  /\ rowdue' = IF ph # phase THEN ph ELSE "none"

\* Fault: the queue entry the turn names stays.
LogStartedKeepsEntry(t, p, c, a, o) ==
  /\ turns' = Append(turns, [id |-> t, prompt |-> p, cause |-> c,
                             attempt |-> a, of |-> o, stop |-> "open"])
  /\ sent' = sent \ {p}
  /\ turnActive' = IF turnActive = NoTurn THEN t ELSE turnActive
  /\ OwePhase("turn")
  /\ UNCHANGED <<queue, shown, removed, cancelled, closed>>
LogStarted(t, p, c, a, o) ==
  /\ turns' = Append(turns, [id |-> t, prompt |-> p, cause |-> c,
                             attempt |-> a, of |-> o, stop |-> "open"])
  /\ queue' = Without(queue, p)
  /\ sent' = sent \ {p}
  /\ turnActive' = IF turnActive = NoTurn THEN t ELSE turnActive
  /\ OwePhase("turn")
  /\ UNCHANGED <<shown, removed, cancelled, closed>>

\* Only the finish of the active turn releases the busy guard.
\* Fault: none does.
GuardAfterNone(t) == turnActive
GuardAfter(t) == IF turnActive = t THEN NoTurn ELSE turnActive

LogFinished(t, stop) ==
  /\ turns' = [i \in DOMAIN turns |->
                 IF turns[i].id = t THEN [turns[i] EXCEPT !.stop = stop]
                 ELSE turns[i]]
  /\ OwePhase(IF IsNewestOpen(turns, t) THEN "idle" ELSE phase)
  /\ turnActive' = GuardAfter(t)
  /\ UNCHANGED <<queue, shown, removed, cancelled, closed>>

\* Folding the event does nothing once the entry has left the queue.
LogInjected(q) ==
  /\ queue' = Without(queue, q)
  /\ shown' = IF q \in Queued THEN shown \cup {q} ELSE shown
  /\ sent' = sent \ {q}
  /\ UNCHANGED <<turns, removed, cancelled, phase, closed, rowdue, turnActive>>

LogChunk ==
  /\ OwePhase(IF phase = "idle" THEN "turn" ELSE phase)
  /\ UNCHANGED <<turns, queue, shown, removed, cancelled, closed,
                 turnActive, sent>>

\* append's SetPhase, the transaction after the event's.
SyncRow ==
  /\ live
  /\ rowdue # "none"
  /\ row' = rowdue
  /\ rowdue' = "none"
  /\ UNCHANGED <<logVars, managerVars, recoverVars, actorVars, pc, job,
                 harnessVars, historyVars>>

-----------------------------------------------------------------------------
(* The actor loop.  A command is taken when the loop waits on its inbox.   *)

At(step) == live /\ pc = step /\ rowdue = "none"
Waiting  == At("loop")

\* run: dispatchQueued follows every command.  Fault: it does not.
NoDispatch == "loop"
AfterCommand == "tail"

StartTurn(p, c, a, o) ==
  /\ turnActive' = born + 1
  /\ born' = born + 1
  /\ job' = [turn |-> born + 1, prompt |-> p, cause |-> c,
             attempt |-> a, of |-> o]
  /\ pc' = "starting"

\* A turn dispatchQueued started is not followed by another dispatch.
AfterTurn == IF job.cause = "queue" THEN "loop" ELSE AfterCommand

Starting ==
  /\ At("starting")
  /\ LogStarted(job.turn, job.prompt, job.cause, job.attempt, job.of)
  /\ accepted' = accepted \cup ({job.prompt} \ {NoPrompt})
  /\ pc' = "sending"
  /\ UNCHANGED <<row, managerVars, recoverVars, live, sess, preparing, job,
                 harnessVars, born>>

\* session.Prompt: refused by a dead bridge and by a session that is already
\* running a turn of its own.
Sending ==
  /\ At("sending")
  /\ alive /\ hturn = NoTurn
  /\ hturn' = job.turn
  /\ given' = [p \in Prompts |->
                 IF p = job.prompt THEN given[p] + 1 ELSE given[p]]
  /\ pc' = AfterTurn
  /\ job' = NoJob
  /\ UNCHANGED <<logVars, row, managerVars, recoverVars, actorVars, rowdue,
                 alive, steers, events, historyVars>>

Refused ==
  /\ At("sending")
  /\ ~alive \/ hturn # NoTurn \/ "refuse" \in Features
  /\ LogFinished(job.turn, "error")
  /\ pc' = AfterTurn
  /\ job' = NoJob
  /\ UNCHANGED <<row, managerVars, recoverVars, live, sess, preparing, sent,
                 harnessVars, historyVars>>

\* What the harness already holds is its to run.  Fault: it is sent again.
UnsentAll == DOMAIN queue
Unsent == {i \in DOMAIN queue : queue[i] \notin sent}

\* A continuation goes before the queue.  Fault: it does not.
MayDispatchEarly == turnActive = NoTurn /\ sess /\ ~closed
MayDispatch == turnActive = NoTurn /\ sess /\ ~closed /\ ~recovering

Dispatch ==
  /\ At("tail")
  /\ \/ /\ ~MayDispatch \/ Unsent = {}
        /\ pc' = "loop"
        /\ UNCHANGED <<turnActive, born, job>>
     \/ /\ MayDispatch
        /\ \E i \in Unsent :
             /\ \A j \in Unsent : i <= j
             /\ StartTurn(queue[i], "queue", 0, NoTurn)
  /\ UNCHANGED <<logVars, row, managerVars, recoverVars, live, sess, preparing,
                 sent, rowdue, harnessVars, accepted>>

\* send_prompt.  Manager.Get has activated the harness if the row said it may.
Prompt(p) ==
  /\ Waiting /\ ~closed
  /\ p \notin accepted
  /\ sess \/ row \notin {"idle", "turn"}
  /\ \/ /\ turnActive # NoTurn
        /\ IF "steer" \in Features /\ sess /\ alive
           THEN /\ steers' = steers \cup {p}
                /\ sent' = sent \cup {p}
           ELSE UNCHANGED <<steers, sent>>
        /\ pc' = "queueing"
        /\ job' = [NoJob EXCEPT !.prompt = p]
        /\ UNCHANGED <<turnActive, born>>
     \/ /\ turnActive = NoTurn /\ ~sess /\ preparing
        /\ pc' = "queueing"
        /\ job' = [NoJob EXCEPT !.prompt = p]
        /\ UNCHANGED <<turnActive, born, steers, sent>>
     \/ /\ turnActive = NoTurn /\ sess
        /\ StartTurn(p, "user", 0, NoTurn)
        /\ UNCHANGED <<steers, sent>>
  /\ UNCHANGED <<logVars, row, managerVars, recoverVars, live, sess, preparing,
                 rowdue, alive, hturn, events, given, accepted>>

Queueing ==
  /\ At("queueing")
  /\ queue' = Append(queue, job.prompt)
  /\ accepted' = accepted \cup {job.prompt}
  /\ pc' = AfterCommand
  /\ job' = NoJob
  /\ UNCHANGED <<turns, shown, removed, cancelled, phase, closed, row,
                 managerVars, recoverVars, actorVars, rowdue, harnessVars, born>>

\* Fault: a prompt the harness holds can be taken back.
TakeBackSent(q) == q \in Queued
CanTakeBack(q) == q \in Queued /\ q \notin sent

Dequeue(q) ==
  /\ "dequeue" \in Features
  /\ Waiting /\ ~closed
  /\ CanTakeBack(q)
  /\ queue' = Without(queue, q)
  /\ removed' = removed \cup {q}
  /\ pc' = AfterCommand
  /\ UNCHANGED <<turns, shown, cancelled, phase, closed, row, managerVars,
                 recoverVars, actorVars, job, rowdue, harnessVars, historyVars>>

\* session.Cancel closes its own turn.  Fault: it only interrupts.
CancelledSilently == UNCHANGED events
CancelledEvent ==
  events' = Append(events, [kind |-> "finished", turn |-> hturn,
                            prompt |-> NoPrompt, stop |-> "cancelled"])

\* The continuation is taken, whatever becomes of it.
TakePlan == recovering' = FALSE

\* Cancel.  Told first, the session marks every unread steer discarded and
\* closes its turn; then the queue is dropped, one log write per entry.
Cancel ==
  /\ "cancel" \in Features
  /\ Waiting
  /\ \/ /\ turnActive = NoTurn
        /\ job' = NoJob
        /\ UNCHANGED <<recovering, hturn, steers, events>>
     \/ /\ turnActive # NoTurn /\ ~sess
        /\ TakePlan
        /\ job' = [NoJob EXCEPT !.turn = turnActive]
        /\ UNCHANGED <<hturn, steers, events>>
     \/ /\ turnActive # NoTurn /\ sess
        /\ job' = NoJob
        /\ steers' = {}
        /\ IF alive /\ hturn # NoTurn
           THEN hturn' = NoTurn /\ CancelledEvent
           ELSE UNCHANGED <<hturn, events>>
        /\ UNCHANGED recovering
  /\ pc' = "dropping"
  /\ UNCHANGED <<logVars, row, managerVars, gets, recs, held, plan, actorVars,
                 rowdue, alive, given, historyVars>>

\* dropQueue, then the finish a cancel without a harness writes itself.
Dropping ==
  /\ At("dropping")
  /\ \/ /\ queue # <<>>
        /\ queue' = Tail(queue)
        /\ cancelled' = cancelled \cup {Head(queue)}
        /\ sent' = sent \ {Head(queue)}
        /\ UNCHANGED <<turns, phase, rowdue, turnActive, pc, job>>
     \/ /\ queue = <<>>
        /\ sent' = {}
        /\ pc' = AfterCommand
        /\ job' = NoJob
        /\ IF job.turn # NoTurn
           THEN LogFinished(job.turn, "cancelled")
           ELSE UNCHANGED <<logVars, rowdue, turnActive>>
  /\ UNCHANGED <<shown, removed, closed, row, managerVars, recoverVars, live,
                 sess, preparing, harnessVars, historyVars>>

\* Any command that leaves the thread as it is: reads, refusals, settings.
OtherCommand ==
  /\ Waiting
  /\ pc' = AfterCommand
  /\ UNCHANGED <<logVars, row, managerVars, recoverVars, actorVars, job, rowdue,
                 harnessVars, historyVars>>

\* A human continues the last turn, which ended in an error.
Continue ==
  /\ "continue" \in Features
  /\ Waiting /\ ~closed
  /\ born < MaxTurns
  /\ turns # <<>>
  /\ LET last == turns[Len(turns)]
     IN  /\ last.stop = "error"
         /\ TakePlan
         /\ IF turnActive = NoTurn /\ sess
            THEN StartTurn(NoPrompt, "continue", last.attempt + 1, last.id)
            ELSE /\ pc' = AfterCommand
                 /\ UNCHANGED <<turnActive, born, job>>
  /\ UNCHANGED <<logVars, row, managerVars, gets, recs, held, plan, live, sess,
                 preparing, sent, rowdue, harnessVars, accepted>>

HandleEvent ==
  /\ Waiting /\ sess
  /\ events # <<>>
  /\ events' = Tail(events)
  /\ LET e == Head(events)
     IN  \/ /\ e.kind = "started"
            /\ LogStarted(e.turn, e.prompt, "harness", 0, NoTurn)
         \/ /\ e.kind = "finished"
            /\ LogFinished(e.turn, e.stop)
            /\ UNCHANGED sent
         \/ /\ e.kind = "injected"
            /\ LogInjected(e.prompt)
         \/ /\ e.kind = "chunk"
            /\ LogChunk
  /\ pc' = AfterCommand
  /\ UNCHANGED <<row, managerVars, recoverVars, live, sess, preparing, job,
                 alive, hturn, steers, given, historyVars>>

\* The backstop for a process that died with its turn open.
HandleExit ==
  /\ Waiting /\ sess
  /\ ~alive /\ events = <<>>
  /\ IF turnActive # NoTurn
     THEN LogFinished(turnActive, "error")
     ELSE UNCHANGED <<logVars, turnActive, rowdue>>
  /\ sent' = {}
  /\ pc' = "exiting"
  /\ UNCHANGED <<row, managerVars, recoverVars, live, sess, preparing, job,
                 harnessVars, historyVars>>

\* closeLocked, for a thread outside any project: it is never provisioned.
CloseThread ==
  /\ "close" \in Features /\ "create" \notin Features
  /\ Waiting /\ ~closed
  /\ closed' = TRUE
  /\ OwePhase("closed")
  /\ pc' = "exiting"
  /\ UNCHANGED <<turns, queue, shown, removed, cancelled, row, managerVars,
                 recoverVars, actorVars, job, harnessVars, historyVars>>

\* What no longer exists once the actor, or the whole server, is gone.
ActorGone ==
  /\ live' = FALSE /\ turnActive' = NoTurn /\ sess' = FALSE
  /\ preparing' = FALSE /\ sent' = {}
  /\ pc' = "loop" /\ job' = NoJob /\ rowdue' = "none"
  /\ gets' = 0 /\ recs' = 0 /\ held' = 0
  /\ recovering' = FALSE /\ plan' = NoPlan
  /\ alive' = FALSE /\ hturn' = NoTurn /\ steers' = {} /\ events' = <<>>
  /\ given' = [p \in Prompts |-> 0]

\* shutdown's row: the actor's own turn decides, whatever the row said.
\* Fault: the turn is forgotten.
RowAtShutdownIdle == IF closed THEN "closed" ELSE "idle"
RowAtShutdown ==
  IF closed THEN "closed" ELSE IF turnActive # NoTurn THEN "turn" ELSE "idle"

Exiting ==
  /\ At("exiting")
  /\ row' = RowAtShutdown
  /\ ActorGone
  /\ prov' = CASE prov = "activate" -> "failing"
               [] prov = "setphase" -> "late"
               [] OTHER -> "none"
  /\ UNCHANGED <<logVars, up, boot, stops, historyVars>>

-----------------------------------------------------------------------------
(* The manager: restore, activation, recovery (manager.go get, finishGet,  *)
(* recovery.go).                                                           *)

\* View or Get of a thread with no actor.
Restore ==
  /\ up /\ ~live /\ boot # "stopping"
  /\ live' = TRUE
  /\ \/ /\ row = "closed"
        /\ closed' = TRUE /\ phase' = "closed"
        /\ UNCHANGED <<row, turnActive, plan, recovering>>
     \/ /\ row = "provisioning"
        /\ row' = "provision_failed" /\ phase' = "provision_failed"
        /\ UNCHANGED <<closed, turnActive, plan, recovering>>
     \/ /\ row = "provision_failed"
        /\ UNCHANGED <<closed, phase, row, turnActive, plan, recovering>>
     \/ /\ row \in {"idle", "turn", "ready"}
        /\ turnActive' = LastOpen(turns)
        /\ plan' = PlanRecovery(turns)
        /\ recovering' = (PlanRecovery(turns) # NoPlan)
        /\ UNCHANGED <<closed, phase, row>>
  /\ UNCHANGED <<turns, queue, shown, removed, cancelled, managerVars, gets,
                 recs, held, sess, preparing, sent, pc, job, rowdue,
                 harnessVars, historyVars>>

\* cmdActivate with resume: a fresh process, then the interrupted turns are
\* closed one log write at a time.
Activate ==
  /\ sess' = TRUE /\ preparing' = FALSE
  /\ alive' = TRUE
  /\ pc' = "closing"
  /\ UNCHANGED <<live, turnActive, sent, hturn, steers, events, given>>

Closing ==
  /\ At("closing")
  /\ \/ /\ OpenAt(turns) = {}
        /\ pc' = AfterCommand
        /\ UNCHANGED <<logVars, rowdue, turnActive>>
     \/ \E i \in OpenAt(turns) :
          /\ \A j \in OpenAt(turns) : i <= j
          /\ LogFinished(turns[i].id, "error")
          /\ UNCHANGED pc
  /\ UNCHANGED <<row, managerVars, recoverVars, live, sess, preparing, sent,
                 job, harnessVars, historyVars>>

\* Get by a command while the row says idle.
GetIdle ==
  /\ Waiting /\ ~sess /\ ~closed
  /\ row = "idle"
  /\ Activate
  /\ UNCHANGED <<logVars, row, managerVars, recoverVars, job, rowdue,
                 historyVars>>

\* Get reads the row under the lifecycle lock and activates after it.
ReadTurnRow ==
  /\ row = "turn"
  /\ gets + recs + held < MaxGets
  /\ gets' = gets + 1

GetTurn ==
  /\ live
  /\ ~sess \/ recovering
  /\ ReadTurnRow
  /\ UNCHANGED <<logVars, row, managerVars, recs, held, recovering, plan,
                 actorVars, pc, job, rowdue, harnessVars, historyVars>>

FinishGet ==
  /\ Waiting
  /\ gets > 0
  /\ gets' = gets - 1
  /\ recs' = recs + 1
  /\ IF sess \/ closed
     THEN pc' = AfterCommand /\ UNCHANGED <<actorVars, harnessVars>>
     ELSE Activate
  /\ UNCHANGED <<logVars, row, managerVars, held, recovering, plan, job, rowdue,
                 historyVars>>

\* recoverActor: Recover reads the plan, then asks the loop to send it.
RecoverRead ==
  /\ recs > 0
  /\ recs' = recs - 1
  /\ held' = IF recovering THEN held + 1 ELSE held
  /\ UNCHANGED <<logVars, row, managerVars, gets, recovering, plan, actorVars,
                 pc, job, rowdue, harnessVars, historyVars>>

RecoverPrompt ==
  /\ Waiting
  /\ held > 0
  /\ held' = held - 1
  /\ IF closed
     THEN UNCHANGED <<recovering, turnActive, born, job, pc>>
     ELSE /\ TakePlan
          /\ IF turnActive = NoTurn /\ sess
             THEN StartTurn(NoPrompt, "restart", plan.attempt, plan.of)
             ELSE /\ pc' = AfterCommand
                  /\ UNCHANGED <<turnActive, born, job>>
  /\ UNCHANGED <<logVars, row, managerVars, gets, recs, plan, live, sess,
                 preparing, sent, rowdue, harnessVars, accepted>>

\* recoverAll, once per server start, and its Get of an interrupted thread.
BootScan ==
  /\ up /\ boot = "scan"
  /\ boot' = "done"
  /\ \/ row # "turn" /\ UNCHANGED gets
     \/ live /\ ReadTurnRow
  /\ UNCHANGED <<logVars, row, up, prov, stops, recs, held, recovering, plan,
                 actorVars, pc, job, rowdue, harnessVars, historyVars>>

-----------------------------------------------------------------------------
(* The provisioning runner, from the moment the workspace exists           *)
(* (lifecycle.go provision).                                               *)

ProvActivate ==
  /\ prov = "activate"
  /\ Waiting
  /\ sess' = TRUE /\ preparing' = FALSE /\ alive' = TRUE
  /\ prov' = "setphase"
  /\ pc' = AfterCommand
  /\ UNCHANGED <<logVars, row, up, boot, stops, recoverVars, live, turnActive,
                 sent, job, rowdue, hturn, steers, events, given, historyVars>>

\* "late": the runner does not notice that its actor has been disposed of.
ProvRow ==
  /\ prov \in {"setphase", "late"}
  /\ row' = "ready"
  /\ prov' = IF prov = "late" THEN "none" ELSE "emit"
  /\ UNCHANGED <<logVars, up, boot, stops, recoverVars, actorVars, pc, job,
                 rowdue, harnessVars, historyVars>>

\* workspace.ready folds to phase idle and writes no row.
ProvReady ==
  /\ prov = "emit"
  /\ Waiting
  /\ phase' = "idle"
  /\ prov' = "none"
  /\ pc' = AfterCommand
  /\ UNCHANGED <<turns, queue, shown, removed, cancelled, closed, row, up, boot,
                 stops, recoverVars, actorVars, job, rowdue, harnessVars,
                 historyVars>>

\* A hook, the checkout or the harness fails.
ProvError ==
  /\ prov = "activate" /\ "die" \in Features
  /\ prov' = "failing"
  /\ UNCHANGED <<logVars, row, up, boot, stops, recoverVars, actorVars, pc, job,
                 rowdue, harnessVars, historyVars>>

ProvFailed ==
  /\ prov = "failing"
  /\ row' = "provision_failed"
  /\ prov' = IF preparing THEN "report" ELSE "none"
  /\ UNCHANGED <<logVars, up, boot, stops, recoverVars, actorVars, pc, job,
                 rowdue, harnessVars, historyVars>>

ProvReport ==
  /\ prov = "report"
  /\ Waiting
  /\ phase' = "provision_failed"
  /\ prov' = "none"
  /\ pc' = AfterCommand
  /\ UNCHANGED <<turns, queue, shown, removed, cancelled, closed, row, up, boot,
                 stops, recoverVars, actorVars, job, rowdue, harnessVars,
                 historyVars>>

-----------------------------------------------------------------------------
(* The harness session (claude.go) and the process behind it.  A full      *)
(* event channel holds the session back.                                   *)

Emit(kind, t, p, stop) ==
  events' = Append(events, [kind |-> kind, turn |-> t, prompt |-> p,
                            stop |-> stop])
Running == alive /\ Len(events) < MaxEvents

\* ensureTurn: a background task or an auto-continuation resumes work.
HSelfStart ==
  /\ "self" \in Features
  /\ Running /\ hturn = NoTurn
  /\ born < MaxTurns
  /\ born' = born + 1
  /\ hturn' = born + 1
  /\ Emit("started", born + 1, NoPrompt, "open")
  /\ UNCHANGED <<logVars, row, managerVars, recoverVars, actorVars, pc, job,
                 rowdue, alive, steers, given, accepted>>

\* handleReplay: a held prompt is read into the running turn, or opens one.
HRead(q) ==
  /\ Running
  /\ q \in steers
  /\ steers' = steers \ {q}
  /\ given' = [given EXCEPT ![q] = @ + 1]
  /\ IF hturn # NoTurn
     THEN /\ Emit("injected", hturn, q, "open")
          /\ UNCHANGED <<born, hturn>>
     ELSE /\ born' = born + 1
          /\ hturn' = born + 1
          /\ Emit("started", born + 1, q, "open")
  /\ UNCHANGED <<logVars, row, managerVars, recoverVars, actorVars, pc, job,
                 rowdue, alive, accepted>>

\* Streamed output; one chunk stands for a run of them.
HChunk ==
  /\ Running /\ hturn # NoTurn
  /\ events # <<>> => events[Len(events)].kind # "chunk"
  /\ Emit("chunk", hturn, NoPrompt, "open")
  /\ UNCHANGED <<logVars, row, managerVars, recoverVars, actorVars, pc, job,
                 rowdue, alive, hturn, steers, given, historyVars>>

HFinish ==
  /\ Running /\ hturn # NoTurn
  /\ hturn' = NoTurn
  /\ \E stop \in IF "continue" \in Features THEN {"end", "error"} ELSE {"end"} :
       Emit("finished", hturn, NoPrompt, stop)
  /\ UNCHANGED <<logVars, row, managerVars, recoverVars, actorVars, pc, job,
                 rowdue, alive, steers, given, historyVars>>

\* watchExit: the process is gone; an open turn is closed, then the channel.
HExit ==
  /\ "die" \in Features
  /\ alive
  /\ alive' = FALSE /\ hturn' = NoTurn /\ steers' = {}
  /\ IF hturn # NoTurn THEN Emit("finished", hturn, NoPrompt, "error")
                       ELSE UNCHANGED events
  /\ UNCHANGED <<logVars, row, managerVars, recoverVars, actorVars, pc, job,
                 rowdue, given, historyVars>>

-----------------------------------------------------------------------------
(* The server stops, dies and starts.                                      *)

Stop ==
  /\ "stop" \in Features /\ stops < MaxStops
  /\ up /\ boot # "stopping"
  /\ live => Waiting
  /\ boot' = "stopping"
  /\ stops' = stops + 1
  /\ pc' = IF live THEN "exiting" ELSE pc
  /\ UNCHANGED <<logVars, row, up, prov, recoverVars, actorVars, job, rowdue,
                 harnessVars, historyVars>>

Halt ==
  /\ boot = "stopping" /\ ~live
  /\ up' = FALSE /\ prov' = "none" /\ boot' = "done"
  /\ UNCHANGED <<logVars, row, stops, recoverVars, actorVars, pc, job, rowdue,
                 harnessVars, historyVars>>

\* Without "torn" the server never dies between an event and its row write.
Crash ==
  /\ "crash" \in Features /\ stops < MaxStops
  /\ up
  /\ rowdue = "none" \/ "torn" \in Features
  /\ up' = FALSE /\ prov' = "none" /\ boot' = "done"
  /\ stops' = stops + 1
  /\ ActorGone
  /\ UNCHANGED <<logVars, row, historyVars>>

Start ==
  /\ ~up
  /\ up' = TRUE
  /\ boot' = "scan"
  /\ UNCHANGED <<logVars, row, prov, stops, recoverVars, actorVars, pc, job,
                 rowdue, harnessVars, historyVars>>

-----------------------------------------------------------------------------
\* An idle thread with a harness, or one whose workspace is being prepared.
Init ==
  LET creating == "create" \in Features
  IN  /\ turns = <<>> /\ queue = <<>>
      /\ shown = {} /\ removed = {} /\ cancelled = {}
      /\ phase = IF creating THEN "provisioning" ELSE "idle"
      /\ row = phase
      /\ closed = FALSE
      /\ up = TRUE /\ boot = "done" /\ stops = 0
      /\ gets = 0 /\ recs = 0 /\ held = 0
      /\ prov = IF creating THEN "activate" ELSE "none"
      /\ live = TRUE /\ turnActive = NoTurn
      /\ sess = ~creating /\ preparing = creating /\ alive = ~creating
      /\ recovering = FALSE /\ plan = NoPlan /\ sent = {}
      /\ pc = "loop" /\ job = NoJob /\ rowdue = "none"
      /\ hturn = NoTurn /\ steers = {} /\ events = <<>>
      /\ given = [p \in Prompts |-> 0]
      /\ accepted = {} /\ born = 0

Presenter ==
  \/ \E p \in Prompts : Prompt(p) \/ Dequeue(p)
  \/ Cancel \/ Continue \/ CloseThread \/ OtherCommand \/ GetIdle \/ GetTurn
ActorStep ==
  \/ SyncRow \/ Starting \/ Sending \/ Refused \/ Dispatch \/ Queueing
  \/ Dropping \/ Exiting \/ Closing
Reaction == HandleEvent \/ HandleExit \/ FinishGet \/ RecoverRead \/ RecoverPrompt
Provision ==
  ProvActivate \/ ProvRow \/ ProvReady \/ ProvError \/ ProvFailed \/ ProvReport
HarnessStep ==
  HSelfStart \/ (\E q \in Prompts : HRead(q)) \/ HChunk \/ HFinish \/ HExit
Server == Restore \/ BootScan \/ Stop \/ Halt \/ Crash \/ Start

Next == Presenter \/ ActorStep \/ Reaction \/ Provision \/ HarnessStep \/ Server

Spec == Init /\ [][Next]_vars

-----------------------------------------------------------------------------
LogTypeOK ==
  /\ turns \in Seq(Turns) /\ queue \in Seq(Prompts)
  /\ shown \subseteq Prompts /\ removed \subseteq Prompts
  /\ cancelled \subseteq Prompts
  /\ phase \in Phases /\ closed \in BOOLEAN
ServerTypeOK ==
  /\ row \in Phases /\ up \in BOOLEAN
  /\ boot \in {"scan", "done", "stopping"}
  /\ prov \in {"none", "activate", "setphase", "emit", "failing", "report", "late"}
  /\ stops \in Nat /\ gets \in Nat /\ recs \in Nat /\ held \in Nat
  /\ recovering \in BOOLEAN /\ plan \in Plans
ActorTypeOK ==
  /\ live \in BOOLEAN /\ turnActive \in Nat /\ sess \in BOOLEAN
  /\ preparing \in BOOLEAN /\ sent \subseteq Prompts
  /\ pc \in {"loop", "tail", "starting", "sending", "queueing", "dropping",
             "closing", "exiting"}
  /\ job \in Jobs
  /\ rowdue \in Phases \cup {"none"}
HarnessTypeOK ==
  /\ alive \in BOOLEAN /\ hturn \in Nat /\ steers \subseteq Prompts
  /\ events \in Seq(Events)
  /\ given \in [Prompts -> Nat]
  /\ accepted \subseteq Prompts /\ born \in Nat
TypeOK == LogTypeOK /\ ServerTypeOK /\ ActorTypeOK /\ HarnessTypeOK

-----------------------------------------------------------------------------
(* Safety.                                                                 *)

\* A prompt a presenter was told is accepted is in the log for good: waiting,
\* opened as a turn, shown where the harness read it, or taken out by name.
NothingLost ==
  accepted \subseteq Queued \cup StartedPrompts \cup shown \cup removed \cup cancelled

\* A waiting prompt waits once, and was never started, shown or taken out:
\* neither a dispatch, a steer, a cancel nor a restart leaves a second copy.
WaitsOnce ==
  /\ \A i, j \in DOMAIN queue : queue[i] = queue[j] => i = j
  /\ Queued \cap (StartedPrompts \cup shown \cup removed \cup cancelled) = {}

\* One harness process is handed a prompt at most once, whether by a turn, a
\* steer or the queue (adapter.Steerer: "the actor never sends it again").
HandedOnce ==
  \A p \in Prompts : given[p] + (IF p \in steers THEN 1 ELSE 0) <= 1

\* The harness never works on a turn the actor does not guard: its turn is
\* the active one, or the event that will make it so is on the way.
WorkIsGuarded ==
  live /\ hturn # NoTurn =>
    \/ turnActive = hturn
    \/ \E i \in DOMAIN events :
         events[i].kind = "started" /\ events[i].turn = hturn

\* The busy guard never outlives the work: a settled actor that is busy has a
\* harness running that turn, or an event or an exit on the way to end it.
GuardIsReleased ==
  Waiting /\ sess /\ turnActive # NoTurn =>
    \/ hturn = turnActive
    \/ ~alive
    \/ \E i \in DOMAIN events :
         events[i].kind = "finished" /\ events[i].turn = turnActive

\* The busy guard covers exactly the harness's work: whatever order the turns
\* of presenters, of the queue and of the harness itself start and end in, it
\* is there while the harness works and goes with it.
GuardMatchesWork == WorkIsGuarded /\ GuardIsReleased

\* Between commands the projection's phase and the busy guard agree (state.go:
\* "the phase it lands on and the busy guard agree"), for a harness that never
\* starts a turn of its own.
PhaseAgrees ==
  Waiting /\ ~closed => (phase = "turn" <=> turnActive # NoTurn)

\* recoverAll scans rows only, so a stopped server that owes a continuation
\* must have left "turn" in the row.  A death between an event's transaction
\* and its row's ("torn") is outside this.
InterruptedIsFound ==
  ~up /\ ~closed /\ OpenAt(turns) # {} => row = "turn"

\* The server restarts an interrupted turn at most MaxAttempts times in a row,
\* and names a turn of the log that came before.
RecoveryBounded ==
  \A i \in DOMAIN turns :
    turns[i].cause = "restart" =>
      /\ turns[i].attempt <= MaxAttempts
      /\ \E j \in 1..(i - 1) : turns[j].id = turns[i].of

\* The queue was written behind the interrupted work: what directly follows a
\* turn that is continued, its first continuation or a turn that got in before
\* it, is never the queue's.
ContinuationFirst ==
  \A i, k \in DOMAIN turns :
    turns[k].cause = "restart" /\ turns[i].id = turns[k].of /\ i < k
      => turns[i + 1].cause # "queue"

\* Continuing interrupted work is bounded and comes before what waits, over any
\* chain of restarts, further deaths and Gets that overlap.
RecoveryInOrder == RecoveryBounded /\ ContinuationFirst

\* Interrupted work is continued once (actor.go: "a second Recover racing this
\* one has nothing left to send").
ContinuedOnce ==
  \A i, j \in DOMAIN turns :
    turns[i].cause = "restart" /\ turns[j].cause = "restart"
      /\ turns[i].of = turns[j].of => i = j

\* Provisioning cut short by a stop is found again by the next start.
ProvisioningIsFound == ~up /\ phase = "provisioning" => row = "provisioning"

\* What the harness process read is in the transcript, or on its way there
\* (actor.go cancel: it "would otherwise vanish from the log").
ReadIsLogged ==
  \A p \in Prompts :
    given[p] > 0 =>
      \/ p \in StartedPrompts \cup shown
      \/ \E i \in DOMAIN events : events[i].prompt = p

\* Removed means removed: a prompt a human took back out of the queue is not
\* read by the harness afterwards.
RemovedStaysUnread ==
  [][\A p \in removed : given'[p] <= given[p]]_vars

\* What the harness reads, it reads once, and never what a human took back.
ReadAtMostOnce == []HandedOnce /\ RemovedStaysUnread

\* The log only grows: a finished turn never opens again and keeps its place,
\* and a prompt in the transcript stays in it, across crashes and restarts.
LogIsAppendOnly ==
  [][/\ Len(turns) <= Len(turns')
     /\ \A i \in DOMAIN turns :
          /\ turns'[i].id = turns[i].id
          /\ turns[i].stop # "open" => turns'[i].stop # "open"
     /\ shown \subseteq shown']_vars

-----------------------------------------------------------------------------
(* Liveness.  The inbox is one first-in first-out channel and its senders  *)
(* wait in order, so a command offered to the loop is taken however many   *)
(* others compete (SF); the loop itself, the manager's goroutines and a    *)
(* supervisor that starts the server again only have to run (WF).  The     *)
(* harness is assumed to end its turns and to read what it holds.          *)

Fairness ==
  /\ WF_vars(ActorStep)
  /\ SF_vars(HandleEvent) /\ SF_vars(HandleExit)
  /\ SF_vars(FinishGet) /\ WF_vars(RecoverRead) /\ SF_vars(RecoverPrompt)
  /\ SF_vars(ProvActivate) /\ WF_vars(ProvRow) /\ SF_vars(ProvReady)
  /\ SF_vars(HFinish) /\ \A q \in Prompts : SF_vars(HRead(q))
  /\ WF_vars(Start) /\ WF_vars(Halt) /\ WF_vars(BootScan)
  /\ WF_vars(boot = "scan" /\ row = "turn" /\ Restore)

FairSpec == Spec /\ Fairness

\* A queued prompt does not wait forever, unless the server stops first.
QueueDrains == \A p \in Prompts : p \in Queued ~> p \notin Queued \/ stops > 0

\* A busy thread becomes idle again, or the server stops first.
TurnsEnd == turnActive # NoTurn ~> turnActive = NoTurn \/ stops > 0

\* A thread is never wedged: its turns end and what waits behind them starts.
ThreadGoesOn == QueueDrains /\ TurnsEnd

NewestIs(t) == turns # <<>> /\ turns[Len(turns)].id = t
NewestStop  == turns[Len(turns)].stop
\* A turn that a stop or a crash left open is taken up again: a continuation
\* of it is started, or a human got in first with a turn or a cancel.  A row in
\* which provisioning wrote "ready" last is not activated by a start.
InterruptedResumes ==
  \A t \in 1..MaxTurns :
    (/\ ~up /\ ~closed /\ row # "ready"
     /\ NewestIs(t) /\ NewestStop = "open"
     /\ turns[Len(turns)].attempt < MaxAttempts)
      ~> (closed \/ ~NewestIs(t) \/ NewestStop = "cancelled")

=============================================================================
