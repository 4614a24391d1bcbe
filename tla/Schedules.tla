----------------------------- MODULE Schedules -----------------------------
(***************************************************************************)
(* Prompts one thread is to be sent later: what a presenter may do to      *)
(* them, the scheduler that finds the due ones, and how the actor sends    *)
(* them, with the work of other kinds that keeps the thread busy and a     *)
(* server that may die in the middle.                                      *)
(*                                                                         *)
(* internal/thread/schedules.go, internal/store/schedules.go,              *)
(* internal/projection/state.go (Scheduled), and of the actor and the      *)
(* manager what decides whether the thread is free: startTurn,             *)
(* dispatchQueued, cmdActivate, finishGet, recoverAll, cmdCancel.          *)
(*                                                                         *)
(* The actor serves one command at a time; a handler that calls the        *)
(* harness or writes twice is several steps, pc says where it is, and      *)
(* only a crash may come in between.  Time is counted in hours of grace.   *)
(***************************************************************************)
EXTENDS Naturals, FiniteSets, Functions

CONSTANTS
  Ids, NoId,
  Grace,        \* scheduleGrace
  Ahead,        \* how far ahead a time may be chosen
  MaxClock,     \* bound on the time
  MaxAsks,      \* bound on accepted instructions, over all schedules
  MaxIncidents, \* bound on refusals by the store, the provider or the
                \* harness, on its exits and questions, and on people's prompts
  MaxCrashes,   \* bound on server crashes
  TornRow       \* may a crash come between an event and the row's phase

ASSUME ScheduleConstants ==
  /\ NoId \notin Ids /\ TornRow \in BOOLEAN
  /\ {Grace, Ahead, MaxClock, MaxAsks, MaxIncidents, MaxCrashes}
       \subseteq Nat

VARIABLES
  clock,
  sched,      \* the projection's Scheduled; it is the log, folded
  index,      \* the table scheduled_prompts
  open,       \* the turn the log says is open, 0 if none
  row,        \* the phase column of the thread's row
  queued,     \* the log holds a prompt waiting for the thread to be idle
  asking,     \* the log holds an unanswered permission or question
  actor,      \* "none", "viewed" (no harness) or "live"
  active,     \* turnActive, 0 if none
  recovery,   \* the actor plans to continue an interrupted turn
  pc,         \* where the actor's handler is
  todo,       \* the due schedules this tick has still to look at
  job,        \* the turn being started: its schedule, where to go on after
  picked,     \* scheduleReady: what this server has picked up
  worker,     \* the scheduler's goroutine for this thread
  getter,     \* a Manager.Get in progress
  recover,    \* recoverActor is about to ask for the continuation
  born,       \* turns started so far
  incidents, crashes,
  asked, handed,   \* history: instructions accepted, prompts given away
  waiting          \* history: picked up by this server since last asked for

logVars   == <<sched, index, open, row, queued, asking>>
actorVars == <<actor, active, recovery, pc, todo, job>>
hostVars  == <<clock, picked, worker, getter, recover>>
boundVars == <<born, incidents, crashes>>
history   == <<asked, handed, waiting>>
vars == <<logVars, actorVars, hostVars, boundVars, history>>

Statuses == {"none", "pending", "ready", "sent", "failed", "missed", "cancelled"}
Absent   == [status |-> "none", due |-> 0, rev |-> 0, turn |-> 0]
NoJob    == [id |-> NoId, then |-> "loop"]

TypeOK ==
  /\ clock \in 0..MaxClock
  /\ sched \in [Ids -> [status : Statuses, due : Nat, rev : Nat, turn : Nat]]
  /\ index \in [Ids -> [status : Statuses, due : Nat]]
  /\ open \in Nat /\ row \in {"idle", "turn"}
  /\ queued \in BOOLEAN /\ asking \in BOOLEAN
  /\ actor \in {"none", "viewed", "live"} /\ active \in Nat
  /\ recovery \in BOOLEAN /\ recover \in BOOLEAN
  /\ pc \in {"loop", "tick", "free", "phase", "sending", "tail"}
  /\ todo \subseteq Ids
  /\ job \in [id : Ids \cup {NoId}, then : {"loop", "tail"}]
  /\ picked \subseteq Ids
  /\ worker \in [pc : {"idle", "view", "tick"}, now : 0..MaxClock]
  /\ getter \in [pc : {"none", "list", "get", "activate", "prompt"},
                 phase : {"idle", "turn"}, why : {"boot", "prompt"}]
  /\ born \in Nat /\ incidents \in 0..MaxIncidents /\ crashes \in 0..MaxCrashes
  /\ asked \in [Ids -> Nat] /\ handed \in [Ids -> Nat] /\ waiting \subseteq Ids
  /\ active # 0 => open = active

NoGetter == [pc |-> "none", phase |-> "idle", why |-> "boot"]

Init ==
  /\ clock = 0
  /\ sched = [s \in Ids |-> Absent]
  /\ index = [s \in Ids |-> [status |-> "none", due |-> 0]]
  /\ open = 0 /\ row = "idle" /\ queued = FALSE /\ asking = FALSE
  /\ actor = "live" /\ active = 0 /\ recovery = FALSE
  /\ pc = "loop" /\ todo = {} /\ job = NoJob
  /\ picked = {} /\ worker = [pc |-> "idle", now |-> 0]
  /\ getter = NoGetter /\ recover = FALSE
  /\ born = 0 /\ incidents = 0 /\ crashes = 0
  /\ asked = [s \in Ids |-> 0] /\ handed = [s \in Ids |-> 0] /\ waiting = {}

-----------------------------------------------------------------------------
(* The events, as the projection folds them and the index follows in the    *)
(* same transaction.                                                        *)

Due(status) == status \in {"pending", "ready"}

\* Fault: the index keeps the row it has.
ScheduledOnce(s, status, due) ==
  /\ sched' = [sched EXCEPT
       ![s] = [status |-> status, due |-> due, rev |-> @.rev + 1, turn |-> 0]]
  /\ index' = IF index[s].status = "none"
                THEN [index EXCEPT ![s] = [status |-> status, due |-> due]]
                ELSE index

\* PromptScheduled: the whole entry is replaced.
Scheduled(s, status, due) ==
  /\ sched' = [sched EXCEPT
       ![s] = [status |-> status, due |-> due, rev |-> @.rev + 1, turn |-> 0]]
  /\ index' = [index EXCEPT ![s] = [status |-> status, due |-> due]]

\* Fault: the index is not told.
SentUnindexed(s, t) ==
  /\ sched' = [sched EXCEPT ![s].status = "sent", ![s].turn = t, ![s].rev = @ + 1]
  /\ UNCHANGED index

\* Fault: the turn is started without naming the schedule.
SentUnnamed(s, t) == UNCHANGED <<sched, index>>

\* TurnStarted for a schedule marks it sent, here and in the index.
Sent(s, t) ==
  /\ sched' = [sched EXCEPT ![s].status = "sent", ![s].turn = t, ![s].rev = @ + 1]
  /\ index' = [index EXCEPT ![s].status = "sent"]

\* A turn that ends in an error fails the schedule it was started for.
Fold(t) ==
  [s \in Ids |->
     IF sched[s].turn = t
       THEN [sched[s] EXCEPT !.status = "failed", !.rev = @ + 1]
       ELSE sched[s]]

\* TurnFinished for the open turn; append then frees the actor and writes
\* the row.
Finished(stop) ==
  /\ open' = 0 /\ active' = 0 /\ row' = "idle"
  /\ sched' = IF stop = "error" THEN Fold(open) ELSE sched

Incident == incidents < MaxIncidents /\ incidents' = incidents + 1

-----------------------------------------------------------------------------
(* The actor coming and going.                                              *)

\* Manager.View: an actor is restored from the log if there is none, and
\* plans there and then to continue a turn it finds open.
Viewed ==
  IF actor = "none"
    THEN actor' = "viewed" /\ active' = open /\ recovery' = (open # 0)
    ELSE UNCHANGED <<actor, active, recovery>>

\* cmdActivate closes what the old process left open.
Activated ==
  /\ actor' = "live" /\ asking' = FALSE
  /\ IF open # 0 THEN Finished("error")
                 ELSE UNCHANGED <<open, active, row, sched>>

\* The harness process ends: shutdown cancels what it was asking.
HarnessExit ==
  /\ pc = "loop" /\ actor = "live" /\ Incident
  /\ actor' = "none" /\ asking' = FALSE /\ recovery' = FALSE
  /\ IF open # 0 THEN Finished("error")
                 ELSE UNCHANGED <<open, active, row, sched>>
  /\ UNCHANGED <<index, queued, pc, todo, job, hostVars, born, crashes, history>>

\* A command finds no actor: call answers that it has stopped.
Gone == actor = "none"

\* Everything in memory is gone; recoverAll and the scheduler start again.
Crash ==
  /\ crashes < MaxCrashes /\ crashes' = crashes + 1
  /\ TornRow \/ pc # "phase"
  /\ actor' = "none" /\ active' = 0 /\ recovery' = FALSE
  /\ pc' = "loop" /\ todo' = {} /\ job' = NoJob
  /\ picked' = {} /\ waiting' = {} /\ worker' = [pc |-> "idle", now |-> 0]
  /\ getter' = [pc |-> "list", phase |-> "idle", why |-> "boot"]
  /\ recover' = FALSE
  /\ UNCHANGED <<logVars, clock, born, incidents, asked, handed>>

Advance ==
  /\ clock < MaxClock /\ clock' = clock + 1
  /\ UNCHANGED <<logVars, actorVars, picked, worker, getter, recover,
                 boundVars, history>>

-----------------------------------------------------------------------------
(* Starting a turn (startTurn), for a schedule or for anybody else.         *)

\* The event goes in first: a schedule is marked sent before the provider
\* hears of it.
Start(s, then) ==
  /\ born' = born + 1 /\ open' = born + 1 /\ active' = born + 1
  /\ IF s \in Ids THEN Sent(s, born + 1) ELSE UNCHANGED <<sched, index>>
  /\ job' = [id |-> s, then |-> then]
  /\ pc' = "phase"

WritePhase ==
  /\ pc = "phase" /\ pc' = "sending" /\ row' = "turn"
  /\ UNCHANGED <<sched, index, open, queued, asking, actor, active, recovery,
                 todo, job, hostVars, boundVars, history>>

\* sess.Prompt.  A refusal may have reached the harness all the same, and
\* ends the turn in an error.
Prompt ==
  /\ pc = "sending" /\ pc' = job.then /\ job' = NoJob
  /\ handed' = IF job.id \in Ids THEN [handed EXCEPT ![job.id] = @ + 1] ELSE handed
  /\ \/ UNCHANGED <<open, active, row, sched, incidents>>
     \/ Incident /\ Finished("error")
  /\ UNCHANGED <<index, queued, asking, actor, recovery, todo, hostVars, born, crashes, asked, waiting>>

\* dispatchQueued, after every command.
Tail ==
  /\ pc = "tail"
  /\ IF queued /\ active = 0 /\ actor = "live" /\ ~recovery
       THEN Start(NoId, "loop") /\ queued' = FALSE
       ELSE /\ pc' = "loop"
            /\ UNCHANGED <<queued, born, open, active, sched, index, job>>
  /\ UNCHANGED <<row, asking, actor, recovery, todo, hostVars, incidents, crashes, history>>

-----------------------------------------------------------------------------
(* What a presenter does to a schedule (handleSchedule).  It names the      *)
(* revision it was looking at, so only a command about the present one has  *)
(* an effect.                                                               *)

InTime(due) == due > clock /\ due <= clock + Ahead /\ due <= MaxClock

Touchable(s) == sched[s].status \notin {"none", "sent", "cancelled"}

TotalAsked == FoldFunctionOnSet(+, 0, asked, Ids)

Ask(s) ==
  /\ TotalAsked < MaxAsks
  /\ asked' = [asked EXCEPT ![s] = @ + 1]
  /\ waiting' = waiting \ {s}

Schedule(s, due) ==
  /\ sched[s].status = "none" \/ Touchable(s)
  /\ InTime(due)
  /\ Ask(s) /\ Scheduled(s, "pending", due)

SendNow(s) == Touchable(s) /\ Ask(s) /\ Scheduled(s, "ready", clock)

CancelSchedule(s) ==
  /\ Touchable(s)
  /\ Scheduled(s, "cancelled", sched[s].due)
  /\ waiting' = waiting \ {s}
  /\ UNCHANGED asked

Instruct(s) ==
  /\ pc = "loop" /\ pc' = "tail"
  /\ Viewed
  /\ SendNow(s) \/ CancelSchedule(s) \/ \E due \in 0..MaxClock : Schedule(s, due)
  /\ UNCHANGED <<open, row, queued, asking, todo, job, hostVars, boundVars, handed>>

-----------------------------------------------------------------------------
(* The scheduler and the tick it sends.                                     *)

\* DueScheduleThreads, and a goroutine if none is at this thread already.
Lookup ==
  /\ worker.pc = "idle"
  /\ \E s \in Ids : Due(index[s].status) /\ index[s].due <= clock
  /\ worker' = [pc |-> "view", now |-> 0]
  /\ UNCHANGED <<logVars, actorVars, clock, picked, getter, recover, boundVars, history>>

View ==
  /\ worker.pc = "view" /\ worker' = [pc |-> "tick", now |-> clock]
  /\ Viewed
  /\ UNCHANGED <<logVars, pc, todo, job, clock, picked, getter, recover,
                 boundVars, history>>

IsDue(s, now) == Due(sched[s].status) /\ sched[s].due <= now

\* dispatchScheduled begins, with the schedules due at the time it was sent.
Tick ==
  /\ worker.pc = "tick" /\ pc = "loop"
  /\ IF Gone
       THEN worker' = [pc |-> "idle", now |-> 0] /\ UNCHANGED <<pc, todo>>
       ELSE /\ pc' = "tick" /\ UNCHANGED worker
            /\ todo' = {s \in Ids : IsDue(s, worker.now)}
  /\ UNCHANGED <<logVars, actor, active, recovery, job, clock, picked, getter,
                 recover, boundVars, history>>

\* The tick is answered and the scheduler's goroutine ends.
Done ==
  /\ todo' = {} /\ job' = NoJob /\ pc' = "tail"
  /\ worker' = [pc |-> "idle", now |-> 0]

TickEnds ==
  /\ pc = "tick" /\ todo = {} /\ Done
  /\ UNCHANGED <<logVars, actor, active, recovery, clock, picked, getter,
                 recover, boundVars, history>>

Earliest == {s \in todo : \A r \in todo : sched[s].due <= sched[r].due}
\* Fault: what was picked up is forgotten.
PickedUpNever(s) == FALSE

PickedUp(s) == s \in picked
TooLate(s) == worker.now > sched[s].due + Grace

\* The next schedule.  One this server has not picked up is picked up now,
\* or missed; the store may refuse to say so, and the tick ends.
Consider(s) ==
  /\ pc = "tick" /\ s \in Earliest
  /\ IF sched[s].status = "pending" \/ ~PickedUp(s)
       THEN \/ /\ TooLate(s) /\ Scheduled(s, "missed", sched[s].due)
               /\ todo' = todo \ {s}
               /\ UNCHANGED <<pc, job, picked, waiting, worker, incidents>>
            \/ /\ ~TooLate(s) /\ Scheduled(s, "ready", sched[s].due)
               /\ picked' = picked \cup {s} /\ waiting' = waiting \cup {s}
               /\ pc' = "free" /\ job' = [id |-> s, then |-> "tail"]
               /\ UNCHANGED <<todo, worker, incidents>>
            \/ /\ Incident /\ Done
               /\ UNCHANGED <<sched, index, picked, waiting>>
       ELSE /\ pc' = "free" /\ job' = [id |-> s, then |-> "tail"]
            /\ UNCHANGED <<sched, index, todo, picked, waiting, worker, incidents>>
  /\ UNCHANGED <<open, row, queued, asking, actor, active, recovery, clock,
                 getter, recover, born, crashes, asked, handed>>

FailSchedule == Scheduled(job.id, "failed", sched[job.id].due) /\ Done

\* The harness is started if there is none, in the tick itself.
TickActivates ==
  /\ pc = "free" /\ actor # "live"
  /\ \/ Activated /\ UNCHANGED <<index, pc, todo, job, worker, incidents>>
     \/ Incident /\ FailSchedule /\ UNCHANGED <<open, row, asking, actor, active>>
  /\ UNCHANGED <<queued, recovery, clock, picked, getter, recover, born, crashes, history>>

Busy == active # 0 \/ asking \/ queued \/ recovery

\* A busy thread is left alone and the schedule waits.
TickSkips ==
  /\ pc = "free" /\ actor = "live" /\ Busy
  /\ pc' = "tick" /\ todo' = todo \ {job.id} /\ job' = NoJob
  /\ UNCHANGED <<logVars, actor, active, recovery, hostVars, boundVars, history>>

\* The saved settings are restored and the turn is started.  An attachment
\* may be missing, a setting refused, or the event not stored.
TickStarts ==
  /\ pc = "free" /\ actor = "live" /\ ~Busy
  /\ \/ /\ Start(job.id, "tail") /\ todo' = {}
        /\ worker' = [pc |-> "idle", now |-> 0]
        /\ waiting' = waiting \ {job.id}
        /\ UNCHANGED incidents
     \/ /\ Incident /\ FailSchedule
        /\ UNCHANGED <<open, active, born, waiting>>
  /\ UNCHANGED <<row, queued, asking, actor, recovery, clock, picked, getter,
                 recover, crashes, asked, handed>>

-----------------------------------------------------------------------------
(* The rest of the thread's life: turns that end, what they ask, people who *)
(* prompt and stop, and Manager.Get, which is what continues a turn the     *)
(* last server left open.                                                   *)

TurnEnds ==
  /\ pc = "loop" /\ actor = "live" /\ active # 0
  /\ pc' = "tail"
  /\ \E stop \in {"end", "error"} : Finished(stop)
  /\ UNCHANGED <<index, queued, asking, actor, recovery, todo, job, hostVars,
                 boundVars, history>>

Asks ==
  /\ pc = "loop" /\ actor = "live" /\ active # 0 /\ ~asking
  /\ Incident
  /\ asking' = TRUE
  /\ UNCHANGED <<sched, index, open, row, queued, actorVars, hostVars, born,
                 crashes, history>>

Answered ==
  /\ pc = "loop" /\ asking /\ actor = "live"
  /\ asking' = FALSE
  /\ UNCHANGED <<sched, index, open, row, queued, actorVars, hostVars,
                 boundVars, history>>

\* cmdCancel drops the queue.  It interrupts a turn, or, with no harness,
\* closes the one the log holds and gives up continuing it.
Stop ==
  /\ pc = "loop" /\ actor # "none" /\ (open # 0 \/ queued)
  /\ pc' = "tail" /\ queued' = FALSE
  /\ IF active # 0 THEN Finished("cancelled")
                   ELSE UNCHANGED <<open, active, row, sched>>
  /\ recovery' = (recovery /\ ~(active # 0 /\ actor = "viewed"))
  /\ UNCHANGED <<index, asking, actor, todo, job, hostVars, boundVars, history>>

\* recoverAll lists the threads whose row says turn.
BootList ==
  /\ getter.pc = "list"
  /\ getter' = IF row = "turn" THEN [getter EXCEPT !.pc = "get"] ELSE NoGetter
  /\ UNCHANGED <<logVars, actorVars, clock, picked, worker, recover, boundVars, history>>

\* A person's prompt, which is a Get followed by cmdPrompt.
SendPrompt ==
  /\ getter.pc = "none" /\ Incident
  /\ getter' = [pc |-> "get", phase |-> "idle", why |-> "prompt"]
  /\ UNCHANGED <<logVars, actorVars, clock, picked, worker, recover, born, crashes, history>>

\* get reads the row, then finds or restores the actor.
Get ==
  /\ getter.pc = "get"
  /\ getter' = [getter EXCEPT !.pc = "activate", !.phase = row]
  /\ Viewed
  /\ UNCHANGED <<logVars, pc, todo, job, clock, picked, worker, recover,
                 boundVars, history>>

\* finishGet: the actor starts the harness, and the continuation is asked
\* for if the row it read said turn.
GetActivates ==
  /\ getter.pc = "activate" /\ pc = "loop"
  /\ \/ /\ actor # "none" /\ pc' = "tail"
        /\ IF actor = "live" THEN UNCHANGED <<actor, asking, open, active, row, sched>>
                             ELSE Activated
        /\ recover' = (recover \/ getter.phase = "turn")
        /\ getter' = IF getter.why = "prompt" THEN [getter EXCEPT !.pc = "prompt"]
                                              ELSE NoGetter
        /\ UNCHANGED incidents
     \/ /\ actor = "viewed" /\ Incident /\ pc' = "tail" /\ getter' = NoGetter
        /\ UNCHANGED <<actor, asking, open, active, row, sched, recover>>
     \/ /\ Gone /\ getter' = NoGetter
        /\ UNCHANGED <<actor, asking, open, active, row, sched, recover, pc, incidents>>
  /\ UNCHANGED <<index, queued, recovery, todo, job, clock, picked, worker,
                 born, crashes, history>>

\* cmdPrompt: a turn, a place in the queue, or a refusal.
PromptArrives ==
  /\ getter.pc = "prompt" /\ pc = "loop" /\ getter' = NoGetter
  /\ \/ /\ actor = "live" /\ active = 0 /\ Start(NoId, "tail")
        /\ UNCHANGED queued
     \/ /\ actor # "none" /\ active # 0 /\ queued' = TRUE /\ pc' = "tail"
        /\ UNCHANGED <<born, open, active, sched, index, job>>
     \/ /\ actor # "live" /\ active = 0
        /\ UNCHANGED <<queued, born, open, active, sched, index, job, pc>>
  /\ UNCHANGED <<row, asking, actor, recovery, todo, clock, picked, worker,
                 recover, incidents, crashes, history>>

\* recoverActor: the plan is dropped as soon as the actor takes the prompt.
Continue ==
  /\ recover /\ pc = "loop" /\ recover' = FALSE
  /\ recovery' = FALSE
  /\ IF recovery /\ actor = "live" /\ active = 0
       THEN Start(NoId, "tail")
       ELSE UNCHANGED <<born, open, active, sched, index, job, pc>>
  /\ UNCHANGED <<row, queued, asking, actor, todo, clock, picked, worker, getter,
                 incidents, crashes, history>>

-----------------------------------------------------------------------------
Handler ==
  \/ WritePhase \/ Prompt \/ Tail \/ TickEnds
  \/ (\E s \in Ids : Consider(s)) \/ TickActivates \/ TickSkips \/ TickStarts

Scheduler == Lookup \/ View \/ Tick
Getter == BootList \/ Get \/ GetActivates \/ PromptArrives

Next ==
  \/ Handler \/ Scheduler \/ Getter \/ Continue
  \/ Advance \/ TurnEnds \/ Asks \/ Answered \/ Stop \/ SendPrompt
  \/ HarnessExit \/ Crash
  \/ \E s \in Ids : Instruct(s)

Spec == Init /\ [][Next]_vars

\* Goroutines run, the clock goes on, a turn ends and a question is answered
\* in the end.  Nobody has to prompt, stop, exit or crash.
FairSpec ==
  /\ Spec
  /\ WF_vars(Handler) /\ SF_vars(Scheduler) /\ SF_vars(Getter) /\ SF_vars(Continue)
  /\ WF_vars(Advance) /\ SF_vars(TurnEnds \/ Answered)

-----------------------------------------------------------------------------
(* Properties.                                                              *)

\* A schedule is handed to the provider at most once for every time somebody
\* asked for it, whatever is retried, crashes or is resent.
SentOnce == \A s \in Ids : handed[s] <= asked[s]

\* What the scheduler looks up agrees with what the actor will find in the
\* log: an entry is due in one exactly when it is in the other.
IndexAgrees ==
  \A s \in Ids :
    /\ Due(index[s].status) <=> Due(sched[s].status)
    /\ Due(sched[s].status) => index[s].due = sched[s].due

\* A schedule picked up in time waits for a busy thread as long as this
\* server lives: it is never called missed.
BusyWaitKept ==
  [][\A s \in waiting : sched'[s].status # "missed"]_vars

\* A schedule that is due does not stay due: it is sent, or somebody is told
\* that it was not, unless the thread is left holding a continuation that
\* nothing will send.
DueSettles ==
  \A s \in Ids : Due(sched[s].status) ~> (~Due(sched[s].status) \/ [](recovery /\ actor = "live"))

\* "Work in flight is different: an agent that was three tool calls into a
\* task should not wait for a command or an open browser tab before it
\* continues" (recovery.go): a plan to continue a turn is carried out.
PlanCarriedOut == (recovery /\ actor = "live") ~> ~recovery
=============================================================================
