--------------------------- MODULE SchedulesProofs ---------------------------
(***************************************************************************)
(* Proofs about Schedules, for every set of schedules, every grace and any  *)
(* number of instructions, incidents and crashes: that nothing is sent      *)
(* oftener than asked for, that the scheduler's index agrees with the log,  *)
(* and that what was picked up in time is never called missed.              *)
(***************************************************************************)
EXTENDS Schedules, TLAPS

-----------------------------------------------------------------------------
(* The inductive invariant.                                                 *)

Entry == [status : Statuses, due : Nat, rev : Nat, turn : Nat]
SchedTypes == /\ sched \in [Ids -> Entry]
              /\ index \in [Ids -> [status : Statuses, due : Nat]]
AskTypes   == asked \in [Ids -> Nat] /\ handed \in [Ids -> Nat] /\ waiting \subseteq Ids
TurnTypes  == /\ open \in Nat /\ active \in Nat /\ born \in Nat
              /\ row \in {"idle", "turn"} /\ queued \in BOOLEAN /\ asking \in BOOLEAN
JobTypes ==
  /\ pc \in {"loop", "tick", "free", "phase", "sending", "tail"}
  /\ job \in [id : Ids \cup {NoId}, then : {"loop", "tail"}]
  /\ todo \subseteq Ids /\ picked \subseteq Ids
  /\ actor \in {"none", "viewed", "live"}
HostTypes ==
  /\ clock \in 0..MaxClock /\ recovery \in BOOLEAN /\ recover \in BOOLEAN
  /\ worker \in [pc : {"idle", "view", "tick"}, now : 0..MaxClock]
  /\ getter \in [pc : {"none", "list", "get", "activate", "prompt"},
                 phase : {"idle", "turn"}, why : {"boot", "prompt"}]
  /\ incidents \in 0..MaxIncidents /\ crashes \in 0..MaxCrashes

\* The actor's turn is the open one, and there is one while it is being started.
OpenOK ==
  /\ active # 0 => open = active
  /\ pc \in {"phase", "sending"} => open # 0

\* What the actor is about to send is due, and only a tick has anything to send.
JobOK ==
  /\ pc = "free" => job.id \in Ids /\ Due(sched[job.id].status)
  /\ pc \in {"tick", "free"} => \A s \in todo : Due(sched[s].status)

\* A due schedule has no turn, so none that ends can fail it.
TurnOK == \A s \in Ids : Due(sched[s].status) => sched[s].turn = 0

\* A schedule that is due, or on its way to the provider, has been asked for
\* once oftener than it was sent.
InFlight(s) == pc \in {"phase", "sending"} /\ job.id = s
SpentOK ==
  \A s \in Ids :
    /\ handed[s] <= asked[s]
    /\ Due(sched[s].status) \/ InFlight(s) => handed[s] < asked[s]
    /\ InFlight(s) => ~Due(sched[s].status)

\* What this server picked up in time it neither asks about again nor gives up.
WaitOK == \A s \in waiting : s \in picked /\ sched[s].status \notin {"pending", "missed"}

LogOK == JobOK /\ TurnOK /\ SpentOK /\ IndexAgrees /\ WaitOK

IInv == /\ SchedTypes /\ AskTypes /\ TurnTypes /\ JobTypes /\ HostTypes
        /\ OpenOK /\ LogOK

-----------------------------------------------------------------------------
(* Lemmas about what the log's events do to the projection and its index.   *)

\* An entry is never anything else.
LEMMA EntryUpdates ==
  ASSUME NEW e \in Entry, NEW t \in Nat
  PROVE  /\ [e EXCEPT !.status = "sent", !.turn = t, !.rev = @ + 1] \in Entry
         /\ [e EXCEPT !.status = "sent", !.turn = t, !.rev = @ + 1].status = "sent"
         /\ [e EXCEPT !.status = "failed", !.rev = @ + 1] \in Entry
         /\ [e EXCEPT !.status = "failed", !.rev = @ + 1].status = "failed"
<1>1. e.rev + 1 \in Nat
  BY  DEF Entry
<1>2. [e EXCEPT !.status = "sent", !.turn = t, !.rev = @ + 1] \in Entry
  BY <1>1 DEF Entry, Statuses
<1>3. [e EXCEPT !.status = "failed", !.rev = @ + 1] \in Entry
  BY <1>1 DEF Entry, Statuses
<1>4. [e EXCEPT !.status = "sent", !.turn = t, !.rev = @ + 1].status = "sent"
  OBVIOUS
<1>5. [e EXCEPT !.status = "failed", !.rev = @ + 1].status = "failed"
  OBVIOUS
<1> QED
  BY <1>2, <1>3, <1>4, <1>5

\* PromptScheduled replaces the entry in both.
LEMMA ScheduledEffect ==
  ASSUME SchedTypes, NEW s \in Ids, NEW status \in Statuses, NEW due \in Nat,
         Scheduled(s, status, due)
  PROVE  /\ sched' \in [Ids -> Entry] /\ index' \in [Ids -> [status : Statuses, due : Nat]]
         /\ sched'[s].status = status /\ sched'[s].due = due /\ sched'[s].turn = 0
         /\ index'[s].status = status /\ index'[s].due = due
         /\ \A r \in Ids : r # s => sched'[r] = sched[r] /\ index'[r] = index[r]
<1> DEFINE new == [status |-> status, due |-> due, rev |-> sched[s].rev + 1, turn |-> 0]
<1>1. sched' = [sched EXCEPT ![s] = new] /\ new \in Entry
  BY  DEF Scheduled, SchedTypes, Entry
<1>2. index' = [index EXCEPT ![s] = [status |-> status, due |-> due]]
  BY  DEF Scheduled
<1> QED
  BY <1>1, <1>2 DEF SchedTypes

\* TurnStarted marks its schedule sent in both.
LEMMA SentEffect ==
  ASSUME SchedTypes, NEW s \in Ids, NEW t \in Nat, Sent(s, t)
  PROVE  /\ sched' \in [Ids -> Entry] /\ index' \in [Ids -> [status : Statuses, due : Nat]]
         /\ sched'[s].status = "sent" /\ index'[s].status = "sent"
         /\ \A r \in Ids : r # s => sched'[r] = sched[r] /\ index'[r] = index[r]
<1> DEFINE new == [sched[s] EXCEPT !.status = "sent", !.turn = t, !.rev = @ + 1]
<1>1. sched' = [sched EXCEPT ![s] = new]
  BY  DEF Sent, SchedTypes
<1>2. new \in Entry /\ new.status = "sent"
  BY EntryUpdates DEF SchedTypes
<1>3. index' = [index EXCEPT ![s] = [index[s] EXCEPT !.status = "sent"]]
  BY  DEF Sent, SchedTypes
<1>4. [index[s] EXCEPT !.status = "sent"] \in [status : Statuses, due : Nat]
      /\ [index[s] EXCEPT !.status = "sent"].status = "sent"
  BY  DEF SchedTypes, Statuses
<1> HIDE DEF new
<1> QED
  BY <1>1, <1>2, <1>3, <1>4 DEF SchedTypes

\* What the end of a turn leaves of the projection's list: what was due is as it
\* was, and nothing becomes due.
Spares == /\ sched' \in [Ids -> Entry]
          /\ \A s \in Ids : \/ sched'[s] = sched[s]
                            \/ ~Due(sched[s].status) /\ sched'[s].status = "failed"

LEMMA FinishedSpares ==
  ASSUME SchedTypes, TurnOK, open \in Nat, NEW stop, open # 0 \/ stop # "error", Finished(stop)
  PROVE  Spares /\ open' = 0 /\ active' = 0 /\ row' = "idle"
<1>1. CASE sched' = sched
  BY <1>1 DEF Spares, SchedTypes, Finished
<1>2. CASE sched' = Fold(open) /\ open # 0
  <2>1. ASSUME NEW s \in Ids
        PROVE  /\ sched'[s] \in Entry
               /\ sched'[s] = sched[s]
                  \/ (~Due(sched[s].status) /\ sched'[s].status = "failed")
    <3>1. CASE sched[s].turn # open
      BY <1>2, <3>1 DEF Fold, SchedTypes
    <3>2. CASE sched[s].turn = open /\ open # 0
      <4>1. sched'[s] = [sched[s] EXCEPT !.status = "failed", !.rev = @ + 1]
        BY <1>2, <3>2 DEF Fold
      <4>2. sched'[s] \in Entry /\ sched'[s].status = "failed"
        BY <4>1, EntryUpdates DEF SchedTypes
      <4>3. ~Due(sched[s].status)
        BY <3>2 DEF TurnOK
      <4> QED
        BY <4>2, <4>3
    <3> QED
      BY <3>1, <3>2, <1>2
  <2>2. sched' = [s \in Ids |-> sched'[s]]
    BY <1>2 DEF Fold
  <2> QED
    BY <2>1, <2>2 DEF Spares, Finished
<1> QED
  BY <1>1, <1>2 DEF Finished

\* cmdActivate leaves what is due alone.
LEMMA ActivatedEffect ==
  ASSUME SchedTypes, TurnOK, TurnTypes, Activated
  PROVE  /\ Spares /\ actor' = "live" /\ row' \in {"idle", "turn"}
         /\ \/ open' = 0 /\ active' = 0
            \/ open' = open /\ active' = active
<1>1. CASE open # 0
  BY <1>1, FinishedSpares DEF Activated, TurnTypes
<1>2. CASE open = 0
  BY <1>2 DEF Activated, TurnTypes, Spares, SchedTypes
<1> QED
  BY <1>1, <1>2

\* A turn that starts takes at most its own schedule with it.
LEMMA StartEffect ==
  ASSUME SchedTypes, TurnTypes, NEW s \in Ids \cup {NoId}, NEW then \in {"loop", "tail"},
         Start(s, then)
  PROVE  /\ born' \in Nat /\ open' = born + 1 /\ open' # 0 /\ open' \in Nat /\ active' = open'
         /\ pc' = "phase" /\ job' = [id |-> s, then |-> then] /\ job'.id = s
         /\ SchedTypes'
         /\ \A r \in Ids : r # s => sched'[r] = sched[r] /\ index'[r] = index[r]
         /\ s \in Ids => sched'[s].status = "sent" /\ index'[s].status = "sent"
<1>1. CASE s \in Ids
  BY <1>1, SentEffect DEF Start, TurnTypes, SchedTypes
<1>2. CASE s \notin Ids
  BY <1>2 DEF Start, TurnTypes, SchedTypes
<1> QED
  BY <1>1, <1>2

-----------------------------------------------------------------------------
(* Types.                                                                   *)

LEMMA SchedTypesStep ==
  ASSUME IInv, [Next]_vars
  PROVE  SchedTypes'
<1>1. ASSUME NEW s \in Ids, Instruct(s) PROVE SchedTypes'
  BY <1>1, ScheduledEffect
  DEF Instruct, Viewed, SendNow, CancelSchedule, Schedule, Ask, Touchable, logVars,
    actorVars, hostVars, boundVars, history, IInv, LogOK, SchedTypes, TurnTypes, OpenOK,
    Statuses, HostTypes, Entry
<1>2. CASE Prompt
  BY <1>2, FinishedSpares
  DEF Prompt, Incident, logVars, actorVars, hostVars, boundVars, history, IInv, LogOK,
    SchedTypes, TurnTypes, OpenOK, Spares
<1>3. CASE Tail
  BY <1>3, StartEffect
  DEF Tail, logVars, actorVars, hostVars, boundVars, history, IInv, LogOK, SchedTypes,
    TurnTypes, OpenOK
<1>4. ASSUME NEW s \in Ids, Consider(s) PROVE SchedTypes'
  BY <1>4, ScheduledEffect
  DEF Consider, Done, Incident, TooLate, PickedUp, Earliest, logVars, actorVars, hostVars,
    boundVars, history, IInv, LogOK, SchedTypes, TurnTypes, OpenOK, JobTypes, JobOK,
    Statuses, Entry
<1>5. CASE TickActivates
  BY <1>5, ScheduledEffect, ActivatedEffect
  DEF TickActivates, Incident, FailSchedule, Done, logVars, actorVars, hostVars, boundVars,
    history, IInv, LogOK, SchedTypes, TurnTypes, OpenOK, Spares, JobOK, JobTypes, Statuses,
    Entry
<1>6. CASE TickStarts
  BY <1>6, ScheduledEffect, StartEffect
  DEF TickStarts, Incident, FailSchedule, Done, logVars, actorVars, hostVars, boundVars,
    history, IInv, LogOK, SchedTypes, TurnTypes, OpenOK, JobOK, JobTypes, Statuses, Entry
<1>7. CASE GetActivates
  BY <1>7, ActivatedEffect
  DEF GetActivates, Incident, logVars, actorVars, hostVars, boundVars, history, IInv, LogOK,
    SchedTypes, TurnTypes, OpenOK, Spares
<1>8. CASE PromptArrives
  BY <1>8, StartEffect
  DEF PromptArrives, logVars, actorVars, hostVars, boundVars, history, IInv, LogOK,
    SchedTypes, TurnTypes, OpenOK
<1>9. CASE Continue
  BY <1>9, StartEffect
  DEF Continue, logVars, actorVars, hostVars, boundVars, history, IInv, LogOK, SchedTypes,
    TurnTypes, OpenOK
<1>10. CASE TurnEnds
  BY <1>10, FinishedSpares
  DEF TurnEnds, logVars, actorVars, hostVars, boundVars, history, IInv, LogOK, SchedTypes,
    TurnTypes, OpenOK, Spares
<1>11. CASE Stop
  BY <1>11, FinishedSpares
  DEF Stop, logVars, actorVars, hostVars, boundVars, history, IInv, LogOK, SchedTypes,
    TurnTypes, OpenOK, Spares
<1>12. CASE HarnessExit
  BY <1>12, FinishedSpares
  DEF HarnessExit, Incident, logVars, actorVars, hostVars, boundVars, history, IInv, LogOK,
    SchedTypes, TurnTypes, OpenOK, Spares
<1>13. CASE UNCHANGED <<sched, index>>
  BY <1>13 DEF IInv, LogOK, SchedTypes
<1> QED
  BY <1>1, <1>2, <1>3, <1>4, <1>5, <1>6, <1>7, <1>8, <1>9, <1>10, <1>11, <1>12, <1>13
  DEF Next, Handler, Scheduler, Getter, vars, logVars, actorVars, hostVars, boundVars,
    history, WritePhase, TickEnds, TickSkips, Lookup, View, Tick, BootList, Get, Advance,
    Asks, Answered, SendPrompt, Crash

LEMMA AskTypesStep ==
  ASSUME IInv, [Next]_vars
  PROVE  AskTypes'
<1>1. ASSUME NEW s \in Ids, Instruct(s) PROVE AskTypes'
  BY <1>1
  DEF Instruct, Viewed, SendNow, CancelSchedule, Schedule, Ask, Touchable, logVars,
    actorVars, hostVars, boundVars, history, IInv, LogOK, AskTypes, JobTypes
<1>2. CASE Prompt
  BY <1>2
  DEF Prompt, Incident, logVars, actorVars, hostVars, boundVars, history, IInv, LogOK,
    AskTypes, JobTypes
<1>3. ASSUME NEW s \in Ids, Consider(s) PROVE AskTypes'
  BY <1>3
  DEF Consider, Done, Incident, TooLate, PickedUp, Earliest, logVars, actorVars, hostVars,
    boundVars, history, IInv, LogOK, AskTypes, JobTypes
<1>4. CASE TickStarts
  BY <1>4
  DEF TickStarts, Incident, FailSchedule, Done, logVars, actorVars, hostVars, boundVars,
    history, IInv, LogOK, AskTypes, JobTypes
<1>5. CASE Crash
  BY <1>5
  DEF Crash, logVars, actorVars, hostVars, boundVars, history, IInv, LogOK, AskTypes,
    JobTypes
<1>6. CASE UNCHANGED <<asked, handed, waiting>>
  BY <1>6 DEF IInv, LogOK, AskTypes
<1> QED
  BY <1>1, <1>2, <1>3, <1>4, <1>5, <1>6
  DEF Next, Handler, Scheduler, Getter, vars, logVars, actorVars, hostVars, boundVars,
    history, WritePhase, Tail, TickEnds, TickActivates, TickSkips, Lookup, View, Tick,
    BootList, Get, GetActivates, PromptArrives, Continue, Advance, TurnEnds, Asks, Answered,
    Stop, SendPrompt, HarnessExit

LEMMA TurnTypesStep ==
  ASSUME IInv, [Next]_vars
  PROVE  TurnTypes'
<1>1. CASE WritePhase
  BY <1>1
  DEF WritePhase, logVars, actorVars, hostVars, boundVars, history, IInv, LogOK, TurnTypes,
    OpenOK, JobOK, JobTypes
<1>2. CASE Prompt
  BY <1>2, FinishedSpares
  DEF Prompt, Incident, logVars, actorVars, hostVars, boundVars, history, IInv, LogOK,
    TurnTypes, OpenOK, JobOK, JobTypes
<1>3. CASE Tail
  BY <1>3, StartEffect
  DEF Tail, logVars, actorVars, hostVars, boundVars, history, IInv, LogOK, TurnTypes,
    OpenOK, JobOK, JobTypes
<1>4. CASE TickActivates
  <2>3. queued' \in BOOLEAN /\ asking' \in BOOLEAN
    BY <1>4 DEF TickActivates, Activated, FailSchedule, IInv, LogOK, TurnTypes
  <2>1. CASE Activated
    BY <1>4, <2>1, ActivatedEffect, <2>3 DEF TickActivates, IInv, LogOK, TurnTypes
  <2>2. CASE UNCHANGED <<open, row, asking, actor, active>>
    BY <1>4, <2>2, <2>3 DEF TickActivates, IInv, LogOK, TurnTypes
  <2> QED
    BY <1>4, <2>1, <2>2 DEF TickActivates
<1>5. CASE TickStarts
  BY <1>5, StartEffect
  DEF TickStarts, Incident, FailSchedule, Done, logVars, actorVars, hostVars, boundVars,
    history, IInv, LogOK, TurnTypes, OpenOK, JobOK, JobTypes
<1>6. CASE GetActivates
  <2>3. queued' \in BOOLEAN /\ asking' \in BOOLEAN
    BY <1>6 DEF GetActivates, Activated, IInv, LogOK, TurnTypes
  <2>1. CASE Activated
    BY <1>6, <2>1, ActivatedEffect, <2>3 DEF GetActivates, boundVars, IInv, LogOK, TurnTypes
  <2>2. CASE UNCHANGED <<actor, asking, open, active, row, sched>>
    BY <1>6, <2>2, <2>3 DEF GetActivates, IInv, LogOK, TurnTypes
  <2> QED
    BY <1>6, <2>1, <2>2 DEF GetActivates
<1>7. CASE PromptArrives
  BY <1>7, StartEffect
  DEF PromptArrives, logVars, actorVars, hostVars, boundVars, history, IInv, LogOK,
    TurnTypes, OpenOK, JobOK, JobTypes
<1>8. CASE Continue
  BY <1>8, StartEffect
  DEF Continue, logVars, actorVars, hostVars, boundVars, history, IInv, LogOK, TurnTypes,
    OpenOK, JobOK, JobTypes
<1>9. CASE TurnEnds
  BY <1>9, FinishedSpares
  DEF TurnEnds, logVars, actorVars, hostVars, boundVars, history, IInv, LogOK, TurnTypes,
    OpenOK, JobOK, JobTypes
<1>10. CASE Asks
  BY <1>10
  DEF Asks, Incident, logVars, actorVars, hostVars, boundVars, history, IInv, LogOK,
    TurnTypes, OpenOK, JobOK, JobTypes
<1>11. CASE Answered
  BY <1>11
  DEF Answered, logVars, actorVars, hostVars, boundVars, history, IInv, LogOK, TurnTypes,
    OpenOK, JobOK, JobTypes
<1>12. CASE Stop
  <2>3. queued' \in BOOLEAN /\ asking' \in BOOLEAN
    BY <1>12 DEF Stop, IInv, LogOK, TurnTypes
  <2>1. CASE active # 0
    BY <1>12, <2>1, FinishedSpares, <2>3 DEF Stop, boundVars, IInv, LogOK, TurnTypes
  <2>2. CASE active = 0
    BY <1>12, <2>2, <2>3 DEF Stop, boundVars, IInv, LogOK, TurnTypes
  <2> QED
    BY <1>12, <2>1, <2>2
<1>13. CASE HarnessExit
  <2>3. queued' \in BOOLEAN /\ asking' \in BOOLEAN
    BY <1>13 DEF HarnessExit, IInv, LogOK, TurnTypes
  <2>1. CASE open # 0
    BY <1>13, <2>1, FinishedSpares, <2>3 DEF HarnessExit, IInv, LogOK, TurnTypes
  <2>2. CASE open = 0
    BY <1>13, <2>2, <2>3 DEF HarnessExit, IInv, LogOK, TurnTypes
  <2> QED
    BY <1>13, <2>1, <2>2
<1>14. CASE Crash
  BY <1>14
  DEF Crash, logVars, actorVars, hostVars, boundVars, history, IInv, LogOK, TurnTypes,
    OpenOK, JobOK, JobTypes
<1>15. CASE View
  BY <1>15
  DEF View, Viewed, logVars, actorVars, hostVars, boundVars, history, IInv, LogOK,
    TurnTypes, OpenOK, JobOK, JobTypes
<1>16. CASE Get
  BY <1>16
  DEF Get, Viewed, logVars, actorVars, hostVars, boundVars, history, IInv, LogOK, TurnTypes,
    OpenOK, JobOK, JobTypes
<1>17. ASSUME NEW s \in Ids, Instruct(s) PROVE TurnTypes'
  BY <1>17
  DEF Instruct, Viewed, SendNow, CancelSchedule, Schedule, Ask, Touchable, logVars,
    actorVars, hostVars, boundVars, history, IInv, LogOK, TurnTypes, OpenOK, JobOK, JobTypes
<1>18. CASE UNCHANGED <<open, active, born, row, queued, asking>>
  BY <1>18 DEF IInv, LogOK, TurnTypes
<1> QED
  BY <1>1, <1>2, <1>3, <1>4, <1>5, <1>6, <1>7, <1>8, <1>9, <1>10, <1>11, <1>12, <1>13,
    <1>14, <1>15, <1>16, <1>17, <1>18
  DEF Next, Handler, Scheduler, Getter, vars, logVars, actorVars, hostVars, boundVars,
    history, TickEnds, Consider, TickSkips, Lookup, Tick, BootList, Advance, SendPrompt

LEMMA JobTypesStep ==
  ASSUME IInv, [Next]_vars
  PROVE  JobTypes'
<1>1. ASSUME NEW s \in Ids, Instruct(s) PROVE JobTypes'
  BY <1>1
  DEF Instruct, Viewed, SendNow, CancelSchedule, Schedule, Ask, Touchable, logVars,
    actorVars, hostVars, boundVars, history, IInv, LogOK, JobTypes, JobOK, NoJob, TurnTypes
<1>2. CASE WritePhase
  BY <1>2
  DEF WritePhase, logVars, actorVars, hostVars, boundVars, history, IInv, LogOK, JobTypes,
    JobOK, NoJob, TurnTypes
<1>3. CASE Prompt
  BY <1>3, FinishedSpares
  DEF Prompt, Incident, logVars, actorVars, hostVars, boundVars, history, IInv, LogOK,
    JobTypes, JobOK, NoJob, TurnTypes
<1>4. CASE Tail
  BY <1>4, StartEffect
  DEF Tail, logVars, actorVars, hostVars, boundVars, history, IInv, LogOK, JobTypes, JobOK,
    NoJob, TurnTypes
<1>5. CASE TickEnds
  BY <1>5
  DEF TickEnds, Done, logVars, actorVars, hostVars, boundVars, history, IInv, LogOK,
    JobTypes, JobOK, NoJob, TurnTypes
<1>6. ASSUME NEW s \in Ids, Consider(s) PROVE JobTypes'
  BY <1>6
  DEF Consider, Done, Incident, TooLate, PickedUp, Earliest, logVars, actorVars, hostVars,
    boundVars, history, IInv, LogOK, JobTypes, JobOK, NoJob, TurnTypes
<1>7. CASE TickActivates
  <2>1. CASE Activated
    BY <1>7, <2>1, ActivatedEffect DEF TickActivates, IInv, LogOK, TurnTypes, JobTypes
  <2>2. CASE UNCHANGED <<open, row, asking, actor, active>>
    BY <1>7, <2>2 DEF TickActivates, FailSchedule, Done, NoJob, IInv, LogOK, JobTypes
  <2> QED
    BY <1>7, <2>1, <2>2 DEF TickActivates
<1>8. CASE TickSkips
  BY <1>8
  DEF TickSkips, logVars, actorVars, hostVars, boundVars, history, IInv, LogOK, JobTypes,
    JobOK, NoJob, TurnTypes
<1>9. CASE TickStarts
  BY <1>9, StartEffect
  DEF TickStarts, Incident, FailSchedule, Done, logVars, actorVars, hostVars, boundVars,
    history, IInv, LogOK, JobTypes, JobOK, NoJob, TurnTypes
<1>10. CASE View
  BY <1>10
  DEF View, Viewed, logVars, actorVars, hostVars, boundVars, history, IInv, LogOK, JobTypes,
    JobOK, NoJob, TurnTypes
<1>11. CASE Tick
  BY <1>11
  DEF Tick, logVars, actorVars, hostVars, boundVars, history, IInv, LogOK, JobTypes, JobOK,
    NoJob, TurnTypes
<1>12. CASE Get
  BY <1>12
  DEF Get, Viewed, logVars, actorVars, hostVars, boundVars, history, IInv, LogOK, JobTypes,
    JobOK, NoJob, TurnTypes
<1>13. CASE GetActivates
  BY <1>13, ActivatedEffect
  DEF GetActivates, Incident, logVars, actorVars, hostVars, boundVars, history, IInv, LogOK,
    JobTypes, JobOK, NoJob, TurnTypes
<1>14. CASE PromptArrives
  BY <1>14, StartEffect
  DEF PromptArrives, logVars, actorVars, hostVars, boundVars, history, IInv, LogOK,
    JobTypes, JobOK, NoJob, TurnTypes
<1>15. CASE Continue
  BY <1>15, StartEffect
  DEF Continue, logVars, actorVars, hostVars, boundVars, history, IInv, LogOK, JobTypes,
    JobOK, NoJob, TurnTypes
<1>16. CASE TurnEnds
  BY <1>16, FinishedSpares
  DEF TurnEnds, logVars, actorVars, hostVars, boundVars, history, IInv, LogOK, JobTypes,
    JobOK, NoJob, TurnTypes
<1>17. CASE Stop
  BY <1>17, FinishedSpares
  DEF Stop, logVars, actorVars, hostVars, boundVars, history, IInv, LogOK, JobTypes, JobOK,
    NoJob, TurnTypes
<1>18. CASE HarnessExit
  BY <1>18, FinishedSpares
  DEF HarnessExit, Incident, logVars, actorVars, hostVars, boundVars, history, IInv, LogOK,
    JobTypes, JobOK, NoJob, TurnTypes
<1>19. CASE Crash
  BY <1>19
  DEF Crash, logVars, actorVars, hostVars, boundVars, history, IInv, LogOK, JobTypes, JobOK,
    NoJob, TurnTypes
<1>20. CASE UNCHANGED <<pc, job, todo, picked, actor>>
  BY <1>20 DEF IInv, LogOK, JobTypes
<1> QED
  BY <1>1, <1>2, <1>3, <1>4, <1>5, <1>6, <1>7, <1>8, <1>9, <1>10, <1>11, <1>12, <1>13,
    <1>14, <1>15, <1>16, <1>17, <1>18, <1>19, <1>20
  DEF Next, Handler, Scheduler, Getter, vars, logVars, actorVars, hostVars, boundVars,
    history, Lookup, BootList, Advance, Asks, Answered, SendPrompt

LEMMA HostTypesStep ==
  ASSUME IInv, [Next]_vars
  PROVE  HostTypes'
<1>1. ASSUME NEW s \in Ids, Instruct(s) PROVE HostTypes'
  BY <1>1, ScheduleConstants
  DEF Instruct, Viewed, SendNow, CancelSchedule, Schedule, Ask, Touchable, logVars,
    actorVars, hostVars, boundVars, history, IInv, LogOK, HostTypes, TurnTypes, NoGetter
<1>2. CASE Prompt
  BY <1>2, ScheduleConstants
  DEF Prompt, Incident, logVars, actorVars, hostVars, boundVars, history, IInv, LogOK,
    HostTypes, TurnTypes, NoGetter
<1>3. CASE TickEnds
  BY <1>3, ScheduleConstants
  DEF TickEnds, Done, logVars, actorVars, hostVars, boundVars, history, IInv, LogOK,
    HostTypes, TurnTypes, NoGetter
<1>4. ASSUME NEW s \in Ids, Consider(s) PROVE HostTypes'
  BY <1>4, ScheduleConstants
  DEF Consider, Done, Incident, TooLate, PickedUp, Earliest, logVars, actorVars, hostVars,
    boundVars, history, IInv, LogOK, HostTypes, TurnTypes, NoGetter
<1>5. CASE TickActivates
  BY <1>5, ScheduleConstants
  DEF TickActivates, Incident, FailSchedule, Done, logVars, actorVars, hostVars, boundVars,
    history, IInv, LogOK, HostTypes, TurnTypes, NoGetter
<1>6. CASE TickStarts
  BY <1>6, ScheduleConstants
  DEF TickStarts, Incident, FailSchedule, Done, logVars, actorVars, hostVars, boundVars,
    history, IInv, LogOK, HostTypes, TurnTypes, NoGetter
<1>7. CASE Lookup
  BY <1>7, ScheduleConstants
  DEF Lookup, logVars, actorVars, hostVars, boundVars, history, IInv, LogOK, HostTypes,
    TurnTypes, NoGetter
<1>8. CASE View
  BY <1>8, ScheduleConstants
  DEF View, Viewed, logVars, actorVars, hostVars, boundVars, history, IInv, LogOK,
    HostTypes, TurnTypes, NoGetter
<1>9. CASE Tick
  BY <1>9, ScheduleConstants
  DEF Tick, logVars, actorVars, hostVars, boundVars, history, IInv, LogOK, HostTypes,
    TurnTypes, NoGetter
<1>10. CASE BootList
  BY <1>10, ScheduleConstants
  DEF BootList, logVars, actorVars, hostVars, boundVars, history, IInv, LogOK, HostTypes,
    TurnTypes, NoGetter
<1>11. CASE Get
  BY <1>11, ScheduleConstants
  DEF Get, Viewed, logVars, actorVars, hostVars, boundVars, history, IInv, LogOK, HostTypes,
    TurnTypes, NoGetter
<1>12. CASE GetActivates
  <2>1. recover' \in BOOLEAN
    BY <1>12 DEF GetActivates, IInv, LogOK, HostTypes
  <2>2. getter' \in [pc : {"none", "list", "get", "activate", "prompt"},
                    phase : {"idle", "turn"}, why : {"boot", "prompt"}]
    BY <1>12 DEF GetActivates, NoGetter, IInv, LogOK, HostTypes
  <2>3. incidents' \in 0..MaxIncidents
    BY <1>12, ScheduleConstants DEF GetActivates, Incident, IInv, LogOK, HostTypes
  <2>4. UNCHANGED <<clock, worker, crashes, recovery>>
    BY <1>12 DEF GetActivates
  <2> QED
    BY <2>1, <2>2, <2>3, <2>4 DEF IInv, LogOK, HostTypes
<1>13. CASE PromptArrives
  BY <1>13, ScheduleConstants
  DEF PromptArrives, logVars, actorVars, hostVars, boundVars, history, IInv, LogOK,
    HostTypes, TurnTypes, NoGetter
<1>14. CASE Continue
  BY <1>14, ScheduleConstants
  DEF Continue, logVars, actorVars, hostVars, boundVars, history, IInv, LogOK, HostTypes,
    TurnTypes, NoGetter
<1>15. CASE Advance
  BY <1>15, ScheduleConstants
  DEF Advance, logVars, actorVars, hostVars, boundVars, history, IInv, LogOK, HostTypes,
    TurnTypes, NoGetter
<1>16. CASE Asks
  BY <1>16, ScheduleConstants
  DEF Asks, Incident, logVars, actorVars, hostVars, boundVars, history, IInv, LogOK,
    HostTypes, TurnTypes, NoGetter
<1>17. CASE Stop
  BY <1>17, ScheduleConstants
  DEF Stop, logVars, actorVars, hostVars, boundVars, history, IInv, LogOK, HostTypes,
    TurnTypes, NoGetter
<1>18. CASE SendPrompt
  BY <1>18, ScheduleConstants
  DEF SendPrompt, Incident, logVars, actorVars, hostVars, boundVars, history, IInv, LogOK,
    HostTypes, TurnTypes, NoGetter
<1>19. CASE HarnessExit
  <2>1. recovery' \in BOOLEAN
    BY <1>19 DEF HarnessExit
  <2>2. incidents' \in 0..MaxIncidents
    BY <1>19, ScheduleConstants DEF HarnessExit, Incident, IInv, LogOK, HostTypes
  <2>3. UNCHANGED <<clock, worker, getter, recover, crashes>>
    BY <1>19 DEF HarnessExit, hostVars
  <2> QED
    BY <2>1, <2>2, <2>3 DEF IInv, LogOK, HostTypes
<1>20. CASE Crash
  <2>1. recovery' \in BOOLEAN /\ recover' \in BOOLEAN
    BY <1>20 DEF Crash
  <2>2. crashes' \in 0..MaxCrashes /\ 0 \in 0..MaxClock
    BY <1>20, ScheduleConstants DEF Crash, IInv, LogOK, HostTypes
  <2>3. worker' = [pc |-> "idle", now |-> 0]
        /\ getter' = [pc |-> "list", phase |-> "idle", why |-> "boot"]
    BY <1>20 DEF Crash
  <2>4. UNCHANGED <<clock, incidents>>
    BY <1>20 DEF Crash
  <2> QED
    BY <2>1, <2>2, <2>3, <2>4 DEF IInv, LogOK, HostTypes
<1>21. CASE UNCHANGED <<clock, recovery, recover, worker, getter, incidents, crashes>>
  BY <1>21 DEF IInv, LogOK, HostTypes
<1> QED
  BY <1>1, <1>2, <1>3, <1>4, <1>5, <1>6, <1>7, <1>8, <1>9, <1>10, <1>11, <1>12, <1>13,
    <1>14, <1>15, <1>16, <1>17, <1>18, <1>19, <1>20, <1>21
  DEF Next, Handler, Scheduler, Getter, vars, logVars, actorVars, hostVars, boundVars,
    history, WritePhase, Tail, TickSkips, TurnEnds, Answered

LEMMA OpenStep ==
  ASSUME IInv, [Next]_vars
  PROVE  OpenOK'
<1>1. ASSUME NEW s \in Ids, Instruct(s) PROVE OpenOK'
  BY <1>1
  DEF Instruct, Viewed, SendNow, CancelSchedule, Schedule, Ask, Touchable, logVars,
    actorVars, hostVars, boundVars, history, IInv, LogOK, OpenOK, TurnTypes, JobTypes, JobOK
<1>2. CASE WritePhase
  BY <1>2
  DEF WritePhase, logVars, actorVars, hostVars, boundVars, history, IInv, LogOK, OpenOK,
    TurnTypes, JobTypes, JobOK
<1>3. CASE Prompt
  BY <1>3, FinishedSpares
  DEF Prompt, Incident, logVars, actorVars, hostVars, boundVars, history, IInv, LogOK,
    OpenOK, TurnTypes, JobTypes, JobOK
<1>4. CASE Tail
  BY <1>4, StartEffect
  DEF Tail, logVars, actorVars, hostVars, boundVars, history, IInv, LogOK, OpenOK,
    TurnTypes, JobTypes, JobOK
<1>5. CASE TickEnds
  BY <1>5
  DEF TickEnds, Done, logVars, actorVars, hostVars, boundVars, history, IInv, LogOK, OpenOK,
    TurnTypes, JobTypes, JobOK
<1>6. ASSUME NEW s \in Ids, Consider(s) PROVE OpenOK'
  BY <1>6
  DEF Consider, Done, Incident, TooLate, PickedUp, Earliest, logVars, actorVars, hostVars,
    boundVars, history, IInv, LogOK, OpenOK, TurnTypes, JobTypes, JobOK
<1>7. CASE TickActivates
  BY <1>7, ActivatedEffect
  DEF TickActivates, Incident, FailSchedule, Done, logVars, actorVars, hostVars, boundVars,
    history, IInv, LogOK, OpenOK, TurnTypes, JobTypes, JobOK
<1>8. CASE TickSkips
  BY <1>8
  DEF TickSkips, logVars, actorVars, hostVars, boundVars, history, IInv, LogOK, OpenOK,
    TurnTypes, JobTypes, JobOK
<1>9. CASE TickStarts
  BY <1>9, StartEffect
  DEF TickStarts, Incident, FailSchedule, Done, logVars, actorVars, hostVars, boundVars,
    history, IInv, LogOK, OpenOK, TurnTypes, JobTypes, JobOK
<1>10. CASE View
  BY <1>10
  DEF View, Viewed, logVars, actorVars, hostVars, boundVars, history, IInv, LogOK, OpenOK,
    TurnTypes, JobTypes, JobOK
<1>11. CASE Tick
  BY <1>11
  DEF Tick, logVars, actorVars, hostVars, boundVars, history, IInv, LogOK, OpenOK,
    TurnTypes, JobTypes, JobOK
<1>12. CASE Get
  BY <1>12
  DEF Get, Viewed, logVars, actorVars, hostVars, boundVars, history, IInv, LogOK, OpenOK,
    TurnTypes, JobTypes, JobOK
<1>13. CASE GetActivates
  BY <1>13, ActivatedEffect
  DEF GetActivates, Incident, logVars, actorVars, hostVars, boundVars, history, IInv, LogOK,
    OpenOK, TurnTypes, JobTypes, JobOK
<1>14. CASE PromptArrives
  BY <1>14, StartEffect
  DEF PromptArrives, logVars, actorVars, hostVars, boundVars, history, IInv, LogOK, OpenOK,
    TurnTypes, JobTypes, JobOK
<1>15. CASE Continue
  BY <1>15, StartEffect
  DEF Continue, logVars, actorVars, hostVars, boundVars, history, IInv, LogOK, OpenOK,
    TurnTypes, JobTypes, JobOK
<1>16. CASE TurnEnds
  BY <1>16, FinishedSpares
  DEF TurnEnds, logVars, actorVars, hostVars, boundVars, history, IInv, LogOK, OpenOK,
    TurnTypes, JobTypes, JobOK
<1>17. CASE Stop
  BY <1>17, FinishedSpares
  DEF Stop, logVars, actorVars, hostVars, boundVars, history, IInv, LogOK, OpenOK,
    TurnTypes, JobTypes, JobOK
<1>18. CASE HarnessExit
  BY <1>18, FinishedSpares
  DEF HarnessExit, Incident, logVars, actorVars, hostVars, boundVars, history, IInv, LogOK,
    OpenOK, TurnTypes, JobTypes, JobOK
<1>19. CASE Crash
  BY <1>19
  DEF Crash, logVars, actorVars, hostVars, boundVars, history, IInv, LogOK, OpenOK,
    TurnTypes, JobTypes, JobOK
<1>20. CASE UNCHANGED <<pc, open, active>>
  BY <1>20 DEF IInv, LogOK, OpenOK
<1> QED
  BY <1>1, <1>2, <1>3, <1>4, <1>5, <1>6, <1>7, <1>8, <1>9, <1>10, <1>11, <1>12, <1>13,
    <1>14, <1>15, <1>16, <1>17, <1>18, <1>19, <1>20
  DEF Next, Handler, Scheduler, Getter, vars, logVars, actorVars, hostVars, boundVars,
    history, Lookup, BootList, Advance, Asks, Answered, SendPrompt

-----------------------------------------------------------------------------
(* The parts of the invariant about the log, the index and who was asked.   *)

\* A step that tells the projection no more than that a turn ended.
Quiet ==
  /\ Spares /\ UNCHANGED <<index, asked, handed>>
  /\ waiting' \subseteq waiting /\ \A s \in waiting' : s \in picked'
  /\ pc' = "free" => pc = "free" /\ job' = job
  /\ pc' \in {"tick", "free"} => pc \in {"tick", "free"} /\ todo' \subseteq todo
  /\ pc' \in {"phase", "sending"} => pc \in {"phase", "sending"} /\ job' = job

LEMMA QuietKeeps ==
  ASSUME IInv, Quiet
  PROVE  LogOK'
<1>1. JobOK'
  <2>1. \A s \in Ids : Due(sched[s].status) => sched'[s] = sched[s]
    BY  DEF Quiet, Spares
  <2> QED
    BY <2>1 DEF Quiet, IInv, LogOK, JobOK, JobTypes, Due
<1>2. \A s \in Ids : Due(sched'[s].status) => sched'[s] = sched[s]
  BY  DEF Quiet, Spares, Due
<1>3. \A s \in Ids : Due(sched'[s].status) <=> Due(sched[s].status)
  BY  DEF Quiet, Spares, Due
<1>4. TurnOK' /\ IndexAgrees'
  BY <1>2, <1>3 DEF Quiet, IInv, LogOK, TurnOK, IndexAgrees, Due
<1>5. \A s \in Ids : InFlight(s)' => InFlight(s)
  BY  DEF Quiet, InFlight
<1>6. SpentOK'
  BY <1>3, <1>5 DEF Quiet, IInv, LogOK, SpentOK, Due
<1>7. WaitOK'
  BY  DEF Quiet, Spares, IInv, LogOK, WaitOK, AskTypes
<1> QED
  BY <1>1, <1>4, <1>6, <1>7 DEF LogOK

\* A turn that starts for a schedule takes it off the list, and is the one sending
\* it was owed.
LEMMA StartKeeps ==
  ASSUME IInv, NEW s \in Ids \cup {NoId}, NEW then \in {"loop", "tail"}, Start(s, then),
         s \in Ids => Due(sched[s].status),
         UNCHANGED <<asked, handed, picked>>, waiting' \subseteq waiting
  PROVE  LogOK'
<1>1. /\ pc' = "phase" /\ job'.id = s
      /\ \A r \in Ids : r # s => sched'[r] = sched[r] /\ index'[r] = index[r]
      /\ s \in Ids => sched'[s].status = "sent" /\ index'[s].status = "sent"
  BY StartEffect DEF IInv
<1>2. JobOK'
  BY <1>1 DEF JobOK
<1>3. TurnOK' /\ IndexAgrees'
  BY <1>1 DEF IInv, LogOK, TurnOK, IndexAgrees, Due
<1>4. SpentOK'
  BY <1>1 DEF IInv, LogOK, SpentOK, InFlight, Due
<1>5. WaitOK'
  BY <1>1 DEF IInv, LogOK, WaitOK, AskTypes
<1> QED
  BY <1>2, <1>3, <1>4, <1>5 DEF LogOK

\* PromptScheduled makes a schedule due only if it was, or somebody asks again.
LEMMA ScheduledKeeps ==
  ASSUME IInv, NEW s \in Ids, NEW status \in Statuses, NEW due \in Nat,
         Scheduled(s, status, due),
         pc \notin {"phase", "sending"}, pc' \notin {"phase", "sending"},
         handed' = handed, AskTypes',
         \A r \in Ids : r # s => asked'[r] = asked[r],
         asked'[s] >= asked[s],
         Due(status) => Due(sched[s].status) \/ asked'[s] > asked[s],
         \A r \in waiting' : r \in picked' /\ (r \in waiting \/ r = s),
         s \in waiting' => status \notin {"pending", "missed"},
         pc' \in {"tick", "free"} =>
           \A r \in todo' : Due(sched[r].status) /\ (r = s => Due(status)) /\ r \in Ids,
         pc' = "free" => job'.id = s /\ Due(status)
  PROVE  LogOK'
<1>1. /\ sched'[s].status = status /\ sched'[s].due = due /\ sched'[s].turn = 0
      /\ index'[s].status = status /\ index'[s].due = due
      /\ \A r \in Ids : r # s => sched'[r] = sched[r] /\ index'[r] = index[r]
  BY ScheduledEffect DEF IInv
<1>2. JobOK'
  BY <1>1 DEF JobOK, Due
<1>3. TurnOK' /\ IndexAgrees'
  BY <1>1 DEF IInv, LogOK, TurnOK, IndexAgrees, Due
<1>4. SpentOK'
  <2> SUFFICES ASSUME NEW r \in Ids
               PROVE  /\ handed'[r] <= asked'[r]
                      /\ Due(sched'[r].status) => handed'[r] < asked'[r]
    BY  DEF SpentOK, InFlight, Due
  <2>1. /\ handed[r] \in Nat /\ asked[r] \in Nat /\ asked'[r] \in Nat
        /\ handed[r] <= asked[r]
        /\ Due(sched[r].status) => handed[r] < asked[r]
    BY  DEF IInv, LogOK, SpentOK, AskTypes
  <2>2. CASE r = s
    BY <1>1, <2>1, <2>2
  <2>3. CASE r # s
    BY <1>1, <2>1, <2>3
  <2> QED
    BY <2>2, <2>3
<1>5. WaitOK'
  BY <1>1 DEF IInv, LogOK, WaitOK, AskTypes
<1> QED
  BY <1>2, <1>3, <1>4, <1>5 DEF LogOK

LEMMA InstructKeeps ==
  ASSUME IInv, NEW s \in Ids, Instruct(s)
  PROVE  LogOK'
<1>1. pc = "loop" /\ pc' = "tail" /\ handed' = handed /\ picked' = picked
  BY  DEF Instruct, hostVars
<1>2. AskTypes'
  BY AskTypesStep DEF Next
<1>3. CASE SendNow(s) \/ \E due \in 0..MaxClock : Schedule(s, due)
  <2>1. PICK status \in {"pending", "ready"}, due \in Nat : Scheduled(s, status, due)
    BY <1>3, ScheduleConstants DEF SendNow, Schedule, IInv, HostTypes
  <2>2. Ask(s)
    BY <1>3 DEF SendNow, Schedule
  <2>3. /\ asked'[s] = asked[s] + 1 /\ \A r \in Ids : r # s => asked'[r] = asked[r]
        /\ waiting' = waiting \ {s}
    BY <2>2 DEF Ask, IInv, AskTypes
  <2>4. asked[s] \in Nat /\ status \in Statuses /\ \A r \in waiting : r \in picked
    BY  DEF IInv, LogOK, WaitOK, AskTypes, Statuses
  <2> QED
    BY <1>1, <1>2, <2>1, <2>3, <2>4, ScheduledKeeps
<1>4. CASE CancelSchedule(s)
  <2>1. /\ Scheduled(s, "cancelled", sched[s].due) /\ sched[s].due \in Nat
        /\ asked' = asked /\ waiting' = waiting \ {s}
    BY <1>4 DEF CancelSchedule, IInv, SchedTypes, Entry
  <2>2. asked[s] \in Nat /\ "cancelled" \in Statuses /\ ~Due("cancelled")
    BY  DEF IInv, AskTypes, Statuses, Due
  <2>3. \A r \in waiting : r \in picked
    BY  DEF IInv, LogOK, WaitOK
  <2> QED
    BY <1>1, <1>2, <2>1, <2>2, <2>3, ScheduledKeeps
<1> QED
  BY <1>3, <1>4 DEF Instruct

LEMMA ConsiderKeeps ==
  ASSUME IInv, NEW s \in Ids, Consider(s)
  PROVE  LogOK'
<1>1. /\ pc = "tick" /\ s \in todo /\ asked' = asked /\ handed' = handed
      /\ Due(sched[s].status) /\ \A r \in todo : Due(sched[r].status) /\ r \in Ids
      /\ asked[s] \in Nat /\ sched[s].due \in Nat
      /\ \A r \in waiting : r \in picked
  BY DEF Consider, Earliest, IInv, LogOK, JobOK, JobTypes, AskTypes, SchedTypes, Entry,
    WaitOK
<1>2. AskTypes'
  BY AskTypesStep DEF Next, Handler
<1>3. CASE sched[s].status = "pending" \/ ~PickedUp(s)
  <2>0. s \notin waiting
    BY <1>3 DEF PickedUp, IInv, LogOK, WaitOK
  <2>1. CASE /\ Scheduled(s, "missed", sched[s].due) /\ todo' = todo \ {s}
             /\ UNCHANGED <<pc, picked, waiting>>
    <3>1. "missed" \in Statuses /\ ~Due("missed")
      BY  DEF Statuses, Due
    <3> QED
      BY <1>1, <1>2, <2>0, <2>1, <3>1, ScheduledKeeps
  <2>2. CASE /\ Scheduled(s, "ready", sched[s].due) /\ UNCHANGED todo
             /\ picked' = picked \cup {s} /\ waiting' = waiting \cup {s}
             /\ pc' = "free" /\ job' = [id |-> s, then |-> "tail"]
    <3>1. "ready" \in Statuses /\ Due("ready") /\ job'.id = s
      BY <2>2 DEF Statuses, Due
    <3> QED
      BY <1>1, <1>2, <2>2, <3>1, ScheduledKeeps
  <2>3. CASE Done /\ UNCHANGED <<sched, index, picked, waiting>>
    <3>1. Quiet
      BY <1>1, <2>3 DEF Done, Quiet, Spares, IInv, SchedTypes
    <3> QED
      BY <3>1, QuietKeeps
  <2> QED
    BY <1>3, <2>1, <2>2, <2>3 DEF Consider
<1>4. CASE ~(sched[s].status = "pending" \/ ~PickedUp(s))
  <2>1. /\ pc' = "free" /\ job'.id = s
        /\ UNCHANGED <<sched, index, todo, picked, waiting, asked, handed>>
    BY <1>4 DEF Consider
  <2>2. JobOK'
    BY <1>1, <2>1 DEF JobOK
  <2>3. \A r \in Ids : ~InFlight(r)'
    BY <2>1 DEF InFlight
  <2>4. TurnOK' /\ IndexAgrees' /\ SpentOK' /\ WaitOK'
    BY <2>1, <2>3 DEF IInv, LogOK, TurnOK, IndexAgrees, SpentOK, WaitOK
  <2> QED
    BY <2>2, <2>4 DEF LogOK
<1> QED
  BY <1>3, <1>4

\* A tick that gives its schedule up.
LEMMA FailKeeps ==
  ASSUME IInv, pc = "free", FailSchedule, UNCHANGED <<asked, handed, picked, waiting>>
  PROVE  LogOK'
<1>1. job.id \in Ids /\ "failed" \in Statuses /\ ~Due("failed")
  BY  DEF IInv, LogOK, JobOK, Statuses, Due
<1>2. /\ Scheduled(job.id, "failed", sched[job.id].due) /\ sched[job.id].due \in Nat
      /\ asked[job.id] \in Nat /\ pc' = "tail" /\ AskTypes'
      /\ \A r \in waiting : r \in picked
  BY <1>1 DEF FailSchedule, Done, IInv, LogOK, WaitOK, AskTypes, SchedTypes, Entry
<1> QED
  BY <1>1, <1>2, ScheduledKeeps

LEMMA LogStep ==
  ASSUME IInv, [Next]_vars
  PROVE  LogOK'
<1>0. Spares \/ sched' # sched
  BY  DEF Spares, IInv, SchedTypes
<1>18. \A s \in waiting : s \in picked
  BY  DEF IInv, LogOK, WaitOK
<1> USE <1>18
<1>1. ASSUME NEW s \in Ids, Instruct(s) PROVE LogOK'
  BY <1>1, InstructKeeps
<1>2. CASE WritePhase
  <2>1. Quiet
    BY <1>0, <1>2 DEF WritePhase, Quiet, hostVars, history
  <2> QED
    BY <2>1, QuietKeeps
<1>3. CASE Prompt
  <2>1. /\ pc = "sending" /\ pc' \in {"loop", "tail"} /\ UNCHANGED <<index, asked, waiting, picked>>
        /\ handed' = IF job.id \in Ids THEN [handed EXCEPT ![job.id] = @ + 1] ELSE handed
    BY <1>3 DEF Prompt, hostVars, IInv, JobTypes
  <2>2. Spares
    <3>1. CASE Finished("error")
      BY <1>3, <3>1, <2>1, FinishedSpares DEF IInv, LogOK, OpenOK, TurnTypes
    <3>2. CASE UNCHANGED sched
      BY <1>0, <3>2
    <3> QED
      BY <1>3, <3>1, <3>2 DEF Prompt
  <2>3. \A s \in Ids : Due(sched'[s].status) => sched'[s] = sched[s]
    BY <2>2 DEF Spares, Due
  <2>4. \A s \in Ids : Due(sched'[s].status) <=> Due(sched[s].status)
    BY <2>2 DEF Spares, Due
  <2>5. JobOK'
    BY <2>1 DEF JobOK
  <2>6. TurnOK' /\ IndexAgrees'
    BY <2>1, <2>3, <2>4 DEF IInv, LogOK, TurnOK, IndexAgrees, Due
  <2>7. SpentOK'
    <3> SUFFICES ASSUME NEW s \in Ids
                 PROVE  /\ handed'[s] <= asked'[s]
                        /\ Due(sched'[s].status) => handed'[s] < asked'[s]
      BY <2>1 DEF SpentOK, InFlight, Due
    <3>1. /\ handed[s] \in Nat /\ asked[s] \in Nat /\ handed[s] <= asked[s]
          /\ Due(sched[s].status) => handed[s] < asked[s]
          /\ job.id = s => handed[s] < asked[s] /\ ~Due(sched[s].status)
      BY <2>1 DEF IInv, LogOK, SpentOK, AskTypes, InFlight
    <3>2. handed'[s] = IF job.id = s THEN handed[s] + 1 ELSE handed[s]
      BY <2>1 DEF IInv, AskTypes
    <3> QED
      BY <2>1, <2>4, <3>1, <3>2
  <2>8. WaitOK'
    BY <2>1, <2>2 DEF Spares, IInv, LogOK, WaitOK, AskTypes
  <2> QED
    BY <2>5, <2>6, <2>7, <2>8 DEF LogOK
<1>4. CASE Tail
  <2>1. CASE Start(NoId, "loop")
    BY <1>4, <2>1, StartKeeps, ScheduleConstants DEF Tail, hostVars, history
  <2>2. CASE pc' = "loop" /\ UNCHANGED <<sched, index, job>>
    <3>1. Quiet
      BY <1>0, <1>4, <2>2 DEF Tail, Quiet, hostVars, history
    <3> QED
      BY <3>1, QuietKeeps
  <2> QED
    BY <1>4, <2>1, <2>2 DEF Tail
<1>5. CASE TickEnds
  <2>1. Quiet
    BY <1>0, <1>5 DEF TickEnds, Done, Quiet, logVars, history
  <2> QED
    BY <2>1, QuietKeeps
<1>6. ASSUME NEW s \in Ids, Consider(s) PROVE LogOK'
  BY <1>6, ConsiderKeeps
<1>7. CASE TickActivates
  <2>1. CASE Activated /\ UNCHANGED <<index, pc, todo, job>>
    <3>1. Quiet
      BY <1>7, <2>1, ActivatedEffect DEF TickActivates, Quiet, history, IInv, LogOK
    <3> QED
      BY <3>1, QuietKeeps
  <2>2. CASE FailSchedule
    BY <1>7, <2>2, FailKeeps DEF TickActivates, history
  <2> QED
    BY <1>7, <2>1, <2>2 DEF TickActivates
<1>8. CASE TickSkips
  <2>1. Quiet
    BY <1>0, <1>8 DEF TickSkips, Quiet, logVars, hostVars, history
  <2> QED
    BY <2>1, QuietKeeps
<1>9. CASE TickStarts
  <2>1. pc = "free" /\ job.id \in Ids /\ Due(sched[job.id].status)
    BY <1>9 DEF TickStarts, IInv, LogOK, JobOK
  <2>2. CASE Start(job.id, "tail") /\ waiting' = waiting \ {job.id}
    BY <1>9, <2>1, <2>2, StartKeeps DEF TickStarts
  <2>3. CASE FailSchedule /\ UNCHANGED waiting
    BY <1>9, <2>1, <2>3, FailKeeps DEF TickStarts
  <2> QED
    BY <1>9, <2>2, <2>3 DEF TickStarts
<1>10. CASE Lookup \/ View \/ BootList \/ Get \/ Advance \/ Asks \/ Answered \/ SendPrompt
  <2>1. Quiet
    BY <1>0, <1>10
    DEF Lookup, View, BootList, Get, Advance, Asks, Answered, SendPrompt, Quiet, logVars,
      actorVars, hostVars, history
  <2> QED
    BY <2>1, QuietKeeps
<1>11. CASE Tick
  <2>1. UNCHANGED <<sched, index, asked, handed, waiting, picked, job>>
    BY <1>11 DEF Tick, logVars, history
  <2>2. CASE pc' = "tick" /\ todo' = {s \in Ids : IsDue(s, worker.now)}
    <3>1. JobOK'
      BY <2>1, <2>2 DEF JobOK, IsDue
    <3>2. \A s \in Ids : ~InFlight(s)'
      BY <2>2 DEF InFlight
    <3>3. TurnOK' /\ IndexAgrees' /\ SpentOK' /\ WaitOK'
      BY <2>1, <3>2 DEF IInv, LogOK, TurnOK, IndexAgrees, SpentOK, WaitOK
    <3> QED
      BY <3>1, <3>3 DEF LogOK
  <2>3. CASE UNCHANGED <<pc, todo>>
    <3>1. Quiet
      BY <1>0, <2>1, <2>3 DEF Quiet
    <3> QED
      BY <3>1, QuietKeeps
  <2> QED
    BY <1>11, <2>2, <2>3 DEF Tick
<1>12. CASE GetActivates
  <2>1. /\ UNCHANGED <<index, job, todo, picked, asked, handed, waiting>>
        /\ pc' = "tail" \/ pc' = pc
    BY <1>12 DEF GetActivates, history
  <2>2. Spares
    BY <1>0, <1>12, ActivatedEffect DEF GetActivates, IInv, LogOK
  <2>3. Quiet
    BY <2>1, <2>2 DEF Quiet
  <2> QED
    BY <2>3, QuietKeeps
<1>13. CASE PromptArrives
  <2>1. CASE Start(NoId, "tail")
    BY <1>13, <2>1, StartKeeps, ScheduleConstants DEF PromptArrives, history
  <2>2. CASE pc' \in {pc, "tail"} /\ UNCHANGED <<sched, index, job>>
    <3>1. Quiet
      BY <1>0, <1>13, <2>2 DEF PromptArrives, Quiet, history
    <3> QED
      BY <3>1, QuietKeeps
  <2> QED
    BY <1>13, <2>1, <2>2 DEF PromptArrives
<1>14. CASE Continue
  <2>1. CASE Start(NoId, "tail")
    BY <1>14, <2>1, StartKeeps, ScheduleConstants DEF Continue, history
  <2>2. CASE UNCHANGED <<sched, index, job, pc>>
    <3>1. Quiet
      BY <1>0, <1>14, <2>2 DEF Continue, Quiet, history
    <3> QED
      BY <3>1, QuietKeeps
  <2> QED
    BY <1>14, <2>1, <2>2 DEF Continue
<1>15. CASE TurnEnds \/ Stop \/ HarnessExit
  <2>1. /\ UNCHANGED <<index, job, todo, picked, asked, handed, waiting>>
        /\ pc' = "tail" \/ pc' = pc
    BY <1>15 DEF TurnEnds, Stop, HarnessExit, hostVars, history
  <2>2. \/ UNCHANGED sched
        \/ \E stop \in {"end", "error", "cancelled"} :
             Finished(stop) /\ (open # 0 \/ stop # "error")
    BY <1>15 DEF TurnEnds, Stop, HarnessExit, IInv, OpenOK
  <2>3. Spares
    BY <1>0, <2>2, FinishedSpares DEF IInv, LogOK, TurnTypes
  <2>4. Quiet
    BY <2>1, <2>3 DEF Quiet
  <2> QED
    BY <2>4, QuietKeeps
<1>16. CASE Crash
  <2>1. Quiet
    BY <1>0, <1>16 DEF Crash, Quiet, logVars
  <2> QED
    BY <2>1, QuietKeeps
<1>17. CASE UNCHANGED vars
  <2>1. Quiet
    BY <1>0, <1>17 DEF vars, Quiet, logVars, actorVars, hostVars, history
  <2> QED
    BY <2>1, QuietKeeps
<1> QED
  BY <1>1, <1>2, <1>3, <1>4, <1>5, <1>6, <1>7, <1>8, <1>9, <1>10, <1>11, <1>12, <1>13,
    <1>14, <1>15, <1>16, <1>17
  DEF Next, Handler, Scheduler, Getter

-----------------------------------------------------------------------------
(* The invariant and what follows from it.                                  *)

LEMMA InitOK == Init => IInv
<1> SUFFICES ASSUME Init PROVE IInv
  OBVIOUS
<1>1. SchedTypes /\ AskTypes
  BY  DEF Init, SchedTypes, AskTypes, Absent, Entry, Statuses
<1>2. TurnTypes /\ JobTypes
  BY  DEF Init, TurnTypes, JobTypes, NoJob
<1>3. HostTypes
  <2>1. recovery \in BOOLEAN /\ recover \in BOOLEAN
    BY  DEF Init
  <2>2. clock \in 0..MaxClock /\ incidents \in 0..MaxIncidents /\ crashes \in 0..MaxCrashes
    BY ScheduleConstants DEF Init
  <2>3. worker \in [pc : {"idle", "view", "tick"}, now : 0..MaxClock]
    BY ScheduleConstants DEF Init
  <2> QED
    BY <2>1, <2>2, <2>3 DEF Init, HostTypes, NoGetter
<1>4. OpenOK /\ JobOK /\ WaitOK
  BY  DEF Init, OpenOK, JobOK, WaitOK
<1>5. TurnOK /\ SpentOK /\ IndexAgrees
  BY  DEF Init, TurnOK, SpentOK, IndexAgrees, InFlight, Absent, Due
<1> QED
  BY <1>1, <1>2, <1>3, <1>4, <1>5 DEF IInv, LogOK

LEMMA StepOK == IInv /\ [Next]_vars => IInv'
<1> QED
  BY SchedTypesStep, AskTypesStep, TurnTypesStep, JobTypesStep, HostTypesStep, OpenStep,
    LogStep
  DEF IInv

LEMMA Invariant == Spec => []IInv
<1> QED
  BY InitOK, StepOK, PTL DEF Spec

\* Every variable keeps its type, and the turn the actor is serving is the one the
\* log says is open.
THEOREM TypeCorrect == Spec => []TypeOK
<1>1. IInv => TypeOK
  BY  DEF IInv, TypeOK, SchedTypes, AskTypes, TurnTypes, JobTypes, HostTypes, OpenOK, Entry
<1> QED
  BY <1>1, Invariant, PTL

\* A schedule is handed to the provider at most once for every time somebody asked for
\* it: startTurn marks it sent in the log before the provider hears of it, so neither a
\* retried tick nor a crash in between hands it over again.
THEOREM SentAtMostOnceEach == Spec => []SentOnce
<1>1. IInv => SentOnce
  BY  DEF IInv, LogOK, SpentOK, SentOnce
<1> QED
  BY <1>1, Invariant, PTL

\* The table DueScheduleThreads reads agrees with the list dispatchScheduled finds in
\* the projection, so the scheduler neither misses a due schedule nor wakes for none.
THEOREM IndexRight == Spec => []IndexAgrees
<1>1. IInv => IndexAgrees
  BY  DEF IInv, LogOK
<1> QED
  BY <1>1, Invariant, PTL

\* What this server picked up in time waits for a busy thread and is never called
\* missed: dispatchScheduled asks how late it is only of what it has not picked up.
THEOREM WaitKept == Spec => BusyWaitKept
<1>1. ASSUME IInv, IInv', [Next]_vars
      PROVE  \A s \in waiting : sched'[s].status # "missed"
  <2> SUFFICES ASSUME NEW s \in waiting PROVE sched'[s].status # "missed"
    OBVIOUS
  <2>1. CASE s \in waiting'
    BY <1>1, <2>1 DEF IInv, LogOK, WaitOK
  <2>2. CASE s \notin waiting'
    <3>1. s \in Ids /\ sched[s].status # "missed"
      BY <1>1 DEF IInv, LogOK, WaitOK, AskTypes
    <3>2. ASSUME NEW r \in Ids, Instruct(r) PROVE sched'[s].status # "missed"
      <4>1. PICK status \in {"pending", "ready", "cancelled"}, due \in Nat : Scheduled(r, status, due)
        BY <1>1, <3>2, ScheduleConstants
        DEF Instruct, SendNow, Schedule, CancelSchedule, IInv, HostTypes, SchedTypes, Entry
      <4> QED
        BY <1>1, <3>1, <4>1, ScheduledEffect DEF IInv, Statuses
    <3>3. CASE TickStarts
      <4>1. Start(job.id, "tail") /\ job.id \in Ids
        BY <1>1, <2>2, <3>3 DEF TickStarts, IInv, LogOK, JobOK
      <4> QED
        BY <1>1, <3>1, <4>1, StartEffect DEF IInv
    <3>4. CASE Crash
      BY <3>1, <3>4 DEF Crash, logVars
    <3>5. CASE UNCHANGED waiting
      BY <2>2, <3>5
    <3>6. ASSUME NEW r \in Ids, Consider(r) PROVE waiting \subseteq waiting'
      BY <3>6 DEF Consider
    <3> QED
      BY <1>1, <2>2, <3>2, <3>3, <3>4, <3>5, <3>6
      DEF Next, Handler, Scheduler, Getter, vars, history, WritePhase, Prompt, Tail,
        TickEnds, TickActivates, TickSkips, Lookup, View, Tick, BootList, Get, GetActivates,
        PromptArrives, Continue, Advance, TurnEnds, Asks, Answered, Stop, SendPrompt,
        HarnessExit
  <2> QED
    BY <2>1, <2>2
<1> QED
  BY <1>1, Invariant, PTL DEF Spec, BusyWaitKept

=============================================================================
