------------------------------ MODULE Presenter ------------------------------
(***************************************************************************)
(* One thread's state on the server and on one presenter: the server folds  *)
(* each event and sends it, the presenter folds what arrives, starts over   *)
(* from a windowed snapshot whenever it attaches afresh, and fetches the    *)
(* timeline in front of its window page by page.                            *)
(*                                                                         *)
(* internal/thread/actor.go (emit), internal/server/server.go and ws.go     *)
(* (snapshot, items, attach), web/src/client.ts (attach, fetchOlder,        *)
(* handle).  Events arrive in order on the socket; a page comes back on its *)
(* own HTTP request, in no order with them.                                 *)
(***************************************************************************)
EXTENDS ClientFold, SequencesExt

CONSTANTS
  Turns, Blocks, Tools, Jobs, Requests, Queue, Plans,  \* ids
  TaskTypes,      \* task types a job row may name
  SnapshotItems,  \* top-level items in a snapshot
  PageItems,      \* and in a page
  MaxEvents,      \* bound on events
  MaxAside,       \* bound on events that are no part of a turn's work
  MaxWire,        \* bound on events on their way
  MaxSnapshots,   \* bound on snapshots
  Unseen          \* may a tool call be updated that was never started

ASSUME PresenterConstants ==
  /\ SnapshotItems \in Nat \ {0} /\ PageItems \in Nat \ {0}
  /\ {MaxEvents, MaxAside, MaxWire, MaxSnapshots} \subseteq Nat
  /\ Unseen \in BOOLEAN /\ None \notin Turns \cup Tools \cup Queue \cup Plans

VARIABLES
  srv,        \* the actor's state
  cli,        \* the presenter's
  wire,       \* events sent to it and not yet applied
  page,       \* the page it is fetching
  aside, snapshots,
  cut         \* history: how much its snapshot left out
presenterVars == <<srv, cli, wire, page, aside, snapshots, cut>>

NoPage == [at |-> "none", before |-> 0, items |-> <<>>, next |-> 0]

PresenterInit ==
  /\ srv = NewState /\ cli = NewState /\ wire = <<>> /\ page = NoPage
  /\ aside = 0 /\ snapshots = 0 /\ cut = 0

-----------------------------------------------------------------------------
(* Events. *)

\* The event gets the next seq, is folded and is sent.
Stamped(e) ==
  [f \in DOMAIN e \cup {"seq"} |-> IF f = "seq" THEN srv.seq + 1 ELSE e[f]]

Emit(e) ==
  /\ srv.seq < MaxEvents /\ Len(wire) < MaxWire
  /\ LET ev == Stamped(e)
     IN /\ srv'  = Apply(srv, ev)
        /\ wire' = Append(wire, ev)
  /\ UNCHANGED <<cli, page, snapshots, cut>>

Work(e)  == Emit(e) /\ UNCHANGED aside
Aside(e) == aside < MaxAside /\ aside' = aside + 1 /\ Emit(e)

Now == OpenTurn(srv.turns)

\* The actor starts a turn from a person's prompt, from the queue or from a
\* schedule; the harness starts one by itself or from a prompt it held; the
\* server starts one to continue what a restart cut short.
StartTurn ==
  /\ Now = None /\ srv.phase \in {"idle", "turn"}
  /\ \E t \in Turns, q \in Queue \cup Plans \cup {None},
        prompt \in {None, "go"}, recovery \in BOOLEAN :
       /\ ~Holds(srv.turns, t)
       /\ q \in Queue => Holds(srv.queued, q)
       /\ q \in Plans => /\ prompt # None /\ Holds(srv.sched, q)
                         /\ Entry(srv.sched, q).status = "scheduled"
       /\ (q = None /\ prompt = None) => srv.turns # <<>>
       /\ recovery => srv.turns # <<>> /\ q = None /\ prompt # None
       /\ Work([type |-> "turn.started", turn |-> t, queue |-> q,
                prompt |-> prompt, recovery |-> recovery])

\* A finish may be stale or a duplicate.
FinishTurn ==
  \E t \in Turns, stop \in {"end_turn", "error"} :
    Work([type |-> "turn.finished", turn |-> t, stop |-> stop])

\* The checkpointer measured what a turn changed.
MeasureDiff ==
  \E t \in Turns : /\ Holds(srv.turns, t) /\ Entry(srv.turns, t).done
                   /\ Aside([type |-> "turn.diff", turn |-> t])

\* A block or a call is streamed while it is the timeline's last item.
Streams(id) == \/ ~Holds(srv.items, id)
               \/ srv.items # <<>> /\ Last(srv.items).id = id

Calls == {t \in Tools : Holds(srv.items, <<"tool", t>>)}

StreamText ==
  \E b \in Blocks, parent \in Calls \cup {None} :
    /\ Streams(<<"block", b>>)
    /\ Work([type |-> "message.chunk", block |-> b, turn |-> Now,
             parent |-> parent])

StartCall ==
  \E t \in Tools :
    /\ Streams(<<"tool", t>>)
    /\ Work([type |-> "tool_call.started", tool |-> t, turn |-> Now,
             status |-> "pending", parent |-> None])

\* A call goes active only while a turn is open; its result may straggle.
UpdateCall ==
  \E t \in (IF Unseen THEN Tools ELSE Calls),
     status \in {"in_progress", "completed"} :
    /\ status = "in_progress" =>
         /\ Now # None
         /\ t \in Calls => Unsettled(Entry(srv.items, <<"tool", t>>))
    /\ Work([type |-> "tool_call.updated", tool |-> t, status |-> status,
             content |-> IF status = "completed" THEN 1 ELSE 0,
             parent |-> None])

\* Every row names its job's task and the call it stands for, once one is
\* known; only a finish carries a final status.
ReportJob ==
  \E j \in Jobs, call \in Calls \cup {None}, task \in TaskTypes,
     type \in {"job.updated", "job.finished"},
     status \in {None, "stopped", "completed"} :
    /\ (type = "job.finished") = JobDone(status)
    /\ Holds(srv.jobs, j) =>
         /\ Entry(srv.jobs, j).kind = ClassifyJob(task)
         /\ Entry(srv.jobs, j).call \in {None, call}
    /\ Work([type |-> type, job |-> j, call |-> call, task |-> task,
             kind |-> None, status |-> status,
             used |-> IF status = None THEN 1 ELSE 0])

QueuePrompt ==
  \E q \in Queue :
    /\ ~Holds(srv.queued, q) /\ ~Holds(srv.items, <<"prompt", q>>)
    /\ Work([type |-> "prompt.queued", queue |-> q, prompt |-> "held",
             sent |-> TRUE])

LeaveQueue ==
  \E q \in Queue, type \in {"prompt.injected", "prompt.dequeued"} :
    /\ type = "prompt.injected" => Now # None
    /\ Work([type |-> type, queue |-> q, turn |-> Now])

PlanPrompt ==
  \E p \in Plans, status \in {"scheduled", "cancelled"} :
    LET known == Holds(srv.sched, p)
    IN /\ ~srv.closed
       /\ known => Entry(srv.sched, p).status = "scheduled"
       /\ Aside([type |-> "prompt.scheduled",
                 plan |-> [id |-> p, status |-> status, turn |-> None,
                           rev |-> IF known THEN Entry(srv.sched, p).rev + 1
                                   ELSE 1]])

AskPermission ==
  \E r \in Requests, type \in {"permission.requested", "permission.resolved"} :
    /\ (type = "permission.requested") = ~Holds(srv.pending, r)
    /\ Aside([type |-> type, req |-> r, call |-> None])

Elicit ==
  \E r \in Requests, card \in BOOLEAN :
    /\ ~Holds(srv.asks, r) /\ ~Holds(srv.items, <<"card", r>>)
    /\ Aside([type |-> "elicitation.requested", req |-> r, card |-> card,
              turn |-> Now])

AnswerElicit ==
  \E r \in Requests, action \in {"accept", "decline", "cancel"} :
    Aside([type |-> "elicitation.resolved", req |-> r, action |-> action])

NoteChange ==
  \E type \in {"context.compacted", "thread.account_changed"} :
    Aside([type |-> type])

ShowArtefact ==
  \E upload \in BOOLEAN :
    Aside([type |-> "artefact.shown", artefact |-> "file", upload |-> upload,
           turn |-> Now])

\* A change names the model or the effort; a schedule's sets what it may clear.
ChangeConfig ==
  \E model \in {None, "m"}, effort \in {None, "high"},
     touched \in BOOLEAN, replace \in BOOLEAN :
    /\ ~srv.closed
    /\ IF touched THEN model = None /\ ~replace
       ELSE effort = None /\ (replace \/ model # None)
    /\ Aside([type |-> "thread.config_changed", model |-> model,
              effort |-> effort, touched |-> touched, replace |-> replace])

\* What the lifecycle runner logs, in its order.
MoveWorkspace ==
  \E type \in {"workspace.requested", "workspace.hook_started",
               "workspace.ready", "workspace.failed",
               "workspace.cleanup_started", "workspace.cleanup_failed",
               "workspace.cleanup_finished"},
     hook \in {"provision", "deprovision"}, purge \in BOOLEAN :
    /\ Now = None /\ ~srv.closed
    /\ CASE type = "workspace.requested" ->
              srv.ws.phase = None /\ srv.turns = <<>>
         [] type \in {"workspace.ready", "workspace.failed"} ->
              srv.ws.phase = "provisioning"
         [] type = "workspace.cleanup_started" ->
              srv.ws.phase \in {"ready", "provision_failed", "cleanup_failed"}
         [] type = "workspace.hook_started" ->
              srv.ws.phase = IF hook = "provision" THEN "provisioning"
                             ELSE "cleaning"
         [] OTHER -> srv.ws.phase = "cleaning"
    /\ Aside([type |-> type, hook |-> hook, purge |-> purge])

CloseThread == /\ ~srv.closed
               /\ Aside([type |-> "thread.closed"])

-----------------------------------------------------------------------------
(* The presenter. *)

Receive ==
  /\ wire # <<>>
  /\ cli'  = ApplyEvent(cli, Head(wire))
  /\ wire' = Tail(wire)
  /\ UNCHANGED <<srv, page, aside, snapshots, cut>>

\* It attaches afresh, or is too far behind to be replayed.
Snapshot ==
  /\ snapshots < MaxSnapshots /\ snapshots' = snapshots + 1
  /\ cli'  = Window(srv, SnapshotItems)
  /\ cut'  = cli'.before
  /\ wire' = <<>>
  /\ UNCHANGED <<srv, page, aside>>

AskPage ==
  /\ page = NoPage /\ cli.before > 0
  /\ page' = [NoPage EXCEPT !.at = "asked", !.before = cli.before]
  /\ UNCHANGED <<srv, cli, wire, aside, snapshots, cut>>

\* The server answers from its state as it is by then.
ReadPage ==
  /\ page.at = "asked"
  /\ \E top \in {PageItems, Len(srv.items)} :
       LET got == WindowBefore(srv.items, page.before, top)
       IN page' = [page EXCEPT !.at = "read", !.items = got.items,
                               !.next = got.before]
  /\ UNCHANGED <<srv, cli, wire, aside, snapshots, cut>>

\* A page that no longer meets the window is dropped, as is a failed fetch.
TakePage ==
  /\ page.at = "read" /\ page' = NoPage
  /\ LET Fresh(it) == ~Holds(cli.items, it.id)
     IN cli' = IF cli.before # page.before THEN cli
               ELSE [cli EXCEPT !.items = SelectSeq(page.items, Fresh) \o @,
                                !.before = page.next]
  /\ UNCHANGED <<srv, wire, aside, snapshots, cut>>

LosePage ==
  /\ page # NoPage /\ page' = NoPage
  /\ UNCHANGED <<srv, cli, wire, aside, snapshots, cut>>

Events == \/ StartTurn \/ FinishTurn \/ MeasureDiff
          \/ StreamText \/ StartCall \/ UpdateCall \/ ReportJob
          \/ QueuePrompt \/ LeaveQueue \/ PlanPrompt
          \/ AskPermission \/ Elicit \/ AnswerElicit
          \/ NoteChange \/ ShowArtefact \/ ChangeConfig
          \/ MoveWorkspace \/ CloseThread

PresenterNext == \/ Events \/ Receive \/ Snapshot
                 \/ AskPage \/ ReadPage \/ TakePage \/ LosePage

PresenterSpec == PresenterInit /\ [][PresenterNext]_presenterVars

-----------------------------------------------------------------------------
(* Properties. *)

\* What the presenter will hold once everything on its way has landed.
Landed == FoldLeft(ApplyEvent, cli, wire)

\* The presenter ends up with the server's phase, turns, jobs, queue, plans,
\* questions and settings, whatever it attached to and whenever.
\* (apply.ts:1-3; the order of schedules is the one thing that may differ.)
StateAgrees ==
  LET Rest(s) == [s EXCEPT !.items = <<>>, !.before = 0, !.sched = <<>>]
      c == Landed
  IN /\ Rest(c) = Rest(srv)
     /\ ToSet(c.sched) = ToSet(srv.sched)

\* Its window is the end of the server's timeline, whatever it attached to and
\* however many pages it fetched: no item twice, none missing, none out of
\* order (client.ts:182-186), and what came in a snapshot or an event is what
\* the server holds, piece for piece (apply.ts:1-3).  What came in a page is
\* not promised.
WindowIsTail ==
  LET c == Landed
  IN [i \in DOMAIN c.items |-> c.items[i].id]
       = [i \in 1 .. Len(srv.items) - c.before |-> srv.items[c.before + i].id]
TailAgrees ==
  LET c == Landed
  IN \A i \in cut + 1 .. Len(srv.items) :
       /\ i - c.before \in DOMAIN c.items
       /\ c.items[i - c.before] = srv.items[i]
WindowAgrees == WindowIsTail /\ TailAgrees

\* The two folds, in Go and in TypeScript, agree on all a presenter holds.
FoldsAgree == StateAgrees /\ WindowAgrees

\* A thread that says it only waits for a prompt has no turn open and leaves no
\* call in progress behind, but one that a job nobody waits for stands for: a
\* shell in the background, or the harness's own housekeeping.
\* (state.go:41-49, 808-814)
IdleIsQuiet ==
  Attention(srv) = "needs_prompt" =>
    /\ Now = None
    /\ \A i \in DOMAIN srv.items :
         srv.items[i].status = "in_progress" =>
           \E j \in DOMAIN srv.jobs : /\ ~JobDone(srv.jobs[j].status)
                                      /\ srv.jobs[j].kind \in {"shell", "inert"}
                                      /\ <<"tool", srv.jobs[j].call>>
                                           = srv.items[i].id

\* A page brings the items as the server holds them: once the presenter has
\* the whole timeline and nothing is on its way, it is the server's.
\* (apply.ts:342-348)
PagesAgree ==
  (wire = <<>> /\ cli.before = 0) => cli.items = srv.items

\* A window never begins half-way through a turn. (window.go:46-48)
WholeTurns ==
  LET c == Landed
  IN c.before > 0 =>
       \A i \in DOMAIN c.items, k \in 1 .. c.before :
         c.items[i].turn # None => srv.items[k].turn # c.items[i].turn
=============================================================================
