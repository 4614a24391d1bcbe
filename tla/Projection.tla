----------------------------- MODULE Projection -----------------------------
(***************************************************************************)
(* The server's fold of a thread's log into the state a presenter draws,   *)
(* and the window of the timeline it sends.                                *)
(*                                                                         *)
(* internal/projection/state.go, internal/projection/window.go, the job    *)
(* vocabulary of internal/proto/event.go, and what internal/server/ws.go   *)
(* and server.go send of it.                                               *)
(*                                                                         *)
(* Wording, timestamps, the plan, the usage totals of the thread and the   *)
(* inside of tool inputs are left out: the fold only copies them.  A       *)
(* message's text and a tool's content are counted (body), for what        *)
(* matters is that each piece lands once.  A prompt names a thread whole:   *)
(* the cut after 60 runes is left out.                                     *)
(***************************************************************************)
EXTENDS Naturals, Sequences, FiniteSets

None == ""      \* an absent field

BlankItem(id) == [id |-> id, kind |-> None, turn |-> None, parent |-> None,
                  text |-> None, body |-> 0, status |-> None]

NewState ==
  [seq |-> 0, phase |-> "idle", closed |-> FALSE,
   title |-> None, model |-> None, effort |-> None,
   ws |-> [phase |-> None, hook |-> None, error |-> None, purge |-> FALSE],
   items |-> <<>>, before |-> 0, turns |-> <<>>, jobs |-> <<>>,
   pending |-> <<>>, asks |-> <<>>, queued |-> <<>>, sched |-> <<>>,
   artefacts |-> <<>>]

-----------------------------------------------------------------------------
(* Lists of entries with an id. *)

Holds(list, id)   == \E i \in DOMAIN list : list[i].id = id
Entry(list, id)   == list[CHOOSE i \in DOMAIN list :
                            /\ list[i].id = id
                            /\ \A j \in 1 .. i - 1 : list[j].id # id]
Without(list, id) == LET Other(x) == x.id # id IN SelectSeq(list, Other)

\* The entries that pass Test, changed.
Change(list, Test(_), Mut(_)) ==
  [i \in DOMAIN list |-> IF Test(list[i]) THEN Mut(list[i]) ELSE list[i]]

Replace(list, entry) ==
  IF Holds(list, entry.id)
  THEN LET Same(x) == x.id = entry.id
           New(x)  == entry
       IN Change(list, Same, New)
  ELSE Append(list, entry)

Upsert(items, id, Mut(_)) ==
  IF Holds(items, id)
  THEN LET Same(x) == x.id = id IN Change(items, Same, Mut)
  ELSE Append(items, Mut(BlankItem(id)))

PromptItem(items, id, prompt, turn) ==
  LET Mut(it) == [it EXCEPT !.kind = "message", !.text = prompt, !.turn = turn]
  IN Upsert(items, id, Mut)

\* The turn the log says is open: the last one not done.
OpenTurn(turns) ==
  LET open == {i \in DOMAIN turns : ~turns[i].done}
  IN IF open = {} THEN None
     ELSE turns[CHOOSE i \in open : \A j \in open : j <= i].id

-----------------------------------------------------------------------------
(* Jobs and attention. *)

ClassifyJob(task) ==
  CASE task \in {"local_bash", "shell"}     -> "shell"
    [] task \in {"monitor", "monitor_mcp"} -> "monitor"
    [] task \in {"plan", "dream"}          -> "inert"
    [] OTHER                               -> "agent"

JobDone(status) == status \in {"completed", "failed", "stopped", "interrupted"}

PendingOnly(it) == it.status = "pending"
Unsettled(it) == it.status \in {"in_progress", "pending"}

SettledBy(status) == CASE status = "failed"    -> "failed"
                       [] status = "completed" -> "completed"
                       [] OTHER                -> "cancelled"

\* A live job hands the agent something to come back with.
Working(jobs) == \E i \in DOMAIN jobs : /\ ~JobDone(jobs[i].status)
                                        /\ jobs[i].kind \in {"agent", "monitor"}

Attention(s) ==
  CASE s.closed \/ s.phase = "closed"                     -> "closed"
    [] s.phase \in {"provision_failed", "cleanup_failed"} -> "failed"
    [] s.pending # <<>>                                   -> "needs_permission"
    [] s.asks # <<>>                                      -> "needs_answer"
    [] s.phase \in {"turn", "provisioning", "cleaning"}   -> "working"
    [] Working(s.jobs)                                    -> "background"
    [] OTHER                                              -> "needs_prompt"

JobRow(s, e) ==
  LET first == [id |-> e.job, call |-> None, kind |-> None,
                status |-> "running", used |-> 0, ended |-> FALSE,
                turn |-> OpenTurn(s.turns)]
      old    == IF Holds(s.jobs, e.job) THEN Entry(s.jobs, e.job) ELSE first
      kind   == IF e.kind # None THEN e.kind ELSE old.kind
      said   == IF e.status # None THEN e.status ELSE old.status
      status == IF e.type = "job.finished" /\ ~JobDone(said) THEN "completed"
                ELSE said
      job == [old EXCEPT !.call = IF e.call # None THEN e.call ELSE @,
                         !.kind = IF kind = None THEN ClassifyJob(e.task)
                                  ELSE kind,
                         !.used = IF e.used > 0 THEN e.used ELSE @,
                         !.status = status, !.ended = @ \/ JobDone(status)]
      Waits(it)  == it.id = <<"tool", job.call>> /\ Unsettled(it)
      Settle(it) == [it EXCEPT !.status = SettledBy(job.status)]
  IN [s EXCEPT !.jobs  = Replace(@, job),
               !.items = IF e.type = "job.finished"
                         THEN Change(@, Waits, Settle) ELSE @]

-----------------------------------------------------------------------------
(* Turns. *)

TurnStarted(s, e) ==
  LET held   == e.queue # None /\ Holds(s.queued, e.queue)
      prompt == IF e.prompt = None /\ held
                THEN Entry(s.queued, e.queue).prompt ELSE e.prompt
      Due(q)  == e.queue # None /\ q.id = e.queue
      Sent(q) == [q EXCEPT !.status = "sent", !.turn = e.turn, !.rev = @ + 1]
  IN [s EXCEPT
        !.phase  = "turn",
        !.queued = IF e.queue # None THEN Without(@, e.queue) ELSE @,
        !.sched  = Change(@, Due, Sent),
        !.turns  = Append(@, [id |-> e.turn, prompt |-> prompt, done |-> FALSE,
                              stop |-> None, recovery |-> e.recovery,
                              diff |-> 0]),
        !.title  = IF @ = None THEN prompt ELSE @,
        !.items  = IF prompt = None THEN @
                   ELSE PromptItem(@, <<"prompt", e.turn>>, prompt, e.turn)]

\* Only the finish of the open turn takes the thread idle.
TurnFinished(s, e) ==
  LET open  == OpenTurn(s.turns)
      match == open = None \/ e.turn = open
      Failed(q) == e.stop = "error" /\ q.turn = e.turn
      Fail(q)   == [q EXCEPT !.status = "failed", !.rev = @ + 1]
      Its(t)    == t.id = e.turn
      Finish(t) == [t EXCEPT !.done = TRUE, !.stop = e.stop]
      \* A call a live job stands for outlives its turn.
      Live(it)  == \E i \in DOMAIN s.jobs :
                     /\ ~JobDone(s.jobs[i].status)
                     /\ <<"tool", s.jobs[i].call>> = it.id
      Cut(it)   == /\ it.kind = "tool" /\ Unsettled(it)
                   /\ it.turn \in {e.turn, None} /\ ~Live(it)
      Cancel(it) == [it EXCEPT !.status = "cancelled"]
  IN [s EXCEPT !.phase = IF match THEN "idle" ELSE @,
               !.sched = Change(@, Failed, Fail),
               !.turns = Change(@, Its, Finish),
               !.items = IF match THEN Change(@, Cut, Cancel) ELSE @]

TurnDiff(s, e) ==
  LET Its(t)  == t.id = e.turn
      Hang(t) == [t EXCEPT !.diff = e.seq]
  IN [s EXCEPT !.turns = Change(@, Its, Hang)]

PromptQueued(s, e) ==
  [s EXCEPT !.queued = Append(@, [id |-> e.queue, prompt |-> e.prompt,
                                  sent |-> e.sent])]

PromptInjected(s, e) ==
  IF ~Holds(s.queued, e.queue) THEN s
  ELSE [s EXCEPT !.queued = Without(@, e.queue),
                 !.items  = PromptItem(@, <<"prompt", e.queue>>,
                              Entry(s.queued, e.queue).prompt, e.turn)]

-----------------------------------------------------------------------------
(* What the harness streams. *)

\* Activity while the log says idle is a turn the log did not announce.
Activity(phase) == IF phase = "idle" THEN "turn" ELSE phase

MessageChunk(s, e) ==
  LET Mut(it) == [it EXCEPT !.kind = "message", !.turn = e.turn,
                    !.parent = IF e.parent # None THEN e.parent ELSE @,
                    !.body = @ + 1]
  IN [s EXCEPT !.phase = Activity(@),
               !.items = Upsert(@, <<"block", e.block>>, Mut)]

ToolStarted(s, e) ==
  LET Mut(it) == [it EXCEPT !.kind = "tool", !.turn = e.turn,
                    !.status = e.status,
                    !.parent = IF e.parent # None THEN e.parent ELSE @]
  IN [s EXCEPT !.phase = Activity(@),
               !.items = Upsert(@, <<"tool", e.tool>>, Mut)]

\* A straggling completion does not reopen the turn.
ToolUpdated(s, e) ==
  LET Mut(it) == [it EXCEPT !.kind = "tool",
                    !.status = IF e.status # None THEN e.status ELSE @,
                    !.parent = IF e.parent # None THEN e.parent ELSE @,
                    !.body = @ + e.content]
  IN [s EXCEPT !.phase = IF e.status = "in_progress" THEN Activity(@) ELSE @,
               !.items = Upsert(@, <<"tool", e.tool>>, Mut)]

\* A compaction or a change of account: a line of its own, in no turn.
Notice(s, e) ==
  LET Mut(it) == [it EXCEPT !.kind = "notice", !.text = e.type]
  IN [s EXCEPT !.items = Upsert(@, <<"notice", e.seq>>, Mut)]

ArtefactShown(s, e) ==
  LET Mut(it) == [it EXCEPT !.kind = "artefact", !.turn = e.turn,
                            !.text = e.artefact]
  IN [s EXCEPT !.artefacts = Replace(@, [id |-> e.artefact, at |-> e.seq,
                                         turn |-> e.turn]),
               !.items = IF e.upload THEN @
                         ELSE Upsert(@, <<"artefact", e.seq>>, Mut)]

-----------------------------------------------------------------------------
(* What waits for a person. *)

ElicitationRequested(s, e) ==
  LET Mut(it) == [it EXCEPT !.kind = "card", !.turn = e.turn,
                            !.status = "pending"]
  IN [s EXCEPT !.asks  = Append(@, [id |-> e.req, card |-> e.card]),
               !.items = IF e.card THEN Upsert(@, <<"card", e.req>>, Mut)
                         ELSE @]

CardResult(e) == CASE e.action = "accept"  -> "saved"
                   [] e.action = "decline" -> "declined"
                   [] OTHER                -> "cancelled"

ElicitationResolved(s, e) ==
  LET Card(it)   == it.id = <<"card", e.req>> /\ it.kind = "card"
      Answer(it) == [it EXCEPT !.status = CardResult(e)]
  IN [s EXCEPT !.asks = Without(@, e.req), !.items = Change(@, Card, Answer)]

-----------------------------------------------------------------------------
(* Settings and workspace. *)

ConfigChanged(s, e) ==
  [s EXCEPT !.model  = IF e.replace \/ e.model # None THEN e.model ELSE @,
            !.effort = IF e.touched THEN e.effort ELSE @]

Workspace(s, e) ==
  CASE e.type = "workspace.requested" ->
         [s EXCEPT !.phase = "provisioning",
                   !.ws = [phase |-> "provisioning", hook |-> None,
                           error |-> None, purge |-> FALSE]]
    [] e.type = "workspace.hook_started" ->
         LET to(p) == IF e.hook = "deprovision" THEN "cleaning" ELSE p
         IN [s EXCEPT !.phase = to(@), !.ws.phase = to(@), !.ws.hook = e.hook]
    [] e.type = "workspace.ready" ->
         [s EXCEPT !.phase = "idle", !.ws.phase = "ready", !.ws.error = None]
    [] e.type = "workspace.failed" ->
         [s EXCEPT !.phase = "provision_failed", !.ws.phase = "provision_failed",
                   !.ws.error = "failed"]
    [] e.type = "workspace.cleanup_started" ->
         [s EXCEPT !.phase = "cleaning", !.ws.phase = "cleaning",
                   !.ws.purge = e.purge]
    [] e.type = "workspace.cleanup_failed" ->
         [s EXCEPT !.phase = "cleanup_failed", !.ws.phase = "cleanup_failed",
                   !.ws.error = "failed"]
    [] OTHER -> [s EXCEPT !.ws.phase = "released"]

-----------------------------------------------------------------------------

\* Apply.  An event at or below the state's own seq is dropped.
Apply(before, e) ==
  LET s == [before EXCEPT !.seq = e.seq]
  IN CASE e.seq <= before.seq          -> before
       [] e.type = "turn.started"      -> TurnStarted(s, e)
       [] e.type = "turn.finished"     -> TurnFinished(s, e)
       [] e.type = "turn.diff"         -> TurnDiff(s, e)
       [] e.type = "prompt.queued"     -> PromptQueued(s, e)
       [] e.type = "prompt.injected"   -> PromptInjected(s, e)
       [] e.type = "prompt.dequeued"   -> [s EXCEPT !.queued = Without(@, e.queue)]
       [] e.type = "prompt.scheduled"  -> [s EXCEPT !.sched = Replace(@, e.plan)]
       [] e.type = "message.chunk"     -> MessageChunk(s, e)
       [] e.type = "tool_call.started" -> ToolStarted(s, e)
       [] e.type = "tool_call.updated" -> ToolUpdated(s, e)
       [] e.type \in {"job.updated", "job.finished"} -> JobRow(s, e)
       [] e.type \in {"context.compacted", "thread.account_changed"} ->
            Notice(s, e)
       [] e.type = "artefact.shown"    -> ArtefactShown(s, e)
       [] e.type = "permission.requested" ->
            [s EXCEPT !.pending = Append(@, [id |-> e.req, call |-> e.call])]
       [] e.type = "permission.resolved" ->
            [s EXCEPT !.pending = Without(@, e.req)]
       [] e.type = "elicitation.requested" -> ElicitationRequested(s, e)
       [] e.type = "elicitation.resolved"  -> ElicitationResolved(s, e)
       [] e.type = "thread.config_changed" -> ConfigChanged(s, e)
       [] e.type = "thread.closed" -> [s EXCEPT !.closed = TRUE,
                                                !.phase = "closed"]
       [] OTHER -> Workspace(s, e)

-----------------------------------------------------------------------------
(* The window. *)

TopLevel(items, from, to) == {i \in from .. to : items[i].parent = None}

\* How many items stay in front of a window that ends with item last: as few
\* as leave at most top of the timeline's own items in it, then back to the
\* start of the turn it landed in, over items that belong to no turn.
WindowStart(items, last, top) ==
  LET fits  == {k \in 0 .. last :
                  Cardinality(TopLevel(items, k + 1, last)) <= top}
      start == CHOOSE k \in fits : \A j \in fits : k <= j
      turn  == items[start + 1].turn
      other == {k \in 1 .. start : items[k].turn \notin {turn, None}}
      after == IF other = {} THEN 0
               ELSE CHOOSE k \in other : \A j \in other : j <= k
      mine  == {k \in after + 1 .. start : items[k].turn = turn}
  IN IF start = 0 \/ start >= Len(items) \/ turn = None \/ mine = {}
     THEN start
     ELSE (CHOOSE k \in mine : \A j \in mine : k <= j) - 1

\* The snapshot a presenter is sent.
Window(s, top) ==
  LET start == WindowStart(s.items, Len(s.items), top)
  IN [s EXCEPT !.before = @ + start,
               !.items = SubSeq(@, start + 1, Len(@))]

\* The page above a window that has before items in front of it.
WindowBefore(items, before, top) ==
  LET last  == IF before > Len(items) THEN Len(items) ELSE before
      start == WindowStart(items, last, top)
  IN [items |-> SubSeq(items, start + 1, last), before |-> start]
=============================================================================
