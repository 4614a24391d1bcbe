----------------------------- MODULE ClientFold -----------------------------
(***************************************************************************)
(* The presenter's fold of the same log: web/src/apply.ts, with the job     *)
(* vocabulary of web/src/lib/jobs.ts.  It is written apart from the         *)
(* server's, from its own source; the two share the shape of the state      *)
(* (protocol.ts), which travels between them, and the list operators.       *)
(***************************************************************************)
EXTENDS Projection

\* findIndex, then a copy with one entry changed or a new one at the end.
ClientUpsert(items, id, Mut(_)) ==
  IF \E i \in DOMAIN items : items[i].id = id
  THEN LET Same(it) == it.id = id IN Change(items, Same, Mut)
  ELSE items \o <<Mut(BlankItem(id))>>

\* turns.reduce: the last turn that is not done.
ClientOpen(turns) ==
  LET NotDone(t) == ~t.done
      open == SelectSeq(turns, NotDone)
  IN IF open = <<>> THEN None ELSE open[Len(open)].id

-----------------------------------------------------------------------------

ClientClassifyJob(task) ==
  IF task \in {"local_bash", "shell"} THEN "shell"
  ELSE IF task \in {"monitor", "monitor_mcp"} THEN "monitor"
  ELSE IF task \in {"plan", "dream"} THEN "inert" ELSE "agent"

ClientJobDone(status) == status \notin {"running", "paused"}

ClientJobRow(s, e) ==
  LET known == Holds(s.jobs, e.job)
      first == [id |-> e.job, call |-> None, status |-> "running",
                kind |-> IF e.kind # None THEN e.kind
                         ELSE ClientClassifyJob(e.task),
                used |-> 0, ended |-> FALSE, turn |-> ClientOpen(s.turns)]
      jobs  == IF known THEN s.jobs ELSE Append(s.jobs, first)
      fin   == e.type = "job.finished"
      Row(j) ==
        LET said   == IF e.status # None THEN e.status ELSE j.status
            status == IF fin /\ ~ClientJobDone(said) THEN "completed" ELSE said
        IN [j EXCEPT !.call   = IF e.call # None THEN e.call ELSE @,
                     !.kind   = IF e.kind # None THEN e.kind ELSE @,
                     !.used   = IF e.used # 0 THEN e.used ELSE @,
                     !.status = status,
                     !.ended  = @ \/ ClientJobDone(status)]
      Its(j)  == j.id = e.job
      after   == Change(jobs, Its, Row)
      job     == Entry(after, e.job)
      Waits(it)  == /\ job.call # None /\ it.id = <<"tool", job.call>>
                    /\ it.status \in {"in_progress", "pending"}
      Settle(it) == [it EXCEPT !.status =
                       IF job.status \in {"failed", "completed"} THEN job.status
                       ELSE "cancelled"]
  IN [s EXCEPT !.jobs  = after,
               !.items = IF fin THEN Change(@, Waits, Settle) ELSE @]

-----------------------------------------------------------------------------

ClientTurnStarted(s, e) ==
  LET held   == SelectSeq(s.queued, LAMBDA q : e.queue # None /\ q.id = e.queue)
      prompt == IF e.prompt # None THEN e.prompt
                ELSE IF held # <<>> THEN held[1].prompt ELSE None
      Due(q)  == q.id = e.queue
      Sent(q) == [q EXCEPT !.status = "sent", !.turn = e.turn, !.rev = @ + 1]
  IN [s EXCEPT
        !.phase  = "turn",
        !.title  = IF @ # None THEN @ ELSE IF e.recovery THEN None ELSE prompt,
        !.turns  = Append(@, [id |-> e.turn, prompt |-> prompt, done |-> FALSE,
                              stop |-> None, recovery |-> e.recovery,
                              diff |-> 0]),
        !.sched  = Change(@, Due, Sent),
        !.queued = IF e.queue # None THEN Without(@, e.queue) ELSE @,
        !.items  = IF prompt # None
                   THEN ClientUpsert(@, <<"prompt", e.turn>>,
                          LAMBDA it : [it EXCEPT !.kind = "message",
                                         !.text = prompt, !.turn = e.turn])
                   ELSE @]

\* Only the finish of the open turn takes the thread idle.
MatchesAny(open, turn) == TRUE
Matches(open, turn) == open = None \/ turn = open

ClientTurnFinished(s, e) ==
  LET match  == Matches(ClientOpen(s.turns), e.turn)
      Failed(q)  == q.turn = e.turn /\ e.stop = "error"
      Fail(q)    == [q EXCEPT !.status = "failed", !.rev = @ + 1]
      Its(t)     == t.id = e.turn
      Finish(t)  == [t EXCEPT !.done = TRUE, !.stop = e.stop]
      Cut(it)    == /\ it.kind = "tool"
                    /\ it.status \in {"in_progress", "pending"}
                    /\ it.turn = e.turn \/ it.turn = None
                    /\ ~\E i \in DOMAIN s.jobs :
                          /\ ~ClientJobDone(s.jobs[i].status)
                          /\ <<"tool", s.jobs[i].call>> = it.id
      Cancel(it) == [it EXCEPT !.status = "cancelled"]
  IN [s EXCEPT !.phase = IF match THEN "idle" ELSE @,
               !.sched = Change(@, Failed, Fail),
               !.turns = Change(@, Its, Finish),
               !.items = IF match THEN Change(@, Cut, Cancel) ELSE @]

ClientPromptInjected(s, e) ==
  LET held == SelectSeq(s.queued, LAMBDA q : q.id = e.queue)
  IN IF held = <<>> THEN s
     ELSE [s EXCEPT
             !.queued = Without(@, e.queue),
             !.items  = ClientUpsert(@, <<"prompt", e.queue>>,
                LAMBDA it : [it EXCEPT !.kind = "message",
                               !.text = held[1].prompt, !.turn = e.turn])]

\* A schedule that is edited moves to the end of the list.
ClientPromptScheduled(s, e) ==
  [s EXCEPT !.sched = Append(Without(@, e.plan.id), e.plan)]

-----------------------------------------------------------------------------

ClientMessageChunk(s, e) ==
  [s EXCEPT !.phase = IF @ = "idle" THEN "turn" ELSE @,
            !.items = ClientUpsert(@, <<"block", e.block>>,
               LAMBDA it : [it EXCEPT !.kind = "message", !.turn = e.turn,
                              !.parent = IF e.parent # None THEN e.parent ELSE @,
                              !.body = @ + 1])]

ClientToolStarted(s, e) ==
  [s EXCEPT !.phase = IF @ = "idle" THEN "turn" ELSE @,
            !.items = ClientUpsert(@, <<"tool", e.tool>>,
               LAMBDA it : [it EXCEPT !.kind = "tool", !.turn = e.turn,
                              !.status = e.status,
                              !.parent = IF e.parent # None THEN e.parent ELSE @])]

\* A call in front of the window is left to the page that brings it.
NeverPagedOut(s, id) == FALSE
PagedOut(s, id) == s.before > 0 /\ ~\E i \in DOMAIN s.items : s.items[i].id = id

ClientToolUpdated(s, e) ==
  IF PagedOut(s, <<"tool", e.tool>>) THEN s
  ELSE [s EXCEPT
          !.phase = IF @ = "idle" /\ e.status = "in_progress" THEN "turn" ELSE @,
          !.items = ClientUpsert(@, <<"tool", e.tool>>,
             LAMBDA it : [it EXCEPT !.kind = "tool",
                            !.status = IF e.status # None THEN e.status ELSE @,
                            !.parent = IF e.parent # None THEN e.parent ELSE @,
                            !.body = @ + e.content])]

ClientNotice(s, e) ==
  [s EXCEPT !.items = ClientUpsert(@, <<"notice", e.seq>>,
     LAMBDA it : [it EXCEPT !.kind = "notice", !.text = e.type])]

ClientArtefactShown(s, e) ==
  LET artefact == [id |-> e.artefact, at |-> e.seq, turn |-> e.turn]
      Same(a)  == a.id = e.artefact
      list == IF Holds(s.artefacts, e.artefact)
              THEN Change(s.artefacts, Same, LAMBDA a : artefact)
              ELSE Append(s.artefacts, artefact)
  IN [s EXCEPT !.artefacts = list,
               !.items = IF e.upload THEN @
                         ELSE ClientUpsert(@, <<"artefact", e.seq>>,
                           LAMBDA it : [it EXCEPT !.kind = "artefact",
                                          !.turn = e.turn, !.text = e.artefact])]

-----------------------------------------------------------------------------

ClientElicitationRequested(s, e) ==
  [s EXCEPT !.asks  = Append(@, [id |-> e.req, card |-> e.card]),
            !.items = IF ~e.card THEN @
                      ELSE ClientUpsert(@, <<"card", e.req>>,
                        LAMBDA it : [it EXCEPT !.kind = "card",
                                       !.turn = e.turn, !.status = "pending"])]

ClientElicitationResolved(s, e) ==
  LET result == IF e.action = "accept" THEN "saved"
                ELSE IF e.action = "decline" THEN "declined" ELSE "cancelled"
      id == <<"card", e.req>>
      t  == [s EXCEPT !.asks = Without(@, e.req)]
  IN IF ~Holds(s.items, id) THEN t
     ELSE [t EXCEPT !.items = ClientUpsert(@, id,
                       LAMBDA it : [it EXCEPT !.status = result])]

ClientConfigChanged(s, e) ==
  [s EXCEPT !.model  = IF e.replace THEN e.model
                       ELSE IF e.model # None THEN e.model ELSE @,
            !.effort = IF e.touched THEN e.effort ELSE @]

ClientWorkspace(s, e) ==
  LET down == e.type = "workspace.hook_started" /\ e.hook = "deprovision"
      to == [x \in {"workspace.requested", "workspace.ready", "workspace.failed",
                    "workspace.cleanup_started", "workspace.cleanup_failed"} |->
               CASE x = "workspace.requested"       -> "provisioning"
                 [] x = "workspace.ready"           -> "ready"
                 [] x = "workspace.failed"          -> "provision_failed"
                 [] x = "workspace.cleanup_started" -> "cleaning"
                 [] OTHER                           -> "cleanup_failed"]
      ws == IF e.type \in DOMAIN to THEN to[e.type]
            ELSE IF down THEN "cleaning"
            ELSE IF e.type = "workspace.hook_started" THEN s.ws.phase
            ELSE "released"
  IN [s EXCEPT
        !.phase = IF e.type = "workspace.ready" THEN "idle"
                  ELSE IF e.type \in DOMAIN to \/ down THEN ws ELSE @,
        !.ws = [phase |-> ws,
                hook  |-> CASE e.type = "workspace.requested" -> None
                            [] e.type = "workspace.hook_started" -> e.hook
                            [] OTHER -> @.hook,
                error |-> CASE e.type \in {"workspace.requested",
                                           "workspace.ready"} -> None
                            [] e.type \in {"workspace.failed",
                                           "workspace.cleanup_failed"} -> "failed"
                            [] OTHER -> @.error,
                purge |-> CASE e.type = "workspace.requested" -> FALSE
                            [] e.type = "workspace.cleanup_started" -> e.purge
                            [] OTHER -> @.purge]]

-----------------------------------------------------------------------------

\* applyEvent.  Events at or below the applied cursor are discarded.
ApplyEvent(state, e) ==
  LET s == [state EXCEPT !.seq = e.seq]
  IN CASE e.seq <= state.seq           -> state
       [] e.type = "turn.started"      -> ClientTurnStarted(s, e)
       [] e.type = "turn.finished"     -> ClientTurnFinished(s, e)
       [] e.type = "turn.diff"         ->
            LET Its(t) == t.id = e.turn
            IN [s EXCEPT !.turns =
                  Change(@, Its, LAMBDA t : [t EXCEPT !.diff = e.seq])]
       [] e.type = "prompt.queued"     ->
            [s EXCEPT !.queued = Append(@, [id |-> e.queue, prompt |-> e.prompt,
                                            sent |-> e.sent])]
       [] e.type = "prompt.injected"   -> ClientPromptInjected(s, e)
       [] e.type = "prompt.dequeued"   -> [s EXCEPT !.queued = Without(@, e.queue)]
       [] e.type = "prompt.scheduled"  -> ClientPromptScheduled(s, e)
       [] e.type = "message.chunk"     -> ClientMessageChunk(s, e)
       [] e.type = "tool_call.started" -> ClientToolStarted(s, e)
       [] e.type = "tool_call.updated" -> ClientToolUpdated(s, e)
       [] e.type \in {"job.updated", "job.finished"} -> ClientJobRow(s, e)
       [] e.type \in {"context.compacted", "thread.account_changed"} ->
            ClientNotice(s, e)
       [] e.type = "artefact.shown"    -> ClientArtefactShown(s, e)
       [] e.type = "permission.requested" ->
            [s EXCEPT !.pending = Append(@, [id |-> e.req, call |-> e.call])]
       [] e.type = "permission.resolved" ->
            [s EXCEPT !.pending = Without(@, e.req)]
       [] e.type = "elicitation.requested" -> ClientElicitationRequested(s, e)
       [] e.type = "elicitation.resolved"  -> ClientElicitationResolved(s, e)
       [] e.type = "thread.config_changed" -> ClientConfigChanged(s, e)
       [] e.type = "thread.closed" -> [s EXCEPT !.closed = TRUE,
                                                !.phase = "closed"]
       [] OTHER -> ClientWorkspace(s, e)
=============================================================================
