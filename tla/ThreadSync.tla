----------------------------- MODULE ThreadSync -----------------------------
(***************************************************************************)
(* How one presenter stays in step with one thread: the actor's append and *)
(* fanout, the subscription it feeds, the connection's attach handler and  *)
(* drain goroutine, the socket, and the web client's cursor.               *)
(*                                                                         *)
(* internal/thread/actor.go (append, fanout, Subscribe, Attach, shutdown), *)
(* internal/server/ws.go (attach, detach), internal/server/server.go (the  *)
(* HTTP snapshot), web/src/client.ts, web/src/apply.ts.                    *)
(*                                                                         *)
(* An event is its seq.  A state is the set of seqs folded into it; the    *)
(* trimming of a snapshot's oldest items is left out.  The socket keeps    *)
(* order; losing it loses everything in flight.                            *)
(***************************************************************************)
EXTENDS Integers, Sequences

CONSTANTS Subs,          \* subscriptions that may exist at once
          NoSub,
          QueueCap,      \* SubscriberQueue
          MaxReplayGap,
          MaxWire,       \* bound on frames in flight to the client
          MaxSeq,        \* bound on the log
          MaxDrops,      \* bound on lost connections
          MaxExits,      \* bound on actors that end
          MaxSelects     \* bound on the times the thread is picked

ASSUME ConstantsOK ==
  /\ NoSub \notin Subs
  /\ {MaxWire, MaxSeq, MaxDrops, MaxExits, MaxSelects} \subseteq Nat
  /\ {QueueCap, MaxReplayGap} \subseteq Nat \ {0}

VARIABLES
  stored, head, step, live, exits,          \* the log and its actor
  sub,                                      \* the subscriptions
  job, attached,                            \* the connection's read loop
  online, up, down, drops,                  \* the socket
  wanted, applied, cursor, request, answer, selects   \* the client

actorVars  == <<stored, head, step, live, exits>>
serverVars == <<job, attached>>
clientVars == <<wanted, applied, cursor, request, answer, selects>>
vars == <<actorVars, sub, serverVars, online, up, down, drops, clientVars>>

Seqs   == 0..MaxSeq
Frames == [kind : {"event", "snapshot", "synchronized"}, seq : Seqs]
            \cup {[kind |-> "resync", seq |-> 0]}
Asks   == [kind : {"attach", "attach_fresh", "detach"}, after : Seqs]

\* phase: who uses it.  listed: fanout delivers to it.  end: the head of its
\* actor when that ended.  upto: what the catch-up sent.
NewSub  == [phase |-> "reading", buf |-> <<>>, listed |-> TRUE,
            dropped |-> FALSE, closed |-> FALSE, cancelled |-> FALSE,
            end |-> 0, upto |-> 0]
FreeSub == [NewSub EXCEPT !.phase = "free", !.listed = FALSE]
Idle    == [pc |-> "idle", sub |-> NoSub, fresh |-> FALSE, after |-> 0,
            upto |-> 0, out |-> <<>>]

Frame(k, n) == [kind |-> k, seq |-> n]
Events(m, n) == [i \in 1..(n - m) |-> Frame("event", m + i)]

-----------------------------------------------------------------------------
(* The actor: an event is stored, folded, then delivered.                  *)

\* SubscriberQueue is a channel of that size.
Room(s) == Len(s.buf) < QueueCap

\* A subscriber that is too slow is dropped.
DropSlow(s) == [s EXCEPT !.dropped = TRUE, !.listed = FALSE]

Deliver(s, n) ==
  IF ~s.listed THEN s
  ELSE IF Room(s) THEN [s EXCEPT !.buf = Append(@, n)] ELSE DropSlow(s)

Store ==
  /\ live /\ step = "loop"
  /\ stored < MaxSeq
  /\ stored' = stored + 1
  /\ step' = "fold"
  /\ UNCHANGED <<head, live, exits, sub, serverVars, online, up, down, drops,
                 clientVars>>

Fold ==
  /\ step = "fold"
  /\ head' = stored
  /\ step' = "fanout"
  /\ UNCHANGED <<stored, live, exits, sub, serverVars, online, up, down, drops,
                 clientVars>>

Fanout ==
  /\ step = "fanout"
  /\ sub' = [i \in Subs |-> Deliver(sub[i], head)]
  /\ step' = "loop"
  /\ UNCHANGED <<stored, head, live, exits, serverVars, online, up, down, drops,
                 clientVars>>

\* The harness ends and takes its actor along.
ActorExit ==
  /\ live /\ step = "loop"
  /\ exits < MaxExits
  /\ live' = FALSE
  /\ exits' = exits + 1
  /\ sub' = [i \in Subs |->
               IF sub[i].listed
               THEN [sub[i] EXCEPT !.closed = TRUE, !.listed = FALSE,
                                   !.end = head]
               ELSE sub[i]]
  /\ UNCHANGED <<stored, head, step, serverVars, online, up, down, drops,
                 clientVars>>

\* A command for a thread with no actor makes the manager restore one.
Restore ==
  /\ ~live
  /\ live' = TRUE
  /\ UNCHANGED <<stored, head, step, exits, sub, serverVars, online, up, down,
                 drops, clientVars>>

-----------------------------------------------------------------------------
(* The connection's read loop.                                             *)

Detached == [i \in Subs |->
  IF i = attached THEN [sub[i] EXCEPT !.cancelled = TRUE, !.listed = FALSE]
  ELSE sub[i]]

ServeDetach ==
  /\ job.pc = "idle" /\ up # <<>>
  /\ Head(up).kind = "detach"
  /\ up' = Tail(up)
  /\ sub' = Detached
  /\ attached' = NoSub
  /\ UNCHANGED <<actorVars, job, online, down, drops, clientVars>>

\* View, Subscribe.
ServeAttach(i) ==
  /\ job.pc = "idle" /\ up # <<>>
  /\ Head(up).kind # "detach"
  /\ sub[i].phase = "free"
  /\ live' = TRUE
  /\ up' = Tail(up)
  /\ sub' = [Detached EXCEPT ![i] = NewSub]
  /\ attached' = NoSub
  /\ job' = [Idle EXCEPT !.pc = "subscribed", !.sub = i, !.after = Head(up).after,
                         !.fresh = (Head(up).kind = "attach_fresh")]
  /\ UNCHANGED <<stored, head, step, exits, online, down, drops, clientVars>>

\* Attach reads the head of its actor, which may have ended, and decides.
HeadSeen == IF sub[job.sub].closed THEN sub[job.sub].end ELSE head

Plan ==
  /\ job.pc = "subscribed"
  /\ job' = [job EXCEPT !.pc = "planned",
               !.fresh = \/ job.fresh
                         \/ HeadSeen < job.after
                         \/ HeadSeen - job.after > MaxReplayGap]
  /\ UNCHANGED <<actorVars, sub, attached, online, up, down, drops, clientVars>>

\* The actor loop hands out its state between two commands.
ReadState ==
  /\ job.pc = "planned" /\ job.fresh
  /\ ~sub[job.sub].closed
  /\ step = "loop"
  /\ job' = [job EXCEPT !.pc = "sending", !.upto = head,
               !.out = <<Frame("snapshot", head), Frame("synchronized", head)>>]
  /\ UNCHANGED <<actorVars, sub, attached, online, up, down, drops, clientVars>>

\* It has ended: the attach is answered with an error, which the client shows.
Refused == job.pc = "planned" /\ job.fresh /\ sub[job.sub].closed

AttachFails ==
  /\ Refused
  /\ sub' = [sub EXCEPT ![job.sub] = FreeSub]
  /\ job' = Idle
  /\ UNCHANGED <<actorVars, attached, online, up, down, drops, clientVars>>

\* At most MaxReplayGap events are read, whatever was stored since the head.
ReadsTo(after) ==
  IF stored - after > MaxReplayGap THEN after + MaxReplayGap ELSE stored

\* Fault: the newest are read instead.
ReplayNewest(after) ==
  Events(IF stored - after > MaxReplayGap THEN stored - MaxReplayGap ELSE after,
         stored)
Replay(after) == Events(after, ReadsTo(after))

\* Fault: everything stored counts as read.
CountsAll(after) == stored
LastRead(after) == ReadsTo(after)

ReadLog ==
  /\ job.pc = "planned" /\ ~job.fresh
  /\ LET last == LastRead(job.after)
     IN  job' = [job EXCEPT !.pc = "sending", !.upto = last,
                   !.out = Append(Replay(job.after), Frame("synchronized", last))]
  /\ UNCHANGED <<actorVars, sub, attached, online, up, down, drops, clientVars>>

SendCatchUp ==
  /\ job.pc = "sending" /\ job.out # <<>>
  /\ Len(down) < MaxWire
  /\ down' = Append(down, Head(job.out))
  /\ job' = [job EXCEPT !.out = Tail(@)]
  /\ UNCHANGED <<actorVars, sub, attached, online, up, drops, clientVars>>

StartDrain ==
  /\ job.pc = "sending" /\ job.out = <<>>
  /\ attached' = job.sub
  /\ sub' = [sub EXCEPT ![job.sub].phase = "draining", ![job.sub].upto = job.upto,
                        ![job.sub].end = 0]
  /\ job' = Idle
  /\ UNCHANGED <<actorVars, online, up, down, drops, clientVars>>

-----------------------------------------------------------------------------
(* The drain goroutine of a subscription: select takes any ready case.     *)

Free(i) ==
  /\ sub' = [sub EXCEPT ![i] = FreeSub]
  /\ attached' = IF attached = i THEN NoSub ELSE attached

DrainEvent(i) ==
  /\ sub[i].phase = "draining"
  /\ sub[i].buf # <<>>
  /\ LET n == Head(sub[i].buf)
     IN  IF n > sub[i].upto
         THEN Len(down) < MaxWire /\ down' = Append(down, Frame("event", n))
         ELSE UNCHANGED down
  /\ sub' = [sub EXCEPT ![i].buf = Tail(@)]
  /\ UNCHANGED <<actorVars, serverVars, online, up, drops, clientVars>>

\* Fault: the drain ends without a word.
Silently == UNCHANGED down
SayResync == down' = Append(down, Frame("resync", 0))

DrainResync(i) ==
  /\ sub[i].phase = "draining"
  /\ sub[i].dropped
  /\ Len(down) < MaxWire
  /\ SayResync
  /\ Free(i)
  /\ UNCHANGED <<actorVars, job, online, up, drops, clientVars>>

\* The connection has detached, or the actor has closed the channel.
DrainStop(i) ==
  /\ sub[i].phase = "draining"
  /\ \/ sub[i].cancelled
     \/ sub[i].closed /\ sub[i].buf = <<>>
  /\ Free(i)
  /\ UNCHANGED <<actorVars, job, online, up, down, drops, clientVars>>

-----------------------------------------------------------------------------
(* The socket.  The server side of a lost connection ends with it.         *)

Ask(k, n) == [kind |-> k, after |-> n]
Send(asks) == up' = IF online THEN up \o asks ELSE up

Connect ==
  /\ ~online
  /\ online' = TRUE
  /\ up' = IF wanted /\ request = "none" THEN <<Ask("attach", cursor)>> ELSE <<>>
  /\ UNCHANGED <<actorVars, sub, serverVars, down, drops, clientVars>>

Disconnect ==
  /\ online /\ drops < MaxDrops
  /\ online' = FALSE
  /\ drops' = drops + 1
  /\ up' = <<>> /\ down' = <<>>
  /\ sub' = [i \in Subs |-> FreeSub]
  /\ job' = Idle /\ attached' = NoSub
  /\ UNCHANGED <<actorVars, clientVars>>

-----------------------------------------------------------------------------
(* The client.                                                             *)

Show(seqs, n) == applied' = seqs /\ cursor' = n

\* attach(threadId): the HTTP snapshot first, whatever was shown before.
Select ==
  /\ selects < MaxSelects
  /\ selects' = selects + 1
  /\ wanted' = TRUE
  /\ Show({}, 0)
  /\ request' = "asked" /\ answer' = 0
  /\ UNCHANGED <<actorVars, sub, serverVars, online, up, down, drops>>

Leave ==
  /\ wanted
  /\ wanted' = FALSE
  /\ Show({}, 0)
  /\ request' = "none" /\ answer' = 0
  /\ Send(<<Ask("detach", 0)>>)
  /\ UNCHANGED <<actorVars, sub, serverVars, online, down, drops, selects>>

\* GET /api/threads/{id}: View, then the loop's state.
HTTPAnswer ==
  /\ request = "asked"
  /\ step = "loop"
  /\ live' = TRUE
  /\ request' = "answered" /\ answer' = head
  /\ UNCHANGED <<stored, head, step, exits, sub, serverVars, online, up, down,
                 drops, wanted, applied, cursor, selects>>

HTTPShow ==
  /\ request = "answered"
  /\ Show(1..answer, answer)
  /\ Send(<<Ask("attach", answer)>>)
  /\ request' = "none" /\ answer' = 0
  /\ UNCHANGED <<actorVars, sub, serverVars, online, down, drops, wanted, selects>>

HTTPFail ==
  /\ request = "asked"
  /\ Send(<<Ask("attach_fresh", 0)>>)
  /\ request' = "none"
  /\ UNCHANGED <<actorVars, sub, serverVars, online, down, drops, wanted,
                 applied, cursor, answer, selects>>

\* applyEvent discards what it has; it does not look for gaps.
ShowEvent(n) == IF n <= cursor THEN Show(applied, cursor)
                ELSE Show(applied \cup {n}, n)

Reattach == Send(<<Ask("attach", cursor)>>)

Receive ==
  /\ down # <<>>
  /\ down' = Tail(down)
  /\ LET f == Head(down)
     IN  \/ /\ ~wanted \/ f.kind = "synchronized"
            /\ UNCHANGED <<applied, cursor, up>>
         \/ /\ wanted /\ f.kind = "snapshot"
            /\ Show(1..f.seq, f.seq)
            /\ UNCHANGED up
         \/ /\ wanted /\ f.kind = "event"
            /\ ShowEvent(f.seq)
            /\ UNCHANGED up
         \/ /\ wanted /\ f.kind = "resync"
            /\ Reattach
            /\ UNCHANGED <<applied, cursor>>
  /\ UNCHANGED <<actorVars, sub, serverVars, online, drops, wanted, request,
                 answer, selects>>

-----------------------------------------------------------------------------
\* The page is loaded with no thread open and no connection yet.
Init ==
  /\ stored = 0 /\ head = 0 /\ step = "loop" /\ live = TRUE /\ exits = 0
  /\ sub = [i \in Subs |-> FreeSub]
  /\ job = Idle /\ attached = NoSub
  /\ online = FALSE /\ up = <<>> /\ down = <<>> /\ drops = 0
  /\ wanted = FALSE /\ applied = {} /\ cursor = 0
  /\ request = "none" /\ answer = 0 /\ selects = 0

Actor  == Store \/ Fold \/ Fanout \/ ActorExit \/ Restore
Serve  == ServeDetach \/ (\E i \in Subs : ServeAttach(i)) \/ Plan \/ ReadState
            \/ AttachFails \/ ReadLog \/ SendCatchUp \/ StartDrain
Drain(i) == DrainEvent(i) \/ DrainResync(i) \/ DrainStop(i)
Client == Connect \/ Disconnect \/ Select \/ Leave \/ HTTPAnswer \/ HTTPShow
            \/ HTTPFail \/ Receive

Next == Actor \/ Serve \/ (\E i \in Subs : Drain(i)) \/ Client

Spec == Init /\ [][Next]_vars

-----------------------------------------------------------------------------
SubOK(s) ==
  /\ s.phase \in {"free", "reading", "draining"}
  /\ s.buf \in Seq(Seqs) /\ Len(s.buf) <= QueueCap
  /\ {s.listed, s.dropped, s.closed, s.cancelled} \subseteq BOOLEAN
  /\ s.end \in Seqs /\ s.upto \in Seqs
JobOK ==
  /\ job.pc \in {"idle", "subscribed", "planned", "sending"}
  /\ job.sub \in Subs \cup {NoSub}
  /\ job.fresh \in BOOLEAN /\ job.after \in Seqs /\ job.upto \in Seqs
  /\ job.out \in Seq(Frames) /\ Len(job.out) <= MaxReplayGap + 2

\* Types, and what the server may hold for a slow reader: a queue never grows
\* past its capacity, whatever the harness streams (Actor.fanout).
TypeOK ==
  /\ stored \in Seqs /\ head \in Seqs /\ step \in {"loop", "fold", "fanout"}
  /\ live \in BOOLEAN /\ exits \in Nat
  /\ \A i \in Subs : SubOK(sub[i])
  /\ JobOK /\ attached \in Subs \cup {NoSub}
  /\ online \in BOOLEAN /\ up \in Seq(Asks) /\ drops \in Nat
  /\ down \in Seq(Frames) /\ Len(down) <= MaxWire
  /\ wanted \in BOOLEAN /\ applied \subseteq Seqs /\ cursor \in Seqs
  /\ request \in {"none", "asked", "answered"} /\ answer \in Seqs
  /\ selects \in Nat

\* The reader of one attachment has no hole: it shows the log up to its cursor,
\* however store, fanout, replay, overflow and reconnection interleave, since
\* applyEvent would never fill one (Actor.append, conn.attach, apply.ts).
Gapless == applied = 1..cursor

\* A `synchronized' frame tells no lie when it arrives: all it covers is shown,
\* though the replay is cut off and the log grows meanwhile (conn.attach).
SynchronizedIsComplete ==
  down # <<>> /\ wanted /\ request = "none" =>
    LET f == Head(down)
    IN  f.kind = "synchronized" => 1..f.seq \subseteq applied

\* What a reader shows has no hole, and what it is told about it is true.
ReaderHonest == Gapless /\ SynchronizedIsComplete

\* "After `synchronized', client state equals server state as of that seq - no
\* event skipped or duplicated" (omniplex-spec.md:240), of a thread picked
\* again too: once attaching has settled, the reader has no hole.
Settled == /\ wanted /\ online /\ request = "none" /\ up = <<>> /\ down = <<>>
           /\ job.pc = "idle" /\ attached # NoSub
SettledIsComplete == Settled => Gapless

\* Store, fanout, attach, drain and client together implement what a reader is
\* promised, LogView.  A reader with a hole is nowhere on the log.
View == IF Gapless THEN cursor ELSE MaxSeq + 1
Reader == INSTANCE LogView WITH log <- stored, view <- View
ReaderSpec == Reader!Spec

\* Goroutines and the browser run; a lost connection is made again.  The drain's
\* select is fair to its cases.
Fairness ==
  /\ WF_vars(Fold) /\ WF_vars(Fanout)
  /\ WF_vars(Serve) /\ SF_vars(ReadState)
  /\ \A i \in Subs : /\ WF_vars(DrainEvent(i)) /\ SF_vars(DrainResync(i))
                      /\ SF_vars(DrainStop(i))
  /\ WF_vars(Connect) /\ SF_vars(HTTPAnswer) /\ WF_vars(HTTPShow)
  /\ WF_vars(Receive)
FairSpec == Spec /\ Fairness

\* Whatever was stored reaches a reader that stays, whether its connection is
\* lost, its queue overflows, or the log outruns the replay, as long as the
\* thread keeps its actor.
Reaches(n) == cursor >= n \/ ~wanted
CaughtUp == \A n \in 1..MaxSeq : wanted /\ stored >= n ~> Reaches(n) \/ exits > 0

\* And likewise when the actor ends meanwhile and another takes over ("so the
\* next attach resumes the thread cleanly", manager.go:1248), unless the reader
\* was told that its attach had failed.
CaughtUpAcrossExits ==
  <>Refused \/ \A n \in 1..MaxSeq : wanted /\ stored >= n ~> Reaches(n)
=============================================================================
