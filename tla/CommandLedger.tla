--------------------------- MODULE CommandLedger ---------------------------
(***************************************************************************)
(* The commands of one client about one thread: the web client's pending   *)
(* table and its resends, the goroutine the server runs for every frame,   *)
(* the durable claim of a command id, and the calls those goroutines make   *)
(* into the actor's inbox.                                                 *)
(*                                                                         *)
(* web/src/client.ts (command, onopen, ack), internal/server/ws.go         *)
(* (dispatch, command, ack), internal/store/store.go (ClaimCommand,        *)
(* ReleaseCommand, CompleteCommand, DeleteThread), internal/thread/actor.go *)
(* (call, run).                                                            *)
(*                                                                         *)
(* A runner is the goroutine of one frame: <<o, n>> is operation o as the  *)
(* n-th connection carried it.  The client sends an operation once per     *)
(* connection, so this names every copy there can be.                      *)
(***************************************************************************)
EXTENDS Naturals, Sequences, FiniteSets

CONSTANTS Ops,          \* command ids that go through the ledger
          Delete,       \* the operation that deletes the thread
          NoRunner,
          MaxConns,     \* bound on connections the client makes
          MaxCrashes,   \* bound on server crashes
          MaxStops      \* bound on exits of the thread's actor

Conns   == 1 .. MaxConns
Runners == Ops \X Conns

ASSUME LedgerConstants ==
  /\ NoRunner \notin Runners
  /\ MaxConns \in Nat /\ MaxCrashes \in Nat /\ MaxStops \in Nat

VARIABLES
  promise,    \* the client's view of an operation
  answer,     \* what it was answered: 0 is an error
  conn, online,
  frames,     \* command frames on the wire
  acks,       \* ack frames on the wire
  pc,         \* what a runner does next
  reply,      \* the answer its call got: 0 is an error
  inbox,      \* the actor's inbox, as the runners whose call is in it
  claims, stored,          \* the commands table
  gone, erasing,           \* the thread is deleted; its rows are yet to go
  crashes, stops,
  ran,        \* history: how often an operation took effect
  abandoned   \* history: calls left in the inbox by a runner out of time

clientVars == <<promise, answer, conn, online>>
wireVars   == <<frames, acks>>
tableVars  == <<claims, stored>>
threadVars == <<gone, erasing, inbox>>
boundVars  == <<crashes, stops>>
vars == <<clientVars, wireVars, pc, reply, tableVars, threadVars, boundVars,
          ran, abandoned>>

Acks == [op : Ops, conn : Conns, result : Nat]
Steps == {"none", "claim", "run", "await", "replied", "done"}

ClientTypeOK ==
  /\ promise \in [Ops -> {"new", "pending", "settled"}]
  /\ answer \in [Ops -> Nat]
  /\ conn \in 0 .. MaxConns /\ online \in BOOLEAN
  /\ frames \subseteq Runners /\ acks \subseteq Acks
RunnerTypeOK ==
  /\ pc \in [Runners -> Steps] /\ reply \in [Runners -> Nat]
  /\ inbox \in Seq(Runners)
TableTypeOK ==
  /\ claims \in [Ops -> {"free", "taken", "done"}] /\ stored \in [Ops -> Nat]
  /\ gone \in BOOLEAN /\ erasing \in BOOLEAN
CountTypeOK ==
  /\ crashes \in Nat /\ stops \in Nat
  /\ ran \in [Ops -> Nat] /\ abandoned \in [Ops -> Nat]
TypeOK == ClientTypeOK /\ RunnerTypeOK /\ TableTypeOK /\ CountTypeOK

Init ==
  /\ promise = [o \in Ops |-> "new"]
  /\ answer = [o \in Ops |-> 0]
  /\ conn = 0 /\ online = FALSE
  /\ frames = {} /\ acks = {}
  /\ pc = [r \in Runners |-> "none"] /\ reply = [r \in Runners |-> 0]
  /\ inbox = <<>>
  /\ claims = [o \in Ops |-> "free"] /\ stored = [o \in Ops |-> 0]
  /\ gone = FALSE /\ erasing = FALSE
  /\ crashes = 0 /\ stops = 0
  /\ ran = [o \in Ops |-> 0] /\ abandoned = [o \in Ops |-> 0]

-----------------------------------------------------------------------------
(* The client.                                                             *)

\* command: the id is pending, and its frame leaves if the socket is open.
Issue(o) ==
  /\ promise[o] = "new"
  /\ promise' = [promise EXCEPT ![o] = "pending"]
  /\ frames' = frames \cup (IF online THEN {<<o, conn>>} ELSE {})
  /\ UNCHANGED <<answer, conn, online, acks, pc, reply, tableVars, threadVars,
                 boundVars, ran, abandoned>>

\* onopen: every pending operation is sent again with its id.
\* Fault: nothing is.
Pending == {o \in Ops : promise[o] = "pending"}
ResentNever(c) == {}
Resent(c) == Pending \X {c}

Connect ==
  /\ ~online /\ conn < MaxConns
  /\ online' = TRUE /\ conn' = conn + 1
  /\ frames' = Resent(conn + 1)
  /\ UNCHANGED <<promise, answer, acks, pc, reply, tableVars, threadVars, boundVars,
                 ran, abandoned>>

\* The socket closes: what was on the wire either way is lost.
Lost == online' = FALSE /\ frames' = {} /\ acks' = {}

Disconnect ==
  /\ online /\ conn < MaxConns
  /\ Lost
  /\ UNCHANGED <<promise, answer, conn, pc, reply, tableVars, threadVars, boundVars,
                 ran, abandoned>>

\* An ack settles a pending operation, whichever connection it came over.
Settle(a) ==
  /\ a \in acks
  /\ acks' = acks \ {a}
  /\ IF promise[a.op] = "pending"
     THEN /\ promise' = [promise EXCEPT ![a.op] = "settled"]
          /\ answer' = [answer EXCEPT ![a.op] = a.result]
     ELSE UNCHANGED <<promise, answer>>
  /\ UNCHANGED <<conn, online, frames, pc, reply, tableVars, threadVars,
                 boundVars, ran, abandoned>>

-----------------------------------------------------------------------------
(* The server: one runner per frame.                                       *)

\* ack goes to the connection that carried the frame, if it is still open.
Ack(r, result) ==
  acks' = IF online /\ r[2] = conn
          THEN acks \cup {[op |-> r[1], conn |-> r[2], result |-> result]}
          ELSE acks

Goes(r, step) == pc' = [pc EXCEPT ![r] = step]

\* dispatch: off the read loop, in a goroutine of its own.
Accept(r) ==
  /\ r \in frames
  /\ frames' = frames \ {r}
  /\ Goes(r, "claim")
  /\ UNCHANGED <<clientVars, acks, reply, tableVars, threadVars, boundVars,
                 ran, abandoned>>

\* ClaimCommand.  Fault: a claim that another holds is taken over.
MayClaimTaken(o) == claims[o] # "done"
MayClaim(o) == claims[o] = "free"

Claim(r) ==
  /\ pc[r] = "claim" /\ MayClaim(r[1])
  /\ claims' = [claims EXCEPT ![r[1]] = "taken"]
  /\ Goes(r, "run")
  /\ UNCHANGED <<clientVars, wireVars, reply, stored, threadVars, boundVars,
                 ran, abandoned>>

Replay(r) ==
  /\ pc[r] = "claim" /\ claims[r[1]] = "done"
  /\ Ack(r, stored[r[1]])
  /\ Goes(r, "done")
  /\ UNCHANGED <<clientVars, frames, reply, tableVars, threadVars, boundVars,
                 ran, abandoned>>

\* The poll for somebody else's claim runs out of time.
PollTimeout(r) ==
  /\ pc[r] = "claim" /\ claims[r[1]] = "taken"
  /\ Ack(r, 0)
  /\ Goes(r, "done")
  /\ UNCHANGED <<clientVars, frames, reply, tableVars, threadVars, boundVars,
                 ran, abandoned>>

\* execute, as far as the actor's inbox: a thread that is gone has no actor.
Send(r) ==
  /\ pc[r] = "run" /\ r[1] # Delete
  /\ IF gone
     THEN Goes(r, "replied") /\ UNCHANGED inbox
     ELSE Goes(r, "await") /\ inbox' = Append(inbox, r)
  /\ UNCHANGED <<clientVars, wireVars, reply, tableVars, gone, erasing,
                 boundVars, ran, abandoned>>

\* call gives up on its reply; the command stays in the inbox.
CallTimeout(r) ==
  /\ pc[r] \in {"run", "await"} /\ r[1] # Delete
  /\ Goes(r, "replied")
  /\ abandoned' = [abandoned EXCEPT ![r[1]] =
                     IF pc[r] = "await" THEN @ + 1 ELSE @]
  /\ UNCHANGED <<clientVars, wireVars, reply, tableVars, threadVars,
                 boundVars, ran>>

\* Manager.Delete: the actor goes.  A closed thread's rows go with it,
\* another's once its workspace is torn down.
Erased == /\ claims' = [o \in Ops |-> "free"]
          /\ stored' = [o \in Ops |-> 0]

Hung(r) == pc[r] = "await"
ActorExit ==
  /\ inbox' = <<>>
  /\ pc' = [r \in Runners |-> IF Hung(r) THEN "replied" ELSE pc[r]]

RunDelete(r) ==
  /\ pc[r] = "run" /\ r[1] = Delete
  /\ IF gone
     THEN /\ Goes(r, "replied")
          /\ UNCHANGED <<inbox, reply, gone, erasing, tableVars, ran>>
     ELSE /\ gone' = TRUE
          /\ inbox' = <<>>
          /\ pc' = [s \in Runners |-> IF s = r \/ Hung(s) THEN "replied" ELSE pc[s]]
          /\ reply' = [reply EXCEPT ![r] = 1]
          /\ ran' = [ran EXCEPT ![Delete] = @ + 1]
          /\ \/ erasing' = TRUE /\ UNCHANGED tableVars
             \/ Erased /\ UNCHANGED erasing
  /\ UNCHANGED <<clientVars, wireVars, boundVars, abandoned>>

Erase ==
  /\ erasing
  /\ erasing' = FALSE
  /\ Erased
  /\ UNCHANGED <<clientVars, wireVars, pc, reply, gone, inbox, boundVars, ran,
                 abandoned>>

\* run: the actor handles its inbox in order, and may refuse a command.
\* Fault: the newest command goes first.
NextCallLast == <<inbox[Len(inbox)], SubSeq(inbox, 1, Len(inbox) - 1)>>
NextCall == <<Head(inbox), Tail(inbox)>>

Handle ==
  /\ inbox # <<>>
  /\ LET r == NextCall[1]
         o == r[1]
     IN  /\ inbox' = NextCall[2]
         /\ \/ /\ ran' = [ran EXCEPT ![o] = @ + 1]
               /\ reply' = [reply EXCEPT ![r] =
                              IF pc[r] = "await" THEN ran[o] + 1 ELSE @]
            \/ UNCHANGED <<ran, reply>>
         /\ Goes(r, IF pc[r] = "await" THEN "replied" ELSE pc[r])
  /\ UNCHANGED <<clientVars, wireVars, tableVars, gone, erasing, boundVars,
                 abandoned>>

\* The harness exits or the thread is disposed: call returns ErrClosed.
Exit ==
  /\ stops < MaxStops /\ ~gone
  /\ stops' = stops + 1
  /\ ActorExit
  /\ UNCHANGED <<clientVars, wireVars, reply, tableVars, gone, erasing,
                 crashes, ran, abandoned>>

\* A runner with an answer.  ReleaseCommand only removes an unfinished claim,
\* CompleteCommand only updates a row that is there.
Released(o) == [claims EXCEPT ![o] = IF @ = "taken" THEN "free" ELSE @]

FinishFailed(r) ==
  /\ pc[r] = "replied" /\ reply[r] = 0
  /\ claims' = Released(r[1])
  /\ Ack(r, 0)
  /\ Goes(r, "done")
  /\ UNCHANGED <<clientVars, frames, reply, stored, threadVars, boundVars,
                 ran, abandoned>>

Finish(r) ==
  /\ pc[r] = "replied" /\ reply[r] # 0
  /\ \/ /\ claims[r[1]] # "free"
        /\ claims' = [claims EXCEPT ![r[1]] = "done"]
        /\ stored' = [stored EXCEPT ![r[1]] = reply[r]]
        /\ Ack(r, reply[r])
     \/ /\ claims[r[1]] = "free"           \* the row went with its thread
        /\ Ack(r, reply[r])
        /\ UNCHANGED tableVars
     \/ /\ Ack(r, 0)                       \* the result could not be persisted
        /\ UNCHANGED tableVars
  /\ Goes(r, "done")
  /\ UNCHANGED <<clientVars, frames, reply, threadVars, boundVars, ran,
                 abandoned>>

Crash ==
  /\ crashes < MaxCrashes /\ conn < MaxConns
  /\ crashes' = crashes + 1
  /\ Lost
  /\ pc' = [r \in Runners |-> IF pc[r] = "none" THEN "none" ELSE "done"]
  /\ inbox' = <<>>
  /\ UNCHANGED <<promise, answer, conn, reply, tableVars, gone, erasing, stops, ran,
                 abandoned>>

-----------------------------------------------------------------------------
RunnerStep(r) ==
  \/ Claim(r) \/ Replay(r) \/ PollTimeout(r)
  \/ Send(r) \/ CallTimeout(r) \/ RunDelete(r)
  \/ FinishFailed(r) \/ Finish(r)

Next ==
  \/ \E o \in Ops : Issue(o)
  \/ Connect \/ Disconnect \/ \E a \in acks : Settle(a)
  \/ \E r \in Runners : Accept(r) \/ RunnerStep(r)
  \/ Erase \/ Handle \/ Exit \/ Crash

Spec == Init /\ [][Next]_vars

\* The client reconnects and reads what it is sent; the server reads its
\* sockets, runs its goroutines, and every context has a deadline.  Nothing
\* is asked of the actor: it may never handle a command.
Fairness ==
  /\ WF_vars(Connect)
  /\ WF_vars(\E a \in acks : Settle(a))
  /\ \A r \in Runners : WF_vars(Accept(r)) /\ WF_vars(RunnerStep(r))

FairSpec == Spec /\ Fairness

-----------------------------------------------------------------------------
(* Properties.                                                             *)

\* A command id takes effect once, and once more for every time a runner ran
\* out of time with its call still in the actor's inbox (ws.go command, actor.go
\* call): a resend alone never runs it twice.
RunsAreAccounted == \A o \in Ops : ran[o] <= 1 + abandoned[o]

\* Nothing of a command takes effect once its result is on record: a call
\* left behind by a runner that timed out is ahead, in the inbox, of the call
\* whose result was stored.
NothingAfterDone ==
  [][\A o \in Ops : claims[o] = "done" => ran'[o] = ran[o]]_vars

\* A command takes effect once, and its recorded result is of its last run.
TakesEffectOnce == []RunsAreAccounted /\ NothingAfterDone

\* Every operation the client issued is settled, whatever is lost between.
Settles == \A o \in Ops : promise[o] = "pending" ~> promise[o] # "pending"

\* The ledger is a try-lock with a final outcome.
Working(o) == {r \in Runners : r[1] = o /\ pc[r] \in {"run", "await", "replied"}}
Once == INSTANCE OnceOnly WITH
  runner <- [o \in Ops |-> IF gone \/ Working(o) = {} THEN NoRunner
                           ELSE CHOOSE r \in Working(o) : TRUE],
  outcome <- [o \in Ops |-> IF gone THEN "lost"
                            ELSE IF claims[o] = "done" THEN "ended"
                            ELSE IF claims[o] = "taken" /\ Working(o) = {}
                            THEN "lost" ELSE "none"]
RunOnce == Once!Spec
=============================================================================
