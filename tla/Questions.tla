----------------------------- MODULE Questions -----------------------------
(***************************************************************************)
(* What one thread asks its user: permissions and elicitations, which the  *)
(* harness is blocked on, and cards, which the server holds while the       *)
(* agent's tool call waits.  Any presenter may answer; the harness may      *)
(* exit, the agent may leave and the server may die in between.             *)
(*                                                                         *)
(* internal/thread/actor.go (cmdAskPerm .. cmdResolveElicit, cmdActivate,   *)
(* shutdown, hostServices), internal/thread/cards.go (handleCard),          *)
(* internal/server/cards.go (cardBook, resolveCard, resolveLostCard),       *)
(* internal/server/agenttools.go (raiseAndWait), internal/server/ws.go      *)
(* (resolve_permission, resolve_elicitation).                               *)
(*                                                                         *)
(* A permission and an elicitation take the same path and are both asks.    *)
(* The actor serves one command at a time from goroutines that race to      *)
(* send it, so a command in its inbox is a step enabled in any order.       *)
(***************************************************************************)
EXTENDS Naturals, Sequences, FiniteSets

CONSTANTS Asks, Cards,  \* request ids
          Clients,      \* presenters
          NoReq,
          MaxFails,     \* bound on events the store refuses, calls unanswered
          MaxExits,     \* bound on actors that end
          MaxCrashes    \* bound on server crashes

Reqs     == Asks \cup Cards
Verdicts == {"yes", "no"}
Outcomes == Verdicts \cup {"cancelled"}

ASSUME QuestionConstants ==
  /\ Asks \cap Cards = {} /\ NoReq \notin Reqs
  /\ MaxFails \in Nat /\ MaxExits \in Nat /\ MaxCrashes \in Nat

VARIABLES
  actor,     \* "none", "viewed" (no harness) or "live"
  pending,   \* requests the projection shows as waiting
  logged,    \* the resolutions in the log, per request
  held,      \* pendingPerm, pendingElicit: asks with somebody waiting
  waiter,    \* the goroutine blocked in RequestPermission or Elicit
  chan,      \* its channel of one
  got,       \* what it returned
  orphaned,  \* asks whose actor has quit
  call,      \* the agent's tool call behind a card
  raises,    \* raise commands in the actor's inbox
  book,      \* the server's card book: "none", "held" or "answered"
  client,    \* what each presenter's command goroutine is at
  fails, exits, crashes,
  torn,      \* history: requests with an event the store refused
  applied    \* history: how often a card's change was made

actorVars == <<actor, pending, logged, held>>
askVars   == <<waiter, chan, got, orphaned>>
cardVars  == <<call, raises, book, applied>>
boundVars == <<fails, exits, crashes, torn>>
vars == <<actorVars, askVars, cardVars, client, boundVars>>

\* A goroutine that has replied.
Idle == [pc |-> "idle", req |-> NoReq, verdict |-> "no"]
ClientStates ==
  [pc : {"idle", "answer", "find", "lock", "record", "cancel"},
   req : Reqs \cup {NoReq}, verdict : Verdicts]

TypeOK ==
  /\ actor \in {"none", "viewed", "live"}
  /\ pending \subseteq Reqs /\ held \subseteq Asks
  /\ logged \in [Reqs -> Seq(Outcomes)]
  /\ waiter \in [Asks -> {"new", "asking", "waiting", "done"}]
  /\ chan \in [Asks -> Outcomes \cup {"empty"}]
  /\ got \in [Asks -> Outcomes \cup {"nothing"}]
  /\ orphaned \subseteq Asks
  /\ call \in [Cards -> {"new", "raising", "waiting", "over"}]
  /\ raises \subseteq Cards
  /\ book \in [Cards -> {"none", "held", "answered"}]
  /\ client \in [Clients -> ClientStates]
  /\ fails \in Nat /\ exits \in Nat /\ crashes \in Nat
  /\ torn \subseteq Reqs /\ applied \in [Cards -> Nat]

Init ==
  /\ actor = "live" /\ pending = {} /\ held = {}
  /\ logged = [r \in Reqs |-> <<>>]
  /\ waiter = [r \in Asks |-> "new"]
  /\ chan = [r \in Asks |-> "empty"] /\ got = [r \in Asks |-> "nothing"]
  /\ orphaned = {}
  /\ call = [c \in Cards |-> "new"] /\ raises = {}
  /\ book = [c \in Cards |-> "none"] /\ applied = [c \in Cards |-> 0]
  /\ client = [p \in Clients |-> Idle]
  /\ fails = 0 /\ exits = 0 /\ crashes = 0 /\ torn = {}

-----------------------------------------------------------------------------
(* append: the event is stored and folded, or the store refuses it and      *)
(* nothing changes.                                                         *)

Refused(R) ==
  /\ fails + Cardinality(R) <= MaxFails
  /\ fails' = fails + Cardinality(R)
  /\ torn' = torn \cup R

Requested(r) ==
  \/ pending' = pending \cup {r} /\ UNCHANGED <<fails, torn>>
  \/ Refused({r}) /\ UNCHANGED pending

Resolved(r, outcome) ==
  \/ /\ pending' = pending \ {r}
     /\ logged' = [logged EXCEPT ![r] = Append(@, outcome)]
     /\ UNCHANGED <<fails, torn>>
  \/ Refused({r}) /\ UNCHANGED <<pending, logged>>

-----------------------------------------------------------------------------
(* Asks.                                                                    *)

Ask(r) ==
  /\ actor = "live" /\ waiter[r] = "new"
  /\ waiter' = [waiter EXCEPT ![r] = "asking"]
  /\ UNCHANGED <<actorVars, chan, got, orphaned, cardVars, client, boundVars>>

\* cmdAskPerm, cmdAskElicit: what append returns is not looked at.
HandleAsk(r) ==
  /\ waiter[r] = "asking" /\ r \notin orphaned
  /\ waiter' = [waiter EXCEPT ![r] = "waiting"]
  /\ held' = held \cup {r}
  /\ Requested(r)
  /\ UNCHANGED <<actor, logged, chan, got, orphaned, cardVars, client, exits, crashes>>

Returns(r, outcome) ==
  /\ got' = [got EXCEPT ![r] = outcome]
  /\ waiter' = [waiter EXCEPT ![r] = "done"]
  /\ UNCHANGED <<actorVars, chan, orphaned, cardVars, client, boundVars>>

TakeAnswer(r) == waiter[r] = "waiting" /\ chan[r] # "empty" /\ Returns(r, chan[r])

\* The select may prefer the closed quit to an answer that is there.
TakeQuit(r) ==
  /\ waiter[r] \in {"asking", "waiting"} /\ r \in orphaned
  /\ Returns(r, "cancelled")

\* A presenter answers what it was shown, or was shown a while ago.
Shown(r) == r \in pending \/ logged[r] # <<>>

Answer(p, r, verdict) ==
  /\ client[p].pc = "idle" /\ Shown(r)
  /\ r \in Asks => actor # "none"                 \* Peek
  /\ client' = [client EXCEPT ![p] =
       [pc |-> IF r \in Asks THEN "answer" ELSE "find", req |-> r, verdict |-> verdict]]
  /\ UNCHANGED <<actorVars, askVars, cardVars, boundVars>>

Goes(p, step) == client' = [client EXCEPT ![p].pc = step]
Replied(p)    == client' = [client EXCEPT ![p] = Idle]

\* cmdResolvePerm, cmdResolveElicit.  Fault: the request stays with the actor.
LetGoNever(r) == held
LetGo(r) == held \ {r}

Deliver(r, outcome) == IF chan[r] = "empty" THEN outcome ELSE chan[r]

HandleAnswer(p) ==
  LET r == client[p].req
      v == client[p].verdict
  IN  /\ client[p].pc = "answer"
      /\ IF r \in held
         THEN /\ held' = LetGo(r)
              /\ Resolved(r, v)
              /\ chan' = [chan EXCEPT ![r] = Deliver(r, v)]
         ELSE UNCHANGED <<held, pending, logged, chan, fails, torn>>
      /\ Replied(p)
      /\ UNCHANGED <<actor, waiter, got, orphaned, cardVars, exits, crashes>>

-----------------------------------------------------------------------------
(* The actor's coming and going.                                            *)

\* Manager.get without a harness.
View == IF actor = "none" THEN "viewed" ELSE actor

\* cmdActivate of a resume: what the old process asked is cancelled, and so
\* is every card the server does not hold.
\* Fault: nothing is.
LostAtResumeNone == {}
LostAtResume == {r \in pending : r \in Asks \/ book[r] # "held"}

Resume ==
  /\ actor # "live"
  /\ actor' = "live"
  /\ \E R \in SUBSET LostAtResume :
       /\ Refused(R)
       /\ LET done == LostAtResume \ R
          IN  /\ pending' = pending \ done
              /\ logged' = [r \in Reqs |-> IF r \in done THEN Append(logged[r], "cancelled")
                                                         ELSE logged[r]]
  /\ UNCHANGED <<held, askVars, cardVars, client, exits, crashes>>

\* shutdown, and forgetFn: everybody blocked on a human is let go, and calls
\* still in the inbox return ErrClosed.
Released == [r \in Asks |-> IF r \in held THEN Deliver(r, "cancelled") ELSE chan[r]]

Exit ==
  /\ actor # "none" /\ exits < MaxExits
  /\ exits' = exits + 1
  /\ actor' = "none" /\ held' = {}
  /\ chan' = Released
  /\ orphaned' = orphaned \cup {r \in Asks : waiter[r] \in {"asking", "waiting"}}
  /\ raises' = {}
  /\ book' = [c \in Cards |-> IF call[c] = "raising" THEN "none" ELSE book[c]]
  /\ call' = [c \in Cards |-> IF call[c] = "raising" THEN "over" ELSE call[c]]
  /\ client' = [p \in Clients |-> IF client[p].pc = "answer" THEN Idle ELSE client[p]]
  /\ UNCHANGED <<pending, logged, waiter, got, applied, fails, crashes, torn>>

Crash ==
  /\ crashes < MaxCrashes
  /\ crashes' = crashes + 1
  /\ actor' = "none" /\ held' = {} /\ raises' = {}
  /\ waiter' = [r \in Asks |-> IF waiter[r] = "new" THEN "new" ELSE "done"]
  /\ call' = [c \in Cards |-> IF call[c] = "new" THEN "new" ELSE "over"]
  /\ book' = [c \in Cards |-> "none"]
  /\ client' = [p \in Clients |-> Idle]
  /\ UNCHANGED <<pending, logged, chan, got, orphaned, applied, fails, exits, torn>>

-----------------------------------------------------------------------------
(* Cards.                                                                   *)

\* raiseAndWait: the card is held before it is raised.
Raise(c) ==
  /\ call[c] = "new"
  /\ actor' = View
  /\ call' = [call EXCEPT ![c] = "raising"]
  /\ raises' = raises \cup {c}
  /\ book' = [book EXCEPT ![c] = "held"]
  /\ UNCHANGED <<pending, logged, held, askVars, applied, client, boundVars>>

\* cmdRaiseCard.  A call that failed drops the card; one whose caller has
\* left has dropped it already.
HandleRaise(c) ==
  /\ c \in raises
  /\ raises' = raises \ {c}
  /\ Requested(c)
  /\ IF c \in torn' \/ call[c] # "raising"
     THEN /\ book' = [book EXCEPT ![c] = "none"]
          /\ call' = [call EXCEPT ![c] = "over"]
     ELSE /\ call' = [call EXCEPT ![c] = "waiting"]
          /\ UNCHANGED book
  /\ UNCHANGED <<actor, logged, held, askVars, applied, client, exits, crashes>>

\* The agent's call ends: cancelled while it is still raising the card, or
\* cancelled, out of time or answered while it waits.
Leave(c) ==
  /\ call[c] \in {"raising", "waiting"}
  /\ book' = [book EXCEPT ![c] = IF call[c] = "raising" THEN "none" ELSE @]
  /\ call' = [call EXCEPT ![c] = "over"]
  /\ UNCHANGED <<actorVars, askVars, raises, applied, client, boundVars>>

\* Whether a card waits.  Fault: one that was raised always does.
WaitsShown(c) == Shown(c)
Waits(c) == c \in pending

\* resolveCard up to its lock.
FindCard(p) ==
  LET c == client[p].req
  IN  /\ client[p].pc = "find"
      /\ \/ book[c] = "held" /\ Goes(p, "lock") /\ UNCHANGED actor
         \/ book[c] = "answered" /\ Replied(p) /\ UNCHANGED actor   \* again
         \/ /\ book[c] = "none"                                     \* resolveLostCard
            /\ actor' = View
            /\ IF Waits(c) THEN Goes(p, "cancel") ELSE Replied(p)
      /\ UNCHANGED <<pending, logged, held, askVars, cardVars, boundVars>>

Answering(c) == {p \in Clients : client[p].req = c /\ client[p].pc = "record"}

\* The answer is taken under the card's lock.  Fault: without it a second
\* answer takes a card that is answered.
OpenAlways(c) == TRUE
Open(c) == book[c] # "answered"

TakeCard(p) ==
  LET c == client[p].req
  IN  /\ client[p].pc = "lock" /\ Answering(c) = {}
      /\ \/ /\ Open(c)
            /\ book' = [book EXCEPT ![c] = "answered"]
            /\ applied' = [applied EXCEPT ![c] =
                             IF client[p].verdict = "yes" THEN @ + 1 ELSE @]
            /\ Goes(p, "record")
         \/ /\ Open(c) /\ client[p].verdict = "yes"      \* applyCard fails
            /\ Replied(p) /\ UNCHANGED <<book, applied>>
         \/ ~Open(c) /\ Replied(p) /\ UNCHANGED <<book, applied>>
      /\ UNCHANGED <<actorVars, askVars, call, raises, boundVars>>

\* ResolveCard records an outcome for a card that waits, and says ErrNoCard,
\* which is swallowed, of one that does not.
RecordOutcome(p, outcome) ==
  LET c == client[p].req
  IN  /\ actor' = View
      /\ IF Waits(c) THEN Resolved(c, outcome)
                     ELSE UNCHANGED <<pending, logged, fails, torn>>
      /\ Replied(p)
      /\ UNCHANGED <<held, askVars, cardVars, exits, crashes>>

RecordAnswer(p) == client[p].pc = "record" /\ RecordOutcome(p, client[p].verdict)
CancelLost(p)   == client[p].pc = "cancel" /\ RecordOutcome(p, "cancelled")

-----------------------------------------------------------------------------
Next ==
  \/ \E r \in Asks : Ask(r) \/ HandleAsk(r) \/ TakeAnswer(r) \/ TakeQuit(r)
  \/ \E p \in Clients, r \in Reqs, v \in Verdicts : Answer(p, r, v)
  \/ \E p \in Clients :
       HandleAnswer(p) \/ FindCard(p) \/ TakeCard(p) \/ RecordAnswer(p) \/ CancelLost(p)
  \/ \E c \in Cards : Raise(c) \/ HandleRaise(c) \/ Leave(c)
  \/ Resume \/ Exit \/ Crash

Spec == Init /\ [][Next]_vars

-----------------------------------------------------------------------------
(* Properties.                                                              *)

\* One request has one resolution in the log, whoever answers it and whatever
\* ends in between: the presenter that lost, the resume and the lost-card
\* answer all find it resolved.
ResolvedOnce == \A r \in Reqs : Len(logged[r]) <= 1

\* The harness is told what the log says a person decided, and never a
\* decision the log does not have, unless the store refused the event.  Only
\* a harness whose actor has quit is told of a cancellation instead.
DeliveredAgrees ==
  \A r \in Asks :
    /\ got[r] \in Verdicts => logged[r] = <<got[r]>> \/ r \in torn
    /\ logged[r] # <<>> /\ logged[r][1] \in Verdicts /\ got[r] = "cancelled"
         => r \in orphaned

\* A request is settled in one way, and the log and the harness agree on which.
SettledAlike == ResolvedOnce /\ DeliveredAgrees

\* A harness that waits can still be answered: its question is shown and the
\* actor has its channel, or its answer is in the channel, or its actor has
\* quit.  What a running harness is not waiting for is not shown.
NobodyStranded ==
  \A r \in Asks \ torn :
    /\ waiter[r] = "waiting" =>
         r \in pending \cap held \/ chan[r] # "empty" \/ r \in orphaned
    /\ actor = "live" /\ r \in pending => r \in held

\* A card's change is made once, and the log says it was made, or declined,
\* only of a card that was.
CardsHonest ==
  \A c \in Cards :
    /\ applied[c] <= 1
    /\ logged[c] = <<"yes">> => applied[c] = 1
    /\ logged[c] = <<"no">> => applied[c] = 0

\* actor.go (cmdActivate): a card that is cancelled when its thread resumes is
\* one the server lost.  A card whose change was made is not lost.
CancelledIsLost ==
  \A c \in Cards : logged[c] = <<"cancelled">> => applied[c] = 0
=============================================================================
