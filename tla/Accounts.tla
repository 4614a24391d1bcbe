------------------------------ MODULE Accounts ------------------------------
(***************************************************************************)
(* Who a provider instance is signed in as, and what is remembered about    *)
(* it: the probe, model list and usage limit caches of                      *)
(* internal/thread/manager.go, quota.go and authflow.go, and a thread that  *)
(* moves between accounts, internal/thread/switchaccount.go with            *)
(* actor.switchAccount and internal/adapter/claudecode/move.go.             *)
(*                                                                         *)
(* A sign-in happens in the harness, behind the server's back (a terminal)  *)
(* or under its eyes (a flow), and every cache is filled by a call that was *)
(* on its way while it did.  Accounts of an instance are numbered in the    *)
(* order it was signed in to them.  No adapter of the repository names the  *)
(* account in its snapshots, so the branch for AccountID is left out.       *)
(***************************************************************************)
EXTENDS Naturals, Sequences, FiniteSets

CONSTANTS Instances,
          Home,        \* the instance the thread is created under
          Looked,      \* the instances whose caches are looked at
          Looks,       \* 1..n: goroutines that list, refresh, recheck or sign in
          Switches,    \* 1..m: goroutines that switch the thread's account
          Limits,      \* [Instances -> Nat]: bound on an instance's accounts
          MaxBusy,     \* bound on how many of them are at work at once
          MaxRechecks, \* bound on recheck_harnesses
          Faults       \* what may go wrong with a switch

\* "again": a switch is asked for while one whose caller gave up still waits;
\* "stuck": the conversation cannot be put back; "cut": the server dies between
\* the move and the row.
AllFaults == {"again", "stuck", "cut"}

ASSUME AccountConstants ==
  /\ Home \in Instances /\ Looked \subseteq Instances /\ Limits \in [Instances -> Nat \ {0}]
  /\ MaxRechecks \in Nat /\ MaxBusy \in Nat /\ Faults \subseteq AllFaults

VARIABLES
  acct,      \* who each instance is signed in as
  probes,    \* Manager.probes
  look,      \* where each goroutine is
  models,    \* Manager.models
  listing,   \* refreshModels, the one in flight
  modelGen,  \* Manager.modelGen
  quotas,    \* Manager.quotas: whose readings are shown
  quotaGen,  \* Manager.quotaGeneration
  row,       \* the thread's provider_instance
  conv,      \* the instance whose directory holds the conversation
  actor,     \* the thread's actor
  inbox,     \* switches that wait in its inbox
  sw,        \* where each switch is
  rechecks,
  scene,     \* which caches the behaviour is about
  left,      \* history: the newest account an instance was seen to leave
  dropped    \* history: how often its model list was dropped

cacheVars  == <<models, listing, modelGen, dropped>>
quotaVars  == <<quotas, quotaGen, left>>
threadVars == <<row, conv, actor, inbox, sw>>
boundVars  == <<rechecks, scene>>
vars == <<acct, probes, look, cacheVars, quotaVars, threadVars, boundVars>>

NoProbe   == [id |-> 0, fresh |-> FALSE]
NoListing == [gen |-> 0, asked |-> 0, on |-> FALSE]
NoReading == [inst |-> Home, id |-> 0, early |-> FALSE]
NoModels  == [asked |-> 0, list |-> {}, fresh |-> FALSE]
Resting   == [pc |-> "idle", job |-> "list", inst |-> Home, had |-> 0,
              saw |-> 0, gen |-> 0, snap |-> NoReading]
Settled   == [pc |-> "idle", from |-> Home, to |-> Home, waits |-> FALSE]
Gone      == [up |-> FALSE, inst |-> Home, turn |-> FALSE,
              bind |-> [inst |-> Home, gen |-> 0], sess |-> NoReading]

\* adopt: the actor is made from the row, and its pushes bound to the account.
Adopted(i) == [Gone EXCEPT !.up = TRUE, !.inst = i,
                           !.bind = [inst |-> i, gen |-> quotaGen[i]]]

Init ==
  /\ acct = [i \in Instances |-> 1]
  /\ probes = [i \in Looked |-> NoProbe]
  /\ look = [l \in Looks |-> Resting]
  /\ models = [i \in Looked |-> NoModels]
  /\ listing = [i \in Looked |-> NoListing]
  /\ modelGen = 0 /\ dropped = [i \in Looked |-> 0]
  /\ quotas = [i \in Instances |-> NoReading]
  /\ quotaGen = [i \in Instances |-> 0] /\ left = [i \in Instances |-> 0]
  /\ row = Home /\ conv = Home /\ actor = Gone
  /\ inbox = <<>> /\ sw = [s \in Switches |-> Settled]
  /\ rechecks = 0 /\ scene \in {"list", "refresh"}

\* The goroutine that takes something up: they are interchangeable, so it is
\* the lowest of its kind at rest.
Free == MaxBusy > Cardinality({l \in Looks : look[l].pc # "idle"})
                  + Cardinality({s \in Switches : sw[s].pc # "idle"})
Looker(l)   == /\ Free /\ look[l].pc = "idle"
               /\ \A k \in 1 .. (l - 1) : look[k].pc # "idle"
Switcher(s) == /\ Free /\ sw[s].pc = "idle"
               /\ \A k \in 1 .. (s - 1) : sw[k].pc # "idle"

-----------------------------------------------------------------------------
(* Signing in. *)

\* The harness holds another credential.
SignsIn(i) == /\ acct[i] < Limits[i]
              /\ acct' = [acct EXCEPT ![i] = @ + 1]

\* A terminal sign-in is asked for; what the user does there is not seen.
LoginCommand(i) ==
  /\ probes' = [probes EXCEPT ![i] = NoProbe]
  /\ UNCHANGED <<acct, look, cacheVars, quotaVars, threadVars, boundVars>>

TerminalSignIn(i) ==
  /\ SignsIn(i)
  /\ UNCHANGED <<probes, look, cacheVars, quotaVars, threadVars, boundVars>>

\* BeginAuthFlow's run: signed in, then forgetInstance in its three locks.
FlowSignIn(l, i) ==
  /\ Looker(l) /\ SignsIn(i)
  /\ look' = [look EXCEPT ![l] = [Resting EXCEPT !.pc = "forgetProbe",
                !.job = "forget", !.inst = i, !.had = acct[i]]]
  /\ UNCHANGED <<probes, cacheVars, quotaVars, threadVars, boundVars>>

ForgetProbe(l) ==
  /\ look[l].pc = "forgetProbe"
  /\ probes' = [probes EXCEPT ![look[l].inst] = NoProbe]
  /\ look' = [look EXCEPT ![l].pc = "forgetModels"]
  /\ UNCHANGED <<acct, cacheVars, quotaVars, threadVars, boundVars>>

-----------------------------------------------------------------------------
(* availability, which every listing and every refresh begins with. *)

\* availability has returned: what it was called for is next.
At(job, i) == [Resting EXCEPT !.pc = job, !.job = job, !.inst = i]

Ask(l, job, i) ==
  /\ Looker(l)
  /\ look' = [look EXCEPT ![l] =
       IF probes[i].fresh THEN At(job, i)
       ELSE [At(job, i) EXCEPT !.pc = "probing", !.had = probes[i].id]]
  /\ UNCHANGED <<acct, probes, cacheVars, quotaVars, threadVars, boundVars>>

ProbeAnswers(l) ==
  /\ look[l].pc = "probing"
  /\ look' = [look EXCEPT ![l].pc = "noting", ![l].saw = acct[look[l].inst]]
  /\ UNCHANGED <<acct, probes, cacheVars, quotaVars, threadVars, boundVars>>

\* accountOf(cached.result) # accountOf(result)
Changed(c) == c.had # 0 /\ c.had # c.saw

Note(l) ==
  LET c == look[l] IN
  /\ c.pc = "noting"
  /\ probes' = [probes EXCEPT ![c.inst] = [id |-> c.saw, fresh |-> TRUE]]
  /\ look' = [look EXCEPT ![l] = IF Changed(c)
                                 THEN [c EXCEPT !.pc = "forgetModels", !.saw = 0]
                                 ELSE At(c.job, c.inst)]
  /\ UNCHANGED <<acct, cacheVars, quotaVars, threadVars, boundVars>>

ForgetModels(l) ==
  LET i == look[l].inst IN
  /\ look[l].pc = "forgetModels"
  /\ models' = [models EXCEPT ![i] = NoModels]
  /\ modelGen' = modelGen + 1
  /\ dropped' = [dropped EXCEPT ![i] = @ + 1]
  /\ look' = [look EXCEPT ![l].pc = "forgetQuota"]
  /\ UNCHANGED <<acct, probes, listing, quotaVars, threadVars, boundVars>>

ForgetQuota(l) ==
  LET c == look[l] IN
  /\ c.pc = "forgetQuota"
  /\ quotas' = [quotas EXCEPT ![c.inst] = NoReading]
  /\ quotaGen' = [quotaGen EXCEPT ![c.inst] = @ + 1]
  /\ left' = [left EXCEPT ![c.inst] = IF c.had > @ THEN c.had ELSE @]
  /\ look' = [look EXCEPT ![l] = IF c.job = "forget" THEN Resting
                                 ELSE At(c.job, c.inst)]
  /\ UNCHANGED <<acct, probes, cacheVars, threadVars, boundVars>>

\* A probe outlives its TTL, or the setup screen ages it.
ExpireProbe(i) ==
  /\ probes[i].fresh
  /\ probes' = [probes EXCEPT ![i].fresh = FALSE]
  /\ UNCHANGED <<acct, look, cacheVars, quotaVars, threadVars, boundVars>>

-----------------------------------------------------------------------------
(* Model lists. *)

Asking(i) == [gen |-> modelGen, asked |-> dropped[i], on |-> TRUE]

\* modelsFor, of an instance that is there: serves what is cached and asks again when that is missing or
\* stale, one listing per instance at a time.
ListModels(l) ==
  LET i == look[l].inst IN
  /\ look[l].pc = "list"
  /\ listing' = IF ~models[i].fresh /\ ~listing[i].on
                THEN [listing EXCEPT ![i] = Asking(i)] ELSE listing
  /\ look' = [look EXCEPT ![l] = Resting]
  /\ UNCHANGED <<acct, probes, models, modelGen, dropped, quotaVars, threadVars,
                 boundVars>>

OvertakenNever(i) == FALSE
Overtaken(i) == listing[i].gen # modelGen
AgainNever(i) == NoListing
Again(i) == Asking(i)

\* refreshModels.  A recheck since it started: drop the answer, ask again.
\* A failure keeps the list there was and only moves the time.
ListingAnswers(i) ==
  /\ listing[i].on
  /\ IF Overtaken(i)
     THEN /\ listing' = [listing EXCEPT ![i] = Again(i)]
          /\ UNCHANGED models
     ELSE /\ listing' = [listing EXCEPT ![i] = NoListing]
          /\ \E ok \in BOOLEAN :
               models' = [models EXCEPT ![i] =
                 [asked |-> listing[i].asked, fresh |-> TRUE,
                  list  |-> IF ok THEN {listing[i].asked} ELSE @.list]]
  /\ UNCHANGED <<acct, probes, look, modelGen, dropped, quotaVars, threadVars,
                 boundVars>>

ExpireModels(i) ==
  /\ models[i].fresh
  /\ models' = [models EXCEPT ![i].fresh = FALSE]
  /\ UNCHANGED <<acct, probes, look, listing, modelGen, dropped, quotaVars,
                 threadVars, boundVars>>

\* RecheckHarnesses, in its two locks.
Recheck(l) ==
  /\ scene = "list" /\ Looker(l) /\ rechecks < MaxRechecks
  /\ probes' = [i \in Looked |-> NoProbe]
  /\ look' = [look EXCEPT ![l].pc = "recheckModels"]
  /\ rechecks' = rechecks + 1
  /\ UNCHANGED <<acct, cacheVars, quotaVars, threadVars, scene>>

RecheckModels(l) ==
  /\ look[l].pc = "recheckModels"
  /\ models' = [i \in Looked |-> NoModels]
  /\ modelGen' = modelGen + 1
  /\ dropped' = [i \in Looked |-> dropped[i] + 1]
  /\ look' = [look EXCEPT ![l] = Resting]
  /\ UNCHANGED <<acct, probes, listing, quotaVars, threadVars, boundVars>>

-----------------------------------------------------------------------------
(* Usage limits. *)

BoundAlways(b) == TRUE
Bound(b) == b.gen = quotaGen[b.inst]

\* A push of the live process, filed where its actor's sink was bound to.  Of
\* the one limit followed here: a snapshot that names it moves it, a full one
\* that does not removes it, and a sparse one that does not leaves it alone.
Push ==
  LET b == actor.bind IN
  /\ actor.sess # NoReading
  /\ Bound(b)
  /\ \E r \in {actor.sess, NoReading} : quotas' = [quotas EXCEPT ![b.inst] = r]
  /\ UNCHANGED <<acct, probes, look, cacheVars, quotaGen, left, threadVars,
                 boundVars>>

\* RefreshQuota, after its look at the account: the generation, ...
Epoch(l) ==
  /\ look[l].pc = "refresh"
  /\ look' = [look EXCEPT ![l].pc = "reading",
                          ![l].gen = quotaGen[look[l].inst]]
  /\ UNCHANGED <<acct, probes, cacheVars, quotaVars, threadVars, boundVars>>

\* ... the reading, of a live process of that instance and generation or of a
\* process of its own, ...
Live(i) == /\ actor.up /\ row = i /\ actor.bind.gen = quotaGen[i]
           /\ actor.sess # NoReading

ReadQuota(l) ==
  LET i == look[l].inst IN
  /\ look[l].pc = "reading"
  /\ look' = [look EXCEPT ![l].pc = "storing", ![l].snap =
                IF Live(i) THEN actor.sess
                ELSE [inst |-> i, id |-> acct[i], early |-> FALSE]]
  /\ UNCHANGED <<acct, probes, cacheVars, quotaVars, threadVars, boundVars>>

ReadFails(l) ==
  /\ look[l].pc = "reading"
  /\ look' = [look EXCEPT ![l] = Resting]
  /\ UNCHANGED <<acct, probes, cacheVars, quotaVars, threadVars, boundVars>>

\* ... and the answer kept, unless the account changed meanwhile.
StoreQuota(l) ==
  LET c == look[l] IN
  /\ c.pc = "storing"
  /\ quotas' = IF Bound(c) THEN [quotas EXCEPT ![c.inst] = c.snap] ELSE quotas
  /\ look' = [look EXCEPT ![l] = Resting]
  /\ UNCHANGED <<acct, probes, cacheVars, quotaGen, left, threadVars, boundVars>>

-----------------------------------------------------------------------------
(* The thread. *)

Moving == \E s \in Switches : sw[s].pc = "moved"
Serving == actor.up /\ ~Moving   \* the actor's loop takes a command

\* Get or View of a thread that has no actor.
Adopt ==
  /\ scene = "refresh" /\ ~actor.up
  /\ actor' = Adopted(row)
  /\ UNCHANGED <<acct, probes, look, cacheVars, quotaVars, row, conv, inbox, sw,
                 boundVars>>

\* A switch has not bound the sink again: not yet, or never, when it outlived
\* its caller.
Unbound == \/ actor.bind.inst # actor.inst
           \/ \E s \in Switches : sw[s].pc = "binding"

\* The harness starts and resumes the conversation, which it looks for under
\* its own account only.  It stays signed in as who it started as.
StartProcess ==
  /\ Serving /\ actor.sess = NoReading /\ conv = actor.inst
  /\ actor' = [actor EXCEPT !.sess =
       [inst |-> actor.inst, id |-> acct[actor.inst],
        early |-> Unbound]]
  /\ UNCHANGED <<acct, probes, look, cacheVars, quotaVars, row, conv, inbox, sw,
                 boundVars>>

Turn ==
  /\ Serving /\ actor.sess # NoReading
  /\ actor' = [actor EXCEPT !.turn = ~@]
  /\ UNCHANGED <<acct, probes, look, cacheVars, quotaVars, row, conv, inbox, sw,
                 boundVars>>

\* The harness exits and its actor with it: whatever waits for it is refused.
ProcessExits ==
  /\ Serving /\ actor.sess # NoReading
  /\ actor' = Gone /\ inbox' = <<>>
  /\ sw' = [s \in Switches |-> Settled]
  /\ UNCHANGED <<acct, probes, look, cacheVars, quotaVars, row, conv, boundVars>>

Abandoned(s) == sw[s].pc # "idle" /\ ~sw[s].waits

\* switchMu, which a caller that gives up leaves.
MayBeginAlways == TRUE
MayBegin == \A s \in Switches : ~sw[s].waits

\* SwitchAccount: the row says idle, and from is what it says.
BeginSwitch(s, to) ==
  /\ scene = "refresh" /\ Switcher(s) /\ MayBegin
  /\ "again" \in Faults \/ \A r \in Switches : ~Abandoned(r)
  /\ ~actor.turn /\ row # to
  /\ sw' = [sw EXCEPT ![s] = [pc |-> "queued", from |-> row, to |-> to,
                              waits |-> TRUE]]
  /\ inbox' = Append(inbox, s)
  /\ actor' = IF actor.up THEN actor ELSE Adopted(row)
  /\ UNCHANGED <<acct, probes, look, cacheVars, quotaVars, row, conv, boundVars>>

\* The command's deadline passes while the actor is busy with another.
Timeout(s) ==
  /\ sw[s].pc \in {"queued", "moved"} /\ sw[s].waits
  /\ sw' = [sw EXCEPT ![s].waits = FALSE]
  /\ UNCHANGED <<acct, probes, look, cacheVars, quotaVars, row, conv, actor,
                 inbox, boundVars>>

Serve(s) == Serving /\ inbox # <<>> /\ Head(inbox) = s /\ inbox' = Tail(inbox)

\* A turn stands for whatever the actor refuses a switch for.
SwitchRefused(s) ==
  /\ Serve(s) /\ actor.turn
  /\ sw' = [sw EXCEPT ![s] = Settled]
  /\ UNCHANGED <<acct, probes, look, cacheVars, quotaVars, row, conv, actor,
                 boundVars>>

\* A conversation that is not there is not moved, and that is no error.
Moved(from, to) == IF conv = from THEN to ELSE conv
BackNever(from, to) == conv
Back(from, to) == IF conv = to THEN from ELSE conv

\* actor.switchAccount: the process goes first, then its files move.
MoveConversation(s) ==
  /\ Serve(s) /\ ~actor.turn
  /\ actor' = [actor EXCEPT !.sess = NoReading]
  /\ \/ /\ conv' = Moved(sw[s].from, sw[s].to)
        /\ sw' = [sw EXCEPT ![s].pc = "moved"]
     \/ conv' = conv /\ sw' = [sw EXCEPT ![s] = Settled]
  /\ UNCHANGED <<acct, probes, look, cacheVars, quotaVars, row, boundVars>>

SetProviderInstance(s) ==
  /\ sw[s].pc = "moved"
  /\ row' = sw[s].to
  /\ actor' = [actor EXCEPT !.inst = sw[s].to]
  /\ sw' = [sw EXCEPT ![s] = IF @.waits THEN [@ EXCEPT !.pc = "binding"]
                             ELSE Settled]
  /\ UNCHANGED <<acct, probes, look, cacheVars, quotaVars, conv, inbox, boundVars>>

\* The row cannot be written: the conversation is put back, or that fails too.
RowFails(s) ==
  /\ sw[s].pc = "moved"
  /\ conv' \in {Back(sw[s].from, sw[s].to)}
                 \cup IF "stuck" \in Faults THEN {conv} ELSE {}
  /\ sw' = [sw EXCEPT ![s] = Settled]
  /\ UNCHANGED <<acct, probes, look, cacheVars, quotaVars, row, actor, inbox,
                 boundVars>>

\* bindQuota, once the actor has replied.
Rebind(s) ==
  /\ sw[s].pc = "binding"
  /\ actor' = [actor EXCEPT !.bind = [inst |-> row, gen |-> quotaGen[row]]]
  /\ sw' = [sw EXCEPT ![s] = Settled]
  /\ UNCHANGED <<acct, probes, look, cacheVars, quotaVars, row, conv, inbox,
                 boundVars>>

\* The server dies: what is in memory goes, the row and the files stay.
Crash ==
  /\ "cut" \in Faults \/ ~Moving
  /\ probes' = [i \in Looked |-> NoProbe]
  /\ look' = [l \in Looks |-> Resting]
  /\ models' = [i \in Looked |-> NoModels]
  /\ listing' = [i \in Looked |-> NoListing]
  /\ modelGen' = 0 /\ dropped' = [i \in Looked |-> 0]
  /\ quotas' = [i \in Instances |-> NoReading]
  /\ quotaGen' = [i \in Instances |-> 0] /\ left' = [i \in Instances |-> 0]
  /\ actor' = Gone /\ inbox' = <<>> /\ sw' = [s \in Switches |-> Settled]
  /\ UNCHANGED <<acct, row, conv, boundVars>>

-----------------------------------------------------------------------------

ThreadStep ==
  \/ Push \/ Adopt \/ StartProcess \/ Turn \/ ProcessExits \/ Crash
  \/ \E s \in Switches :
       \/ \E to \in Instances : BeginSwitch(s, to)
       \/ Timeout(s) \/ SwitchRefused(s) \/ MoveConversation(s)
       \/ SetProviderInstance(s) \/ RowFails(s) \/ Rebind(s)

CacheStep ==
  \/ \E i \in Looked :
       \/ LoginCommand(i) \/ TerminalSignIn(i) \/ ExpireProbe(i)
       \/ ListingAnswers(i) \/ ExpireModels(i)
  \/ \E l \in Looks :
       \/ \E i \in Looked : FlowSignIn(l, i) \/ Ask(l, scene, i)
       \/ ForgetProbe(l) \/ ProbeAnswers(l) \/ Note(l)
       \/ ForgetModels(l) \/ ForgetQuota(l)
       \/ ListModels(l) \/ Recheck(l) \/ RecheckModels(l)
       \/ Epoch(l) \/ ReadQuota(l) \/ ReadFails(l) \/ StoreQuota(l)

Next == CacheStep \/ ThreadStep

Spec == Init /\ [][Next]_vars

\* A listing is bounded by modelRefreshTimeout.
FairSpec == Spec /\ \A i \in Looked : WF_vars(ListingAnswers(i))

-----------------------------------------------------------------------------
(* What must hold. *)

\* A limit shown for an instance was read as that instance, signed in as
\* somebody newer than the last account it was seen to leave: no push of an old
\* process and no refresh that was on its way brings back what forgetQuota
\* dropped.  The one exception is a process that starts after a switch and
\* before its sink is bound again.
NeverTheAccountLeft ==
  \A i \in Instances :
     \/ quotas[i] = NoReading \/ quotas[i].early
     \/ quotas[i].inst = i /\ quotas[i].id > left[i]

\* The conversation is kept where the account in the thread's row looks for it,
\* whatever fails on the way and however switches, turns and exits overlap.
ConversationFollowsThread == Moving \/ conv = row

\* A list that was asked for before the last recheck or the last change of
\* account is never what is cached after it.
ListingIsCurrent == \A i \in Looked : models[i].list \subseteq {dropped[i]}

\* Neither cache brings back what was dropped from it.
CachesForget == NeverTheAccountLeft /\ ListingIsCurrent

\* One "Check again" is enough: when a listing is overtaken by a recheck or a
\* change of account, an answer asked for after it arrives by itself.
RecheckIsEnough ==
  \A i \in Looked :
     (listing[i].on /\ Overtaken(i)) ~> models[i].asked = dropped[i]

\* What forgetQuota promises: the old account's allowance is never presented
\* under the new one's name.  Refuted: the answer of a probe is compared with the
\* one remembered, and before a first look, after LoginCommand and after
\* RecheckHarnesses, which the client asks for when a terminal sign-in ends,
\* there is none.
NeverUnderTheNewName ==
  (\A l \in Looks : look[l].pc = "idle") =>
     \A i \in Looked : quotas[i].inst = i /\ quotas[i].id # 0
                         => quotas[i].id >= probes[i].id

\* What bindQuota promises: a push is never filed against another account.
\* Refuted: the next process may start before the switch has bound the sink.
FiledRight == \A i \in Instances : quotas[i] # NoReading => quotas[i].inst = i
=============================================================================
