---------------------------- MODULE AdapterProofs ----------------------------
(***************************************************************************)
(* Proofs about what stands behind an adapter.                              *)
(*                                                                         *)
(* Accounts, for every set of instances, goroutines and switches and every  *)
(* bound: neither cache brings back what was dropped from it, whatever goes *)
(* wrong with a switch, and the conversation is where the thread's account  *)
(* looks for it unless one of the named faults happens.                     *)
(*                                                                         *)
(* CallSession, for every set of prompts, actions and steers and every      *)
(* bound: the session opens each turn once and ends it at most once, tells  *)
(* all a subagent says in one turn, leaves no turn open when its harness    *)
(* has come to rest, and coalesces a stop only into one that is answered.   *)
(***************************************************************************)
EXTENDS Accounts, CallSession, SequenceTheorems, TLAPS

-----------------------------------------------------------------------------
(* Accounts.  The inductive invariant.                                      *)

Reading == [inst : Instances, id : Nat, early : BOOLEAN]
Looking ==
  [pc : {"idle", "list", "refresh", "probing", "noting", "forgetProbe", "forgetModels",
         "forgetQuota", "recheckModels", "reading", "storing"},
   job : {"list", "refresh", "forget"}, inst : Instances, had : Nat, saw : Nat,
   gen : Nat, snap : Reading]
Switching ==
  [pc : {"idle", "queued", "moved", "binding"}, from : Instances, to : Instances,
   waits : BOOLEAN]
Acting ==
  [up : BOOLEAN, inst : Instances, turn : BOOLEAN,
   bind : [inst : Instances, gen : Nat], sess : Reading]
Listing == [gen : Nat, asked : Nat, on : BOOLEAN]
Models  == [asked : Nat, list : SUBSET Nat, fresh : BOOLEAN]

AcctTypes == /\ acct \in [Instances -> Nat \ {0}] /\ scene \in {"list", "refresh"}
             /\ probes \in [Looked -> [id : Nat, fresh : BOOLEAN]] /\ rechecks \in Nat
LookTypes == /\ look \in [Looks -> Looking]
             /\ \A l \in Looks : look[l].pc \in {"idle", "recheckModels"}
                                 \/ look[l].inst \in Looked
             /\ \A l \in Looks : look[l].pc \in {"probing", "noting"}
                                   => look[l].job # "forget"
ListTypes == /\ models \in [Looked -> Models] /\ listing \in [Looked -> Listing]
             /\ modelGen \in Nat /\ dropped \in [Looked -> Nat]
QuotaTypes == /\ quotas \in [Instances -> Reading]
              /\ quotaGen \in [Instances -> Nat] /\ left \in [Instances -> Nat]
ThreadTypes == /\ row \in Instances /\ conv \in Instances /\ actor \in Acting
               /\ inbox \in Seq(Switches) /\ sw \in [Switches -> Switching]

\* An account that was left is older than who is signed in.
LeftOK == /\ \A i \in Instances : left[i] < acct[i]
          /\ \A i \in Looked : probes[i].id <= acct[i]

\* A reading that may be shown for i, which was last seen to leave account n.
Fair(r, i, n) == r = NoReading \/ r.early \/ (r.inst = i /\ r.id > n)

\* What a goroutine holds of an account it is about to declare left, and a reading
\* it is about to keep, while its instance is signed in as a, has the generation g
\* and was last seen to leave n.
Held(c, a, g, n) ==
  /\ c.pc = "probing" => c.had <= a
  /\ c.pc = "noting" => c.had <= c.saw /\ c.saw <= a
  /\ c.pc \in {"forgetProbe", "forgetModels", "forgetQuota"} => c.had < a
  /\ c.pc \in {"reading", "storing"} => c.gen <= g
  /\ c.pc = "storing" /\ c.gen = g => Fair(c.snap, c.inst, n)
LookOK ==
  \A l \in Looks :
    Held(look[l], acct[look[l].inst], quotaGen[look[l].inst], left[look[l].inst])

\* What a goroutine's step does to what it holds.
Holds(l, c) == look' = [look EXCEPT ![l] = c] /\ c \in Looking
Goes(l, pc) ==
  \E c \in Looking : /\ Holds(l, c) /\ c.pc = pc /\ c.inst = look[l].inst
                     /\ c.job = look[l].job /\ c.had = look[l].had
                     /\ pc = "noting" => c.saw = acct[c.inst]
                     /\ pc = "reading" => c.gen = quotaGen[c.inst]
                     /\ pc = "storing" => c.gen = look[l].gen
                          /\ c.snap = IF Live(c.inst) THEN actor.sess
                                      ELSE [inst |-> c.inst, id |-> acct[c.inst], early |-> FALSE]
Begins(l, i, pcs) ==
  \E c \in Looking : /\ Holds(l, c) /\ c.pc \in pcs /\ c.inst = i
                     /\ c.pc = "probing" => c.had = probes[i].id /\ c.job # "forget"
                     /\ c.pc = "forgetProbe" => c.had = acct[i]

\* A process that did not start early is of the actor's account and of its sink's,
\* and of nobody its sink's generation has seen leave.
Proper(r) == r = NoReading \/ r.early
SinkOK ==
  /\ actor.bind.gen <= quotaGen[actor.bind.inst]
  /\ Proper(actor.sess)
     \/ /\ actor.sess.inst = actor.inst /\ actor.sess.inst = actor.bind.inst
        /\ actor.bind.gen = quotaGen[actor.bind.inst]
             => actor.sess.id > left[actor.bind.inst]

\* The actor is of the account in the row; while a conversation moves it has no process.
ActorOK ==
  /\ actor.up => actor.inst = row
  /\ ~actor.up => actor.sess = NoReading
  /\ \A s \in Switches : /\ sw[s].pc = "moved" => actor.up /\ actor.sess = NoReading
                         /\ sw[s].pc = "binding" => Proper(actor.sess)

\* A listing that nothing has overtaken answers for the newest drop.
ListOK ==
  \A i \in Looked : listing[i].on =>
    /\ listing[i].gen <= modelGen
    /\ listing[i].gen = modelGen => listing[i].asked = dropped[i]

IInv == /\ AcctTypes /\ LookTypes /\ ListTypes /\ QuotaTypes /\ ThreadTypes
        /\ LeftOK /\ LookOK /\ SinkOK /\ ActorOK /\ ListOK /\ CachesForget

\* Without a fault there is one switch at a time, and it knows where the conversation is.
OneSwitch ==
  \A s \in Switches : sw[s].pc # "idle" => \A r \in Switches : r = s \/ sw[r].pc = "idle"
InboxOK == inbox = <<>> \/ \E s \in Switches : inbox = <<s>> /\ sw[s].pc = "queued"
WhereOK ==
  \A s \in Switches : /\ sw[s].pc \in {"queued", "moved"} => sw[s].from = row
                      /\ sw[s].pc = "moved" => conv = sw[s].to
MoveInv == IInv /\ OneSwitch /\ InboxOK /\ WhereOK /\ ConversationFollowsThread

-----------------------------------------------------------------------------
(* Lemmas.                                                                  *)

\* The records a step starts from.
LEMMA Blanks ==
  /\ NoReading \in Reading /\ NoProbe \in [id : Nat, fresh : BOOLEAN]
  /\ NoListing \in Listing /\ ~NoListing.on
  /\ NoModels \in Models /\ NoModels.list = {}
  /\ Settled \in Switching /\ Settled.pc = "idle"
  /\ Gone \in Acting /\ Gone.up = FALSE /\ Gone.sess = NoReading /\ Gone.bind.gen = 0
  /\ Gone.bind.inst \in Instances
  /\ Resting \in Looking /\ Resting.pc = "idle"
<1>1. NoReading \in Reading /\ Home \in Instances
  BY AccountConstants DEF NoReading, Reading
<1>2. NoProbe \in [id : Nat, fresh : BOOLEAN] /\ NoListing \in Listing /\ ~NoListing.on
  BY DEF NoProbe, NoListing, Listing
<1>3. NoModels \in Models /\ NoModels.list = {}
  BY DEF NoModels, Models
<1>4. Settled \in Switching /\ Settled.pc = "idle"
  BY <1>1 DEF Settled, Switching
<1>5. Gone \in Acting /\ Gone.up = FALSE /\ Gone.sess = NoReading /\ Gone.bind.gen = 0
      /\ Gone.bind.inst \in Instances
  BY <1>1 DEF Gone, Acting
<1>6. Resting \in Looking /\ Resting.pc = "idle"
  BY <1>1 DEF Resting, Looking
<1> QED
  BY <1>1, <1>2, <1>3, <1>4, <1>5, <1>6

LEMMA AdoptedBlank ==
  ASSUME NEW i \in Instances, QuotaTypes
  PROVE  /\ Adopted(i) \in Acting /\ Adopted(i).up /\ Adopted(i).inst = i
         /\ Adopted(i).sess = NoReading /\ Adopted(i).bind = [inst |-> i, gen |-> quotaGen[i]]
<1>1. Gone \in Acting /\ Gone.sess = NoReading
  BY Blanks
<1>2. quotaGen[i] \in Nat
  BY DEF QuotaTypes
<1> QED
  BY <1>1, <1>2 DEF Adopted, Acting

\* Where availability leaves a goroutine.
LEMMA AtBlank ==
  ASSUME NEW i \in Looked, NEW job \in {"list", "refresh"}
  PROVE  At(job, i) \in Looking /\ At(job, i).pc = job /\ At(job, i).inst = i
<1>1. Resting \in Looking /\ i \in Instances
  BY Blanks, AccountConstants
<1> QED
  BY <1>1 DEF At, Looking

-----------------------------------------------------------------------------
(* Types.                                                                   *)

LEMMA AcctTypesStep ==
  ASSUME IInv, [Next]_vars
  PROVE  AcctTypes'
<1>1. ASSUME NEW i \in Looked, LoginCommand(i) PROVE AcctTypes'
  BY <1>1, Blanks, AccountConstants
  DEF LoginCommand, boundVars, IInv, AcctTypes, LookTypes, Looking
<1>2. ASSUME NEW i \in Looked, TerminalSignIn(i) PROVE AcctTypes'
  BY <1>2, Blanks, AccountConstants
  DEF TerminalSignIn, SignsIn, boundVars, IInv, AcctTypes, LookTypes, Looking
<1>3. ASSUME NEW l \in Looks, NEW i \in Looked, FlowSignIn(l, i) PROVE AcctTypes'
  BY <1>3, Blanks, AccountConstants
  DEF FlowSignIn, Looker, SignsIn, Resting, boundVars, IInv, AcctTypes, LookTypes,
    Looking
<1>4. ASSUME NEW l \in Looks, ForgetProbe(l) PROVE AcctTypes'
  BY <1>4, Blanks, AccountConstants
  DEF ForgetProbe, boundVars, IInv, AcctTypes, LookTypes, Looking
<1>5. ASSUME NEW l \in Looks, Note(l) PROVE AcctTypes'
  BY <1>5, Blanks, AccountConstants
  DEF Note, Changed, At, boundVars, IInv, AcctTypes, LookTypes, Looking
<1>6. ASSUME NEW i \in Looked, ExpireProbe(i) PROVE AcctTypes'
  BY <1>6, Blanks, AccountConstants
  DEF ExpireProbe, boundVars, IInv, AcctTypes, LookTypes, Looking
<1>7. ASSUME NEW l \in Looks, Recheck(l) PROVE AcctTypes'
  BY <1>7, Blanks, AccountConstants
  DEF Recheck, Looker, boundVars, IInv, AcctTypes, LookTypes, Looking
<1>8. CASE Crash
  BY <1>8, Blanks, AccountConstants
  DEF Crash, boundVars, IInv, AcctTypes, LookTypes, Looking
<1>9. CASE UNCHANGED <<acct, probes, scene, rechecks>>
  BY <1>9
  DEF IInv, boundVars, AcctTypes, LookTypes, Looking
<1> QED
  BY <1>1, <1>2, <1>3, <1>4, <1>5, <1>6, <1>7, <1>8, <1>9
  DEF Next, CacheStep, ThreadStep, vars, cacheVars, quotaVars, threadVars, boundVars,
    ListingAnswers, ExpireModels, Ask, ProbeAnswers, ForgetModels, ForgetQuota,
    ListModels, RecheckModels, Epoch, ReadQuota, ReadFails, StoreQuota, Push, Adopt,
    StartProcess, Turn, ProcessExits, BeginSwitch, Timeout, SwitchRefused,
    MoveConversation, SetProviderInstance, RowFails, Rebind

LEMMA FlowSignInLook ==
  ASSUME AcctTypes, LookTypes, QuotaTypes, ThreadTypes,
         NEW l \in Looks, NEW i \in Looked, FlowSignIn(l, i)
  PROVE  Begins(l, i, {"forgetProbe"})
<1> DEFINE c == [Resting EXCEPT !.pc = "forgetProbe", !.job = "forget", !.inst = i, !.had = acct[i]]
<1>1. look' = [look EXCEPT ![l] = c]
  BY DEF FlowSignIn, LookTypes, Looking, Resting, At
<1>2. Resting \in Looking /\ i \in Instances /\ acct[i] \in Nat
  BY Blanks, AccountConstants DEF AcctTypes
<1>3. c \in Looking
  BY <1>2 DEF Looking
<1>4. c.pc = "forgetProbe" /\ c.inst = i /\ c.had = acct[i]
  BY <1>2 DEF Looking, At, Resting
<1> HIDE DEF c
<1> QED
  BY <1>1, <1>3, <1>4 DEF Begins, Holds

LEMMA AskLook ==
  ASSUME AcctTypes, NEW l \in Looks, NEW i \in Looked, Ask(l, scene, i)
  PROVE  Begins(l, i, {"list", "refresh", "probing"})
<1>1. CASE probes[i].fresh
  <2>1. look' = [look EXCEPT ![l] = At(scene, i)]
    BY <1>1 DEF Ask
  <2>2. At(scene, i) \in Looking /\ At(scene, i).pc = scene /\ At(scene, i).inst = i
    BY AtBlank DEF AcctTypes
  <2> QED
    BY <2>1, <2>2 DEF Begins, Holds, AcctTypes
<1>2. CASE ~probes[i].fresh
  <2> DEFINE c == [At(scene, i) EXCEPT !.pc = "probing", !.had = probes[i].id]
  <2>1. look' = [look EXCEPT ![l] = c]
    BY <1>2 DEF Ask
  <2>2. At(scene, i) \in Looking /\ At(scene, i).inst = i /\ probes[i].id \in Nat
    BY AtBlank DEF AcctTypes
  <2>3. At(scene, i).job = scene /\ scene # "forget"
    BY DEF At, Resting, AcctTypes
  <2>4. c \in Looking /\ c.pc = "probing" /\ c.inst = i /\ c.had = probes[i].id
        /\ c.job # "forget"
    BY <2>2, <2>3 DEF Looking
  <2> HIDE DEF c
  <2> QED
    BY <2>1, <2>4 DEF Begins, Holds
<1> QED
  BY <1>1, <1>2

LEMMA ForgetProbeLook ==
  ASSUME AcctTypes, LookTypes, QuotaTypes, ThreadTypes,
         NEW l \in Looks, ForgetProbe(l)
  PROVE  Goes(l, "forgetModels")
<1> DEFINE c == [look[l] EXCEPT !.pc = "forgetModels"]
<1>1. look' = [look EXCEPT ![l] = c]
  BY DEF ForgetProbe, LookTypes, Looking, Resting, At
<1>2. look[l] \in Looking
  BY DEF LookTypes
<1>3. c \in Looking
  BY <1>2 DEF Looking
<1>4. /\ c.pc = "forgetModels" /\ c.inst = look[l].inst
      /\ c.job = look[l].job /\ c.had = look[l].had
  BY <1>2 DEF Looking, At, Resting
<1> HIDE DEF c
<1> QED
  BY <1>1, <1>3, <1>4 DEF Goes, Holds

LEMMA ProbeAnswersLook ==
  ASSUME AcctTypes, LookTypes, QuotaTypes, ThreadTypes,
         NEW l \in Looks, ProbeAnswers(l)
  PROVE  Goes(l, "noting")
<1> DEFINE c == [look[l] EXCEPT !.pc = "noting", !.saw = acct[look[l].inst]]
<1>1. look' = [look EXCEPT ![l] = c]
  BY DEF ProbeAnswers, LookTypes, Looking, Resting, At
<1>2. look[l] \in Looking /\ acct[look[l].inst] \in Nat
  BY DEF LookTypes, Looking, AcctTypes
<1>3. c \in Looking
  BY <1>2 DEF Looking
<1>4. /\ c.pc = "noting" /\ c.inst = look[l].inst
      /\ c.job = look[l].job /\ c.had = look[l].had /\ c.saw = acct[c.inst]
  BY <1>2 DEF Looking, At, Resting
<1> HIDE DEF c
<1> QED
  BY <1>1, <1>3, <1>4 DEF Goes, Holds

LEMMA ForgetModelsLook ==
  ASSUME AcctTypes, LookTypes, QuotaTypes, ThreadTypes,
         NEW l \in Looks, ForgetModels(l)
  PROVE  Goes(l, "forgetQuota")
<1> DEFINE c == [look[l] EXCEPT !.pc = "forgetQuota"]
<1>1. look' = [look EXCEPT ![l] = c]
  BY DEF ForgetModels, LookTypes, Looking, Resting, At
<1>2. look[l] \in Looking
  BY DEF LookTypes
<1>3. c \in Looking
  BY <1>2 DEF Looking
<1>4. /\ c.pc = "forgetQuota" /\ c.inst = look[l].inst
      /\ c.job = look[l].job /\ c.had = look[l].had
  BY <1>2 DEF Looking, At, Resting
<1> HIDE DEF c
<1> QED
  BY <1>1, <1>3, <1>4 DEF Goes, Holds

LEMMA RecheckLook ==
  ASSUME AcctTypes, LookTypes, QuotaTypes, ThreadTypes,
         NEW l \in Looks, Recheck(l)
  PROVE  Goes(l, "recheckModels")
<1> DEFINE c == [look[l] EXCEPT !.pc = "recheckModels"]
<1>1. look' = [look EXCEPT ![l] = c]
  BY DEF Recheck, LookTypes, Looking, Resting, At
<1>2. look[l] \in Looking
  BY DEF LookTypes
<1>3. c \in Looking
  BY <1>2 DEF Looking
<1>4. /\ c.pc = "recheckModels" /\ c.inst = look[l].inst
      /\ c.job = look[l].job /\ c.had = look[l].had
  BY <1>2 DEF Looking, At, Resting
<1> HIDE DEF c
<1> QED
  BY <1>1, <1>3, <1>4 DEF Goes, Holds

LEMMA EpochLook ==
  ASSUME AcctTypes, LookTypes, QuotaTypes, ThreadTypes,
         NEW l \in Looks, Epoch(l)
  PROVE  Goes(l, "reading")
<1> DEFINE c == [look[l] EXCEPT !.pc = "reading", !.gen = quotaGen[look[l].inst]]
<1>1. look' = [look EXCEPT ![l] = c]
  BY DEF Epoch, LookTypes, Looking, Resting, At
<1>2. look[l] \in Looking /\ quotaGen[look[l].inst] \in Nat
  BY DEF LookTypes, Looking, QuotaTypes
<1>3. c \in Looking
  BY <1>2 DEF Looking
<1>4. /\ c.pc = "reading" /\ c.inst = look[l].inst
      /\ c.job = look[l].job /\ c.had = look[l].had /\ c.gen = quotaGen[c.inst]
  BY <1>2 DEF Looking, At, Resting
<1> HIDE DEF c
<1> QED
  BY <1>1, <1>3, <1>4 DEF Goes, Holds

LEMMA ReadQuotaLook ==
  ASSUME AcctTypes, LookTypes, ThreadTypes, NEW l \in Looks, ReadQuota(l)
  PROVE  Goes(l, "storing")
<1> DEFINE r == IF Live(look[l].inst) THEN actor.sess
                ELSE [inst |-> look[l].inst, id |-> acct[look[l].inst], early |-> FALSE]
<1>1. look[l] \in Looking /\ r \in Reading
  BY DEF LookTypes, Looking, AcctTypes, ThreadTypes, Acting, Reading
<1>2. look' = [look EXCEPT ![l] = [look[l] EXCEPT !.pc = "storing", !.snap = r]]
  BY DEF ReadQuota, LookTypes, Looking
<1> HIDE DEF r
<1> DEFINE c == [look[l] EXCEPT !.pc = "storing", !.snap = r]
<1>3. c \in Looking /\ c.pc = "storing" /\ c.inst = look[l].inst /\ c.job = look[l].job
      /\ c.had = look[l].had /\ c.gen = look[l].gen /\ c.snap = r
  BY <1>1 DEF Looking
<1> HIDE DEF c
<1> QED
  BY <1>2, <1>3 DEF Goes, Holds, r, c

\* availability declares an account left, or goes on to what it was called for.
LEMMA NoteLook ==
  ASSUME LookTypes, NEW l \in Looks, Note(l)
  PROVE  \/ Goes(l, "forgetModels") /\ look[l].had # look[l].saw
         \/ Begins(l, look[l].inst, {"list", "refresh"})
<1>1. CASE Changed(look[l])
  <2> DEFINE c == [look[l] EXCEPT !.pc = "forgetModels", !.saw = 0]
  <2>1. look' = [look EXCEPT ![l] = c] /\ look[l] \in Looking
    BY <1>1 DEF Note, LookTypes
  <2>2. c \in Looking /\ c.pc = "forgetModels" /\ c.inst = look[l].inst /\ c.job = look[l].job
        /\ c.had = look[l].had
    BY <2>1 DEF Looking
  <2> HIDE DEF c
  <2> QED
    BY <1>1, <2>1, <2>2 DEF Goes, Holds, Changed
<1>2. CASE ~Changed(look[l])
  <2> DEFINE c == At(look[l].job, look[l].inst)
  <2>1. look' = [look EXCEPT ![l] = c]
    BY <1>2 DEF Note
  <2>2. look[l].job \in {"list", "refresh"} /\ look[l].inst \in Looked
    BY DEF Note, LookTypes, Looking
  <2>3. c \in Looking /\ c.pc = look[l].job /\ c.inst = look[l].inst
    BY <2>2, AtBlank
  <2> HIDE DEF c
  <2> QED
    BY <2>1, <2>2, <2>3 DEF Begins, Holds
<1> QED
  BY <1>1, <1>2

LEMMA ForgetQuotaLook ==
  ASSUME LookTypes, NEW l \in Looks, ForgetQuota(l)
  PROVE  \/ Begins(l, look[l].inst, {"list", "refresh"})
         \/ Holds(l, Resting)
<1>1. CASE look[l].job = "forget"
  BY <1>1, Blanks DEF ForgetQuota, Holds
<1>2. CASE look[l].job # "forget"
  <2> DEFINE c == At(look[l].job, look[l].inst)
  <2>1. look' = [look EXCEPT ![l] = c]
    BY <1>2 DEF ForgetQuota
  <2>2. look[l].job \in {"list", "refresh"} /\ look[l].inst \in Looked
    BY <1>2 DEF ForgetQuota, LookTypes, Looking
  <2>3. c \in Looking /\ c.pc = look[l].job /\ c.inst = look[l].inst
    BY <2>2, AtBlank
  <2> HIDE DEF c
  <2> QED
    BY <2>1, <2>2, <2>3 DEF Begins, Holds
<1> QED
  BY <1>1, <1>2

LEMMA RestingLook ==
  ASSUME NEW l \in Looks, ListModels(l) \/ RecheckModels(l) \/ ReadFails(l) \/ StoreQuota(l)
  PROVE  Holds(l, Resting)
<1> QED
  BY Blanks DEF Holds, ListModels, RecheckModels, ReadFails, StoreQuota

LEMMA HoldsTypes ==
  ASSUME LookTypes, NEW l \in Looks, NEW c, Holds(l, c),
         \/ c.pc \in {"idle", "recheckModels"}
         \/ c.inst \in Looked /\ (c.pc \in {"probing", "noting"} => c.job # "forget")
  PROVE  LookTypes'
<1> QED
  BY DEF LookTypes, Holds


LEMMA LookTypesStep ==
  ASSUME IInv, [Next]_vars
  PROVE  LookTypes'
<1>1. ASSUME NEW l \in Looks, NEW i \in Looked, FlowSignIn(l, i) PROVE LookTypes'
  BY <1>1, FlowSignInLook, HoldsTypes
  DEF IInv, Begins
<1>2. ASSUME NEW l \in Looks, NEW i \in Looked, Ask(l, scene, i) PROVE LookTypes'
  BY <1>2, AskLook, HoldsTypes
  DEF IInv, Begins
<1>3. ASSUME NEW l \in Looks, ForgetProbe(l) PROVE LookTypes'
  BY <1>3, ForgetProbeLook, HoldsTypes, Blanks
  DEF ForgetProbe, IInv, AcctTypes, LookTypes, QuotaTypes, ThreadTypes, Begins, Goes
<1>4. ASSUME NEW l \in Looks, ProbeAnswers(l) PROVE LookTypes'
  BY <1>4, ProbeAnswersLook, HoldsTypes, Blanks
  DEF ProbeAnswers, IInv, AcctTypes, LookTypes, QuotaTypes, ThreadTypes, Begins, Goes
<1>5. ASSUME NEW l \in Looks, Note(l) PROVE LookTypes'
  BY <1>5, NoteLook, HoldsTypes, Blanks
  DEF Note, IInv, AcctTypes, LookTypes, QuotaTypes, ThreadTypes, Begins, Goes
<1>6. ASSUME NEW l \in Looks, ForgetModels(l) PROVE LookTypes'
  BY <1>6, ForgetModelsLook, HoldsTypes, Blanks
  DEF ForgetModels, IInv, AcctTypes, LookTypes, QuotaTypes, ThreadTypes, Begins, Goes
<1>7. ASSUME NEW l \in Looks, ForgetQuota(l) PROVE LookTypes'
  BY <1>7, ForgetQuotaLook, HoldsTypes, Blanks
  DEF ForgetQuota, IInv, AcctTypes, LookTypes, QuotaTypes, ThreadTypes, Begins, Goes
<1>8. ASSUME NEW l \in Looks, ListModels(l) PROVE LookTypes'
  BY <1>8, RestingLook, HoldsTypes, Blanks
  DEF ListModels, IInv, AcctTypes, LookTypes, QuotaTypes, ThreadTypes, Begins, Goes
<1>9. ASSUME NEW l \in Looks, Recheck(l) PROVE LookTypes'
  BY <1>9, RecheckLook, HoldsTypes, Blanks
  DEF Recheck, IInv, AcctTypes, LookTypes, QuotaTypes, ThreadTypes, Begins, Goes
<1>10. ASSUME NEW l \in Looks, RecheckModels(l) PROVE LookTypes'
  BY <1>10, RestingLook, HoldsTypes, Blanks
  DEF RecheckModels, IInv, AcctTypes, LookTypes, QuotaTypes, ThreadTypes, Begins, Goes
<1>11. ASSUME NEW l \in Looks, Epoch(l) PROVE LookTypes'
  BY <1>11, EpochLook, HoldsTypes, Blanks
  DEF Epoch, IInv, AcctTypes, LookTypes, QuotaTypes, ThreadTypes, Begins, Goes
<1>12. ASSUME NEW l \in Looks, ReadQuota(l) PROVE LookTypes'
  BY <1>12, ReadQuotaLook, HoldsTypes, Blanks
  DEF ReadQuota, IInv, AcctTypes, LookTypes, QuotaTypes, ThreadTypes, Begins, Goes
<1>13. ASSUME NEW l \in Looks, ReadFails(l) PROVE LookTypes'
  BY <1>13, RestingLook, HoldsTypes, Blanks
  DEF ReadFails, IInv, AcctTypes, LookTypes, QuotaTypes, ThreadTypes, Begins, Goes
<1>14. ASSUME NEW l \in Looks, StoreQuota(l) PROVE LookTypes'
  BY <1>14, RestingLook, HoldsTypes, Blanks
  DEF StoreQuota, IInv, AcctTypes, LookTypes, QuotaTypes, ThreadTypes, Begins, Goes
<1>15. CASE Crash
  BY <1>15, Blanks
  DEF Crash, IInv, LookTypes
<1>16. CASE UNCHANGED <<look>>
  BY <1>16
  DEF IInv, LookTypes
<1> QED
  BY <1>1, <1>2, <1>3, <1>4, <1>5, <1>6, <1>7, <1>8, <1>9, <1>10, <1>11, <1>12, <1>13,
    <1>14, <1>15, <1>16
  DEF Next, CacheStep, ThreadStep, vars, cacheVars, quotaVars, threadVars, boundVars,
    LoginCommand, TerminalSignIn, ExpireProbe, ListingAnswers, ExpireModels, Push,
    Adopt, StartProcess, Turn, ProcessExits, BeginSwitch, Timeout, SwitchRefused,
    MoveConversation, SetProviderInstance, RowFails, Rebind

LEMMA ListTypesStep ==
  ASSUME IInv, [Next]_vars
  PROVE  ListTypes'
<1>1. ASSUME NEW l \in Looks, ForgetModels(l) PROVE ListTypes'
  BY <1>1, Blanks, AccountConstants
  DEF ForgetModels, IInv, ListTypes, LookTypes, Looking, Listing, Models
<1>2. ASSUME NEW l \in Looks, ListModels(l) PROVE ListTypes'
  BY <1>2, Blanks, AccountConstants
  DEF ListModels, Asking, IInv, ListTypes, LookTypes, Looking, Listing, Models
<1>3. ASSUME NEW i \in Looked, ListingAnswers(i) PROVE ListTypes'
  <2>1. listing[i] \in Listing /\ listing[i].asked \in Nat /\ dropped[i] \in Nat
        /\ modelGen \in Nat
    BY DEF IInv, ListTypes, Listing
  <2>2. CASE Overtaken(i)
    <3> DEFINE c == [gen |-> modelGen, asked |-> dropped[i], on |-> TRUE]
    <3>1. listing' = [listing EXCEPT ![i] = c] /\ UNCHANGED <<models, modelGen, dropped>>
      BY <1>3, <2>2 DEF ListingAnswers, Again, Asking
    <3>2. c \in Listing
      BY <2>1 DEF Listing
    <3> QED
      BY <3>1, <3>2 DEF IInv, ListTypes
  <2>3. CASE ~Overtaken(i)
    <3>1. PICK ok \in BOOLEAN :
            models' = [models EXCEPT ![i] =
                 [asked |-> listing[i].asked, fresh |-> TRUE,
                  list  |-> IF ok THEN {listing[i].asked} ELSE models[i].list]]
      BY <1>3, <2>3 DEF ListingAnswers
    <3>2. (IF ok THEN {listing[i].asked} ELSE models[i].list) \in SUBSET Nat
      BY <2>1 DEF IInv, ListTypes, Models
    <3>3. models' \in [Looked -> Models]
      BY <2>1, <3>1, <3>2 DEF IInv, ListTypes, Models
    <3>4. listing' \in [Looked -> Listing] /\ UNCHANGED <<modelGen, dropped>>
      BY <1>3, <2>3, Blanks DEF ListingAnswers, IInv, ListTypes
    <3> QED
      BY <3>3, <3>4 DEF IInv, ListTypes
  <2> QED
    BY <2>2, <2>3
<1>4. ASSUME NEW i \in Looked, ExpireModels(i) PROVE ListTypes'
  BY <1>4, Blanks, AccountConstants
  DEF ExpireModels, IInv, ListTypes, LookTypes, Looking, Listing, Models
<1>5. ASSUME NEW l \in Looks, RecheckModels(l) PROVE ListTypes'
  BY <1>5, Blanks, AccountConstants
  DEF RecheckModels, IInv, ListTypes, LookTypes, Looking, Listing, Models
<1>6. CASE Crash
  BY <1>6, Blanks, AccountConstants
  DEF Crash, IInv, ListTypes, LookTypes, Looking, Listing, Models
<1>7. CASE UNCHANGED <<models, listing, modelGen, dropped>>
  BY <1>7
  DEF IInv, ListTypes, LookTypes, Looking, Listing, Models
<1> QED
  BY <1>1, <1>2, <1>3, <1>4, <1>5, <1>6, <1>7
  DEF Next, CacheStep, ThreadStep, vars, cacheVars, quotaVars, threadVars, boundVars,
    LoginCommand, TerminalSignIn, ExpireProbe, FlowSignIn, Ask, ForgetProbe,
    ProbeAnswers, Note, ForgetQuota, Recheck, Epoch, ReadQuota, ReadFails, StoreQuota,
    Push, Adopt, StartProcess, Turn, ProcessExits, BeginSwitch, Timeout,
    SwitchRefused, MoveConversation, SetProviderInstance, RowFails, Rebind

LEMMA QuotaTypesStep ==
  ASSUME IInv, [Next]_vars
  PROVE  QuotaTypes'
<1>1. ASSUME NEW l \in Looks, ForgetQuota(l) PROVE QuotaTypes'
  <2>1. look[l] \in Looking /\ look[l].had \in Nat /\ look[l].inst \in Instances
    BY DEF IInv, LookTypes, Looking
  <2>2. /\ quotas' = [quotas EXCEPT ![look[l].inst] = NoReading]
        /\ quotaGen' = [quotaGen EXCEPT ![look[l].inst] = @ + 1]
        /\ left' = [left EXCEPT ![look[l].inst] = IF look[l].had > @ THEN look[l].had ELSE @]
    BY <1>1 DEF ForgetQuota
  <2> QED
    BY <2>1, <2>2, Blanks DEF IInv, QuotaTypes
<1>2. CASE Push
  <2>1. PICK r \in {actor.sess, NoReading} : quotas' = [quotas EXCEPT ![actor.bind.inst] = r]
    BY <1>2 DEF Push
  <2>2. r \in Reading /\ UNCHANGED <<quotaGen, left>>
    BY <1>2, Blanks DEF Push, IInv, ThreadTypes, Acting
  <2> QED
    BY <2>1, <2>2 DEF IInv, QuotaTypes
<1>3. ASSUME NEW l \in Looks, StoreQuota(l) PROVE QuotaTypes'
  BY <1>3, Blanks, AccountConstants
  DEF StoreQuota, Bound, IInv, QuotaTypes, LookTypes, Looking
<1>4. CASE Crash
  BY <1>4, Blanks, AccountConstants
  DEF Crash, IInv, QuotaTypes, LookTypes, Looking
<1>5. CASE UNCHANGED <<quotas, quotaGen, left>>
  BY <1>5
  DEF IInv, QuotaTypes, LookTypes, Looking
<1> QED
  BY <1>1, <1>2, <1>3, <1>4, <1>5
  DEF Next, CacheStep, ThreadStep, vars, cacheVars, quotaVars, threadVars, boundVars,
    LoginCommand, TerminalSignIn, ExpireProbe, ListingAnswers, ExpireModels,
    FlowSignIn, Ask, ForgetProbe, ProbeAnswers, Note, ForgetModels, ListModels,
    Recheck, RecheckModels, Epoch, ReadQuota, ReadFails, Adopt, StartProcess, Turn,
    ProcessExits, BeginSwitch, Timeout, SwitchRefused, MoveConversation,
    SetProviderInstance, RowFails, Rebind

\* A switch's step, as one of what it holds.
SwitchTo(s, c) == sw' = [sw EXCEPT ![s] = c] /\ c \in Switching

LEMMA SwitchSteps ==
  ASSUME ThreadTypes, NEW s \in Switches
  PROVE  /\ Timeout(s) => SwitchTo(s, [sw[s] EXCEPT !.waits = FALSE])
         /\ SwitchRefused(s) \/ RowFails(s) \/ Rebind(s) => SwitchTo(s, Settled)
         /\ MoveConversation(s) => \/ SwitchTo(s, [sw[s] EXCEPT !.pc = "moved"])
                                   \/ SwitchTo(s, Settled)
         /\ SetProviderInstance(s) => \/ SwitchTo(s, [sw[s] EXCEPT !.pc = "binding"])
                                      \/ SwitchTo(s, Settled)
<1>1. sw[s] \in Switching /\ Settled \in Switching
  BY Blanks DEF ThreadTypes
<1>2. [sw[s] EXCEPT !.waits = FALSE] \in Switching
  BY <1>1 DEF Switching
<1>3. [sw[s] EXCEPT !.pc = "moved"] \in Switching
  BY <1>1 DEF Switching
<1>4. [sw[s] EXCEPT !.pc = "binding"] \in Switching
  BY <1>1 DEF Switching
<1>5. Timeout(s) => SwitchTo(s, [sw[s] EXCEPT !.waits = FALSE])
  BY <1>2 DEF Timeout, SwitchTo, ThreadTypes
<1>6. SwitchRefused(s) \/ RowFails(s) \/ Rebind(s) => SwitchTo(s, Settled)
  BY <1>1 DEF SwitchRefused, RowFails, Rebind, SwitchTo
<1>7. MoveConversation(s) => \/ SwitchTo(s, [sw[s] EXCEPT !.pc = "moved"])
                             \/ SwitchTo(s, Settled)
  BY <1>1, <1>3 DEF MoveConversation, SwitchTo, ThreadTypes
<1>8. SetProviderInstance(s) => \/ SwitchTo(s, [sw[s] EXCEPT !.pc = "binding"])
                                \/ SwitchTo(s, Settled)
  BY <1>1, <1>4 DEF SetProviderInstance, SwitchTo, ThreadTypes
<1> QED
  BY <1>5, <1>6, <1>7, <1>8

\* What the actor becomes.
LEMMA ActorSteps ==
  ASSUME ThreadTypes
  PROVE  /\ [actor EXCEPT !.sess = NoReading] \in Acting
         /\ [actor EXCEPT !.turn = ~actor.turn] \in Acting
         /\ \A r \in Reading : [actor EXCEPT !.sess = r] \in Acting
         /\ \A i \in Instances : [actor EXCEPT !.inst = i] \in Acting
         /\ \A b \in [inst : Instances, gen : Nat] : [actor EXCEPT !.bind = b] \in Acting
<1>1. actor \in Acting /\ NoReading \in Reading
  BY Blanks DEF ThreadTypes
<1> QED
  BY <1>1 DEF Acting

LEMMA ThreadTypesStep ==
  ASSUME IInv, [Next]_vars
  PROVE  ThreadTypes'
<1>0. ThreadTypes
  BY DEF IInv
<1>1. row' \in Instances
  <2>1. ASSUME NEW s \in Switches, SetProviderInstance(s) PROVE row' \in Instances
    BY <1>0, <2>1 DEF SetProviderInstance, ThreadTypes, Switching
  <2> QED
    BY <1>0, <2>1 DEF ThreadTypes, Next, CacheStep, ThreadStep, vars, threadVars, boundVars,
      LoginCommand, TerminalSignIn, ExpireProbe, ListingAnswers, ExpireModels, FlowSignIn,
      Ask, ForgetProbe, ProbeAnswers, Note, ForgetModels, ForgetQuota, ListModels,
      Recheck, RecheckModels, Epoch, ReadQuota, ReadFails, StoreQuota, Push, Adopt,
      StartProcess, Turn, ProcessExits, Crash, BeginSwitch, Timeout, SwitchRefused,
      MoveConversation, RowFails, Rebind
<1>2. conv' \in Instances
  <2>1. ASSUME NEW s \in Switches, MoveConversation(s) \/ RowFails(s) PROVE conv' \in Instances
    BY <1>0, <2>1 DEF MoveConversation, RowFails, Moved, Back, ThreadTypes, Switching
  <2> QED
    BY <1>0, <2>1 DEF ThreadTypes, Next, CacheStep, ThreadStep, vars, threadVars, boundVars,
      LoginCommand, TerminalSignIn, ExpireProbe, ListingAnswers, ExpireModels, FlowSignIn,
      Ask, ForgetProbe, ProbeAnswers, Note, ForgetModels, ForgetQuota, ListModels,
      Recheck, RecheckModels, Epoch, ReadQuota, ReadFails, StoreQuota, Push, Adopt,
      StartProcess, Turn, ProcessExits, Crash, BeginSwitch, Timeout, SwitchRefused,
      SetProviderInstance, Rebind
<1>3. sw' \in [Switches -> Switching]
  <2>1. ASSUME NEW s \in Switches, NEW c, SwitchTo(s, c) PROVE sw' \in [Switches -> Switching]
    BY <1>0, <2>1 DEF SwitchTo, ThreadTypes
  <2>2. ASSUME NEW s \in Switches, NEW to \in Instances, BeginSwitch(s, to)
        PROVE  sw' \in [Switches -> Switching]
    BY <1>0, <2>2 DEF BeginSwitch, ThreadTypes, Switching
  <2>3. CASE ProcessExits \/ Crash
    BY <2>3, Blanks DEF ProcessExits, Crash
  <2> QED
    BY <1>0, <2>1, <2>2, <2>3, SwitchSteps
    DEF ThreadTypes, Next, CacheStep, ThreadStep, vars, threadVars, boundVars,
      LoginCommand, TerminalSignIn, ExpireProbe, ListingAnswers, ExpireModels, FlowSignIn,
      Ask, ForgetProbe, ProbeAnswers, Note, ForgetModels, ForgetQuota, ListModels,
      Recheck, RecheckModels, Epoch, ReadQuota, ReadFails, StoreQuota, Push, Adopt,
      StartProcess, Turn
<1>4. inbox' \in Seq(Switches)
  <2>1. ASSUME NEW s \in Switches, Serve(s) PROVE inbox' \in Seq(Switches)
    BY <1>0, <2>1, HeadTailProperties DEF Serve, ThreadTypes
  <2>2. ASSUME NEW s \in Switches, NEW to \in Instances, BeginSwitch(s, to)
        PROVE  inbox' \in Seq(Switches)
    BY <1>0, <2>2, AppendProperties DEF BeginSwitch, ThreadTypes
  <2>3. CASE ProcessExits \/ Crash
    BY <2>3, EmptySeq DEF ProcessExits, Crash
  <2> QED
    BY <1>0, <2>1, <2>2, <2>3
    DEF ThreadTypes, Next, CacheStep, ThreadStep, vars, threadVars, boundVars, SwitchRefused,
      MoveConversation,
      LoginCommand, TerminalSignIn, ExpireProbe, ListingAnswers, ExpireModels, FlowSignIn,
      Ask, ForgetProbe, ProbeAnswers, Note, ForgetModels, ForgetQuota, ListModels,
      Recheck, RecheckModels, Epoch, ReadQuota, ReadFails, StoreQuota, Push, Adopt,
      StartProcess, Turn, Timeout, SetProviderInstance, RowFails, Rebind
<1>5. actor' \in Acting
  <2>1. ASSUME NEW s \in Switches, MoveConversation(s) PROVE actor' \in Acting
    BY <1>0, <2>1, ActorSteps DEF MoveConversation
  <2>2. ASSUME NEW s \in Switches, SetProviderInstance(s) PROVE actor' \in Acting
    BY <1>0, <2>2, ActorSteps DEF SetProviderInstance, ThreadTypes, Switching
  <2>3. ASSUME NEW s \in Switches, Rebind(s) PROVE actor' \in Acting
    BY <1>0, <2>3, ActorSteps DEF Rebind, ThreadTypes, IInv, QuotaTypes
  <2>4. ASSUME NEW s \in Switches, NEW to \in Instances, BeginSwitch(s, to)
        PROVE  actor' \in Acting
    BY <1>0, <2>4, AdoptedBlank DEF BeginSwitch, ThreadTypes, IInv
  <2>5. CASE ProcessExits \/ Crash
    BY <2>5, Blanks DEF ProcessExits, Crash
  <2>6. CASE Adopt
    BY <1>0, <2>6, AdoptedBlank DEF Adopt, ThreadTypes, IInv
  <2>7. CASE StartProcess
    <3>1. [inst |-> actor.inst, id |-> acct[actor.inst], early |-> Unbound] \in Reading
      BY <1>0 DEF ThreadTypes, Acting, Reading, IInv, AcctTypes, Unbound
    <3> QED
      BY <1>0, <2>7, <3>1, ActorSteps DEF StartProcess
  <2>8. CASE Turn
    BY <1>0, <2>8, ActorSteps DEF Turn
  <2> QED
    BY <1>0, <2>1, <2>2, <2>3, <2>4, <2>5, <2>6, <2>7, <2>8
    DEF ThreadTypes, Next, CacheStep, ThreadStep, vars, threadVars, boundVars,
      LoginCommand, TerminalSignIn, ExpireProbe, ListingAnswers, ExpireModels, FlowSignIn,
      Ask, ForgetProbe, ProbeAnswers, Note, ForgetModels, ForgetQuota, ListModels,
      Recheck, RecheckModels, Epoch, ReadQuota, ReadFails, StoreQuota, Push,
      Timeout, SwitchRefused, RowFails
<1> QED
  BY <1>1, <1>2, <1>3, <1>4, <1>5 DEF ThreadTypes


-----------------------------------------------------------------------------
(* Accounts and those who look at them.                                     *)

\* What a goroutine's step leaves of the others.
LEMMA HoldsOne ==
  ASSUME LookTypes, NEW l \in Looks, NEW c, Holds(l, c)
  PROVE  look'[l] = c /\ \A k \in Looks : k # l => look'[k] = look[k]
<1> QED
  BY DEF LookTypes, Holds

LEMMA LeftStep ==
  ASSUME IInv, [Next]_vars
  PROVE  LeftOK'
<1>1. ASSUME NEW i \in Looked, LoginCommand(i) PROVE LeftOK'
  <2>1. probes' = [probes EXCEPT ![i] = NoProbe] /\ UNCHANGED <<acct, left>>
    BY <1>1 DEF LoginCommand, quotaVars
  <2> QED
    BY <2>1, AccountConstants DEF NoProbe, IInv, LeftOK, AcctTypes
<1>2. ASSUME NEW i \in Looked, TerminalSignIn(i) PROVE LeftOK'
  <2>1. acct' = [acct EXCEPT ![i] = acct[i] + 1] /\ UNCHANGED <<probes, left>>
    BY <1>2 DEF TerminalSignIn, SignsIn, quotaVars
  <2> QED
    BY <2>1, AccountConstants DEF IInv, LeftOK, AcctTypes, QuotaTypes
<1>3. ASSUME NEW l \in Looks, NEW i \in Looked, FlowSignIn(l, i) PROVE LeftOK'
  <2>1. acct' = [acct EXCEPT ![i] = acct[i] + 1] /\ UNCHANGED <<probes, left>>
    BY <1>3 DEF FlowSignIn, SignsIn, quotaVars
  <2> QED
    BY <2>1, AccountConstants DEF IInv, LeftOK, AcctTypes, QuotaTypes
<1>4. ASSUME NEW l \in Looks, ForgetProbe(l) PROVE LeftOK'
  <2>1. probes' = [probes EXCEPT ![look[l].inst] = NoProbe] /\ UNCHANGED <<acct, left>>
    BY <1>4 DEF ForgetProbe, quotaVars
  <2> QED
    BY <2>1, AccountConstants DEF NoProbe, IInv, LeftOK, AcctTypes
<1>5. ASSUME NEW l \in Looks, Note(l) PROVE LeftOK'
  <2>1. look[l].saw <= acct[look[l].inst]
    BY <1>5 DEF Note, IInv, LookOK, Held
  <2>2. UNCHANGED <<acct, left>>
        /\ probes' = [probes EXCEPT ![look[l].inst] = [id |-> look[l].saw, fresh |-> TRUE]]
    BY <1>5 DEF Note, quotaVars
  <2> QED
    BY <2>1, <2>2 DEF IInv, LeftOK, AcctTypes
<1>6. ASSUME NEW i \in Looked, ExpireProbe(i) PROVE LeftOK'
  <2>1. probes' = [probes EXCEPT ![i] = [probes[i] EXCEPT !.fresh = FALSE]]
        /\ UNCHANGED <<acct, left>>
    BY <1>6 DEF ExpireProbe, quotaVars, IInv, AcctTypes
  <2> QED
    BY <2>1 DEF IInv, LeftOK, AcctTypes
<1>7. ASSUME NEW l \in Looks, Recheck(l) PROVE LeftOK'
  BY <1>7, AccountConstants DEF Recheck, NoProbe, quotaVars, IInv, LeftOK, AcctTypes
<1>8. ASSUME NEW l \in Looks, ForgetQuota(l) PROVE LeftOK'
  <2>1. look[l].had < acct[look[l].inst] /\ look[l].had \in Nat
    BY <1>8 DEF ForgetQuota, IInv, LookOK, Held, LookTypes, Looking
  <2>2. UNCHANGED <<acct, probes>>
        /\ left' = [left EXCEPT ![look[l].inst] =
                      IF look[l].had > left[look[l].inst] THEN look[l].had
                      ELSE left[look[l].inst]]
    BY <1>8 DEF ForgetQuota
  <2> QED
    BY <2>1, <2>2 DEF IInv, LeftOK, QuotaTypes
<1>9. CASE Crash
  BY <1>9, AccountConstants DEF Crash, NoProbe, quotaVars, IInv, LeftOK, AcctTypes
<1>10. CASE UNCHANGED <<acct, probes, left>>
  BY <1>10
  DEF IInv, LeftOK
<1> QED
  BY <1>1, <1>2, <1>3, <1>4, <1>5, <1>6, <1>7, <1>8, <1>9, <1>10
  DEF Next, CacheStep, ThreadStep, vars, cacheVars, quotaVars, threadVars, boundVars,
    ListingAnswers, ExpireModels, Ask, ProbeAnswers, ForgetModels, ListModels,
    RecheckModels, Epoch, ReadQuota, ReadFails, StoreQuota, Push, Adopt, StartProcess,
    Turn, ProcessExits, BeginSwitch, Timeout, SwitchRefused, MoveConversation,
    SetProviderInstance, RowFails, Rebind

\* Accounts and generations only grow, and whoever is seen to leave starts a new
\* generation; a crash starts them all again.
LEMMA Ages ==
  ASSUME IInv, [Next]_vars, ~Crash, NEW i \in Instances
  PROVE  /\ acct[i] \in Nat /\ acct'[i] \in Nat /\ acct[i] <= acct'[i]
         /\ quotaGen[i] \in Nat /\ quotaGen'[i] \in Nat /\ quotaGen[i] <= quotaGen'[i]
         /\ left[i] \in Nat /\ left'[i] \in Nat
         /\ quotaGen'[i] = quotaGen[i] => left'[i] = left[i]
<1>0. AcctTypes /\ AcctTypes' /\ QuotaTypes /\ QuotaTypes'
  BY AcctTypesStep, QuotaTypesStep DEF IInv
<1>1. acct[i] <= acct'[i]
  <2>1. ASSUME NEW j \in Looked, SignsIn(j) PROVE acct[i] <= acct'[i]
    BY <1>0, <2>1, AccountConstants DEF SignsIn, AcctTypes
  <2>2. CASE UNCHANGED acct
    BY <1>0, <2>2 DEF AcctTypes
  <2> QED
    BY <2>1, <2>2 DEF Next, CacheStep, ThreadStep, vars, FlowSignIn, TerminalSignIn,
      LoginCommand, ExpireProbe, ListingAnswers, ExpireModels, Ask, ForgetProbe,
      ProbeAnswers, Note, ForgetModels, ForgetQuota, ListModels, Recheck,
      RecheckModels, Epoch, ReadQuota, ReadFails, StoreQuota, Push, Adopt,
      StartProcess, Turn, ProcessExits, BeginSwitch, Timeout, SwitchRefused,
      MoveConversation, SetProviderInstance, RowFails, Rebind
<1>2. /\ quotaGen[i] <= quotaGen'[i]
      /\ quotaGen'[i] = quotaGen[i] => left'[i] = left[i]
  <2>1. ASSUME NEW l \in Looks, ForgetQuota(l)
        PROVE  /\ quotaGen[i] <= quotaGen'[i]
               /\ quotaGen'[i] = quotaGen[i] => left'[i] = left[i]
    BY <1>0, <2>1 DEF ForgetQuota, QuotaTypes
  <2>2. CASE UNCHANGED <<quotaGen, left>>
    BY <1>0, <2>2 DEF QuotaTypes
  <2> QED
    BY <2>1, <2>2 DEF Next, CacheStep, ThreadStep, vars, quotaVars,
      LoginCommand, TerminalSignIn, ExpireProbe, ListingAnswers, ExpireModels, FlowSignIn,
      Ask, ForgetProbe, ProbeAnswers, Note, ForgetModels, ListModels, Recheck,
      RecheckModels, Epoch, ReadQuota, ReadFails, StoreQuota, Push, Adopt,
      StartProcess, Turn, ProcessExits, BeginSwitch, Timeout, SwitchRefused,
      MoveConversation, SetProviderInstance, RowFails, Rebind
<1> QED
  BY <1>0, <1>1, <1>2 DEF AcctTypes, QuotaTypes

LEMMA HeldAges ==
  ASSUME NEW c, c \in Looking, NEW a \in Nat, NEW b \in Nat, a <= b,
         NEW g \in Nat, NEW h \in Nat, g <= h,
         NEW n, NEW m, h = g => m = n, Held(c, a, g, n)
  PROVE  Held(c, b, h, m)
<1>1. c.had \in Nat /\ c.saw \in Nat /\ c.gen \in Nat
  BY DEF Looking
<1> QED
  BY <1>1 DEF Held

\* What the others hold ages; what l holds is as said.
LEMMA OneHolds ==
  ASSUME IInv, [Next]_vars, ~Crash, NEW l \in Looks, NEW c, Holds(l, c),
         Held(c, acct'[c.inst], quotaGen'[c.inst], left'[c.inst])
  PROVE  LookOK'
<1>1. look'[l] = c /\ \A k \in Looks : k # l => look'[k] = look[k]
  BY HoldsOne DEF IInv
<1>2. ASSUME NEW k \in Looks, k # l
      PROVE  Held(look[k], acct'[look[k].inst], quotaGen'[look[k].inst], left'[look[k].inst])
  <2>1. look[k] \in Looking /\ look[k].inst \in Instances
    BY DEF IInv, LookTypes, Looking
  <2>2. Held(look[k], acct[look[k].inst], quotaGen[look[k].inst], left[look[k].inst])
    BY DEF IInv, LookOK
  <2>3. /\ acct[look[k].inst] \in Nat /\ acct'[look[k].inst] \in Nat
        /\ acct[look[k].inst] <= acct'[look[k].inst]
        /\ quotaGen[look[k].inst] \in Nat /\ quotaGen'[look[k].inst] \in Nat
        /\ quotaGen[look[k].inst] <= quotaGen'[look[k].inst]
        /\ quotaGen'[look[k].inst] = quotaGen[look[k].inst]
             => left'[look[k].inst] = left[look[k].inst]
    BY <2>1, Ages
  <2> QED
    BY <2>1, <2>2, <2>3, HeldAges
<1>3. ASSUME NEW k \in Looks
      PROVE  Held(look'[k], acct'[look'[k].inst], quotaGen'[look'[k].inst], left'[look'[k].inst])
  BY <1>1, <1>2
<1> QED
  BY <1>3 DEF LookOK

LEMMA NobodyHolds ==
  ASSUME IInv, [Next]_vars, ~Crash, UNCHANGED look
  PROVE  LookOK'
<1>2. ASSUME NEW k \in Looks
      PROVE  Held(look[k], acct'[look[k].inst], quotaGen'[look[k].inst], left'[look[k].inst])
  <2>1. look[k] \in Looking /\ look[k].inst \in Instances
    BY DEF IInv, LookTypes, Looking
  <2>2. Held(look[k], acct[look[k].inst], quotaGen[look[k].inst], left[look[k].inst])
    BY DEF IInv, LookOK
  <2>3. /\ acct[look[k].inst] \in Nat /\ acct'[look[k].inst] \in Nat
        /\ acct[look[k].inst] <= acct'[look[k].inst]
        /\ quotaGen[look[k].inst] \in Nat /\ quotaGen'[look[k].inst] \in Nat
        /\ quotaGen[look[k].inst] <= quotaGen'[look[k].inst]
        /\ quotaGen'[look[k].inst] = quotaGen[look[k].inst]
             => left'[look[k].inst] = left[look[k].inst]
    BY <2>1, Ages
  <2> QED
    BY <2>1, <2>2, <2>3, HeldAges
<1> QED
  BY <1>2 DEF LookOK

\* A goroutine that begins or rests holds nothing that could be wrong.
LEMMA BeginsHeld ==
  ASSUME NEW c, NEW a, NEW g, NEW n, c.pc \in {"idle", "list", "refresh", "recheckModels"}
  PROVE  Held(c, a, g, n)
<1> QED
  BY DEF Held

\* Whatever a process says of i while it is the live one for it.
LEMMA LiveFair ==
  ASSUME IInv, NEW i \in Instances, Live(i)
  PROVE  Fair(actor.sess, i, left[i])
<1> QED
  BY DEF IInv, SinkOK, ActorOK, Proper, Fair, Live


LEMMA LookStep ==
  ASSUME IInv, [Next]_vars
  PROVE  LookOK'
<1>c. CASE Crash
  <2>1. ASSUME NEW k \in Looks PROVE look'[k].pc = "idle"
    BY <1>c, Blanks DEF Crash
  <2> QED
    BY <2>1, BeginsHeld DEF LookOK
<1>0. SUFFICES ASSUME ~Crash PROVE LookOK'
  BY <1>c
<1>1. ASSUME NEW l \in Looks, NEW i \in Looked, FlowSignIn(l, i) PROVE LookOK'
  <2>1. PICK c \in Looking : Holds(l, c) /\ c.pc = "forgetProbe" /\ c.inst = i /\ c.had = acct[i]
    BY <1>1, FlowSignInLook DEF Begins, Goes, IInv
  <2>2. acct'[i] = acct[i] + 1 /\ acct[i] \in Nat
    BY <1>1, AccountConstants DEF FlowSignIn, SignsIn, IInv, AcctTypes
  <2>3. Held(c, acct'[c.inst], quotaGen'[c.inst], left'[c.inst])
    BY <2>1, <2>2 DEF Held
  <2> QED
    BY <1>0, <2>1, <2>3, OneHolds
<1>2. ASSUME NEW l \in Looks, NEW i \in Looked, Ask(l, scene, i) PROVE LookOK'
  <2>1. PICK c \in Looking : /\ Holds(l, c) /\ c.inst = i
                             /\ c.pc \in {"list", "refresh", "probing"}
                             /\ c.pc = "probing" => c.had = probes[i].id
    BY <1>2, AskLook DEF Begins, Goes, IInv
  <2>2. acct'[i] = acct[i] /\ probes[i].id <= acct[i]
    BY <1>2 DEF Ask, IInv, LeftOK
  <2>3. Held(c, acct'[c.inst], quotaGen'[c.inst], left'[c.inst])
    BY <2>1, <2>2 DEF Held
  <2> QED
    BY <1>0, <2>1, <2>3, OneHolds
<1>3. ASSUME NEW l \in Looks, ForgetProbe(l) PROVE LookOK'
  <2>1. PICK c \in Looking : /\ Holds(l, c) /\ c.pc = "forgetModels" /\ c.inst = look[l].inst
                             /\ c.had = look[l].had
    BY <1>3, ForgetProbeLook DEF Begins, Goes, IInv
  <2>2. /\ Held(look[l], acct[look[l].inst], quotaGen[look[l].inst], left[look[l].inst])
        /\ look[l].pc = "forgetProbe" /\ acct' = acct
    BY <1>3 DEF IInv, LookOK, ForgetProbe
  <2>3. Held(c, acct'[c.inst], quotaGen'[c.inst], left'[c.inst])
    BY <2>1, <2>2 DEF Held, Looking, IInv, AcctTypes, QuotaTypes
  <2> QED
    BY <1>0, <2>1, <2>3, OneHolds
<1>4. ASSUME NEW l \in Looks, ProbeAnswers(l) PROVE LookOK'
  <2>1. PICK c \in Looking : /\ Holds(l, c) /\ c.pc = "noting" /\ c.inst = look[l].inst
                             /\ c.had = look[l].had /\ c.saw = acct[c.inst]
    BY <1>4, ProbeAnswersLook DEF Begins, Goes, IInv
  <2>2. /\ Held(look[l], acct[look[l].inst], quotaGen[look[l].inst], left[look[l].inst])
        /\ look[l].pc = "probing" /\ acct' = acct
    BY <1>4 DEF IInv, LookOK, ProbeAnswers
  <2>3. Held(c, acct'[c.inst], quotaGen'[c.inst], left'[c.inst])
    BY <2>1, <2>2 DEF Held, Looking, IInv, AcctTypes, QuotaTypes
  <2> QED
    BY <1>0, <2>1, <2>3, OneHolds
<1>5. ASSUME NEW l \in Looks, Note(l) PROVE LookOK'
  <2>1. CASE Goes(l, "forgetModels") /\ look[l].had # look[l].saw
    <3>1. PICK c \in Looking : /\ Holds(l, c) /\ c.pc = "forgetModels"
                               /\ c.inst = look[l].inst /\ c.had = look[l].had
      BY <2>1 DEF Goes
    <3>2. /\ Held(look[l], acct[look[l].inst], quotaGen[look[l].inst], left[look[l].inst])
          /\ look[l].pc = "noting" /\ acct' = acct /\ look[l] \in Looking
          /\ acct[look[l].inst] \in Nat
      BY <1>5 DEF Note, IInv, LookOK, LookTypes, AcctTypes, Looking
    <3>3. Held(c, acct'[c.inst], quotaGen'[c.inst], left'[c.inst])
      BY <2>1, <3>1, <3>2 DEF Held, Looking
    <3> QED
      BY <1>0, <3>1, <3>3, OneHolds
  <2>2. CASE Begins(l, look[l].inst, {"list", "refresh"})
    <3>1. PICK c \in Looking : Holds(l, c) /\ c.pc \in {"list", "refresh"}
      BY <2>2 DEF Begins
    <3> QED
      BY <1>0, <3>1, BeginsHeld, OneHolds
  <2> QED
    BY <1>5, <2>1, <2>2, NoteLook DEF IInv
<1>6. ASSUME NEW l \in Looks, ForgetModels(l) PROVE LookOK'
  <2>1. PICK c \in Looking : /\ Holds(l, c) /\ c.pc = "forgetQuota" /\ c.inst = look[l].inst
                             /\ c.had = look[l].had
    BY <1>6, ForgetModelsLook DEF Begins, Goes, IInv
  <2>2. /\ Held(look[l], acct[look[l].inst], quotaGen[look[l].inst], left[look[l].inst])
        /\ look[l].pc = "forgetModels" /\ acct' = acct
    BY <1>6 DEF IInv, LookOK, ForgetModels
  <2>3. Held(c, acct'[c.inst], quotaGen'[c.inst], left'[c.inst])
    BY <2>1, <2>2 DEF Held, Looking, IInv, AcctTypes, QuotaTypes
  <2> QED
    BY <1>0, <2>1, <2>3, OneHolds
<1>7. ASSUME NEW l \in Looks, ForgetQuota(l) PROVE LookOK'
  <2>1. PICK c \in Looking : Holds(l, c) /\ c.pc \in {"idle", "list", "refresh"}
    BY <1>7, ForgetQuotaLook, Blanks DEF Begins, IInv
  <2> QED
    BY <1>0, <2>1, BeginsHeld, OneHolds
<1>8. ASSUME NEW l \in Looks, ListModels(l) PROVE LookOK'
  BY <1>0, <1>8, RestingLook, Blanks, BeginsHeld, OneHolds
<1>9. ASSUME NEW l \in Looks, Recheck(l) PROVE LookOK'
  <2>1. PICK c \in Looking : Holds(l, c) /\ c.pc = "recheckModels"
    BY <1>9, RecheckLook DEF Goes, IInv
  <2> QED
    BY <1>0, <2>1, BeginsHeld, OneHolds
<1>10. ASSUME NEW l \in Looks, RecheckModels(l) PROVE LookOK'
  BY <1>0, <1>10, RestingLook, Blanks, BeginsHeld, OneHolds
<1>11. ASSUME NEW l \in Looks, Epoch(l) PROVE LookOK'
  <2>1. PICK c \in Looking : /\ Holds(l, c) /\ c.pc = "reading" /\ c.inst = look[l].inst
                             /\ c.had = look[l].had /\ c.gen = quotaGen[c.inst]
    BY <1>11, EpochLook DEF Begins, Goes, IInv
  <2>2. /\ Held(look[l], acct[look[l].inst], quotaGen[look[l].inst], left[look[l].inst])
        /\ acct' = acct /\ UNCHANGED quotaVars
    BY <1>11 DEF IInv, LookOK, Epoch
  <2>3. Held(c, acct'[c.inst], quotaGen'[c.inst], left'[c.inst])
    BY <2>1, <2>2 DEF Held, Looking, IInv, AcctTypes, QuotaTypes, quotaVars
  <2> QED
    BY <1>0, <2>1, <2>3, OneHolds
<1>12. ASSUME NEW l \in Looks, ReadQuota(l) PROVE LookOK'
  <2> DEFINE i == look[l].inst
             r == IF Live(i) THEN actor.sess
                  ELSE [inst |-> i, id |-> acct[i], early |-> FALSE]
  <2>1. PICK c \in Looking : /\ Holds(l, c) /\ c.pc = "storing" /\ c.inst = i
                             /\ c.gen = look[l].gen /\ c.snap = r
    BY <1>12, ReadQuotaLook DEF Goes, IInv
  <2>2. i \in Instances /\ left[i] < acct[i]
    BY DEF IInv, LookTypes, Looking, LeftOK
  <2>3. Fair(r, i, left[i])
    BY <2>2, LiveFair DEF Fair
  <2>4. /\ Held(look[l], acct[i], quotaGen[i], left[i]) /\ look[l].pc = "reading"
        /\ UNCHANGED <<acct, quotaGen, left>>
    BY <1>12 DEF ReadQuota, IInv, LookOK, quotaVars
  <2> HIDE DEF i, r
  <2>5. Held(c, acct'[c.inst], quotaGen'[c.inst], left'[c.inst])
    BY <2>1, <2>3, <2>4 DEF Held
  <2> QED
    BY <1>0, <2>1, <2>5, OneHolds
<1>13. ASSUME NEW l \in Looks, ReadFails(l) PROVE LookOK'
  BY <1>0, <1>13, RestingLook, Blanks, BeginsHeld, OneHolds
<1>14. ASSUME NEW l \in Looks, StoreQuota(l) PROVE LookOK'
  BY <1>0, <1>14, RestingLook, Blanks, BeginsHeld, OneHolds
<1>15. CASE UNCHANGED look
  BY <1>0, <1>15, NobodyHolds
<1> QED
  BY <1>0, <1>1, <1>2, <1>3, <1>4, <1>5, <1>6, <1>7, <1>8, <1>9, <1>10, <1>11, <1>12, <1>13,
    <1>14, <1>15
  DEF Next, CacheStep, ThreadStep, vars, cacheVars, quotaVars, threadVars, boundVars,
    LoginCommand, TerminalSignIn, ExpireProbe, ListingAnswers, ExpireModels, Push,
    Adopt, StartProcess, Turn, ProcessExits, BeginSwitch, Timeout,
    SwitchRefused, MoveConversation, SetProviderInstance, RowFails, Rebind

-----------------------------------------------------------------------------
(* The thread, its process and its sink.                                    *)

\* A switch's step leaves the others where they are.
LEMMA SwitchOne ==
  ASSUME ThreadTypes, NEW s \in Switches, NEW c, SwitchTo(s, c)
  PROVE  sw'[s] = c /\ \A r \in Switches : r # s => sw'[r] = sw[r]
<1> QED
  BY DEF ThreadTypes, SwitchTo

\* No conversation is on the move when the actor's loop takes a command.
LEMMA ServingStill ==
  ASSUME Serving
  PROVE  actor.up /\ \A s \in Switches : sw[s].pc # "moved"
<1> QED
  BY DEF Serving, Moving

LEMMA ActorStep ==
  ASSUME IInv, [Next]_vars
  PROVE  ActorOK'
<1>1. CASE Adopt
  BY <1>1, AdoptedBlank DEF Adopt, IInv, ActorOK, ThreadTypes, Proper
<1>2. CASE StartProcess
  <2>1. \A s \in Switches : sw[s].pc # "moved"
    BY <1>2, ServingStill DEF StartProcess
  <2>2. /\ actor' = [actor EXCEPT !.sess = [inst |-> actor.inst, id |-> acct[actor.inst],
                                            early |-> Unbound]]
        /\ actor.up /\ UNCHANGED <<row, sw>>
    BY <1>2, ServingStill DEF StartProcess
  <2>3. actor'.up /\ actor'.inst = actor.inst /\ actor'.sess.early = Unbound
    BY <2>2 DEF IInv, ThreadTypes, Acting
  <2>4. ASSUME NEW s \in Switches, sw[s].pc = "binding" PROVE Unbound
    BY <2>4 DEF Unbound
  <2> QED
    BY <2>1, <2>2, <2>3, <2>4 DEF IInv, ActorOK, Proper
<1>3. CASE Turn
  BY <1>3 DEF Turn, IInv, ActorOK, ThreadTypes, Acting, Proper
<1>4. CASE ProcessExits
  <2>1. actor'.up = FALSE /\ actor'.sess = NoReading
        /\ \A s \in Switches : sw'[s].pc = "idle"
    BY <1>4, Blanks DEF ProcessExits
  <2> QED
    BY <2>1 DEF ActorOK
<1>5. CASE Crash
  <2>1. actor'.up = FALSE /\ actor'.sess = NoReading
        /\ \A s \in Switches : sw'[s].pc = "idle"
    BY <1>5, Blanks DEF Crash
  <2> QED
    BY <2>1 DEF ActorOK
<1>6. ASSUME NEW s \in Switches, NEW to \in Instances, BeginSwitch(s, to) PROVE ActorOK'
  <2>1. actor' = actor \/ (~actor.up /\ actor' = Adopted(row))
    BY <1>6 DEF BeginSwitch
  <2>2. row' = row /\ row \in Instances
    BY <1>6 DEF BeginSwitch, IInv, ThreadTypes
  <2>3. sw'[s].pc = "queued" /\ \A r \in Switches : r # s => sw'[r] = sw[r]
    BY <1>6 DEF BeginSwitch, IInv, ThreadTypes
  <2>4. CASE actor' = actor
    BY <2>2, <2>3, <2>4 DEF IInv, ActorOK, Proper
  <2>5. CASE ~actor.up /\ actor' = Adopted(row)
    BY <2>2, <2>3, <2>5, AdoptedBlank DEF IInv, ActorOK, Proper
  <2> QED
    BY <2>1, <2>4, <2>5
<1>7. ASSUME NEW s \in Switches, Timeout(s) PROVE ActorOK'
  <2>1. sw'[s].pc = sw[s].pc /\ \A r \in Switches : r # s => sw'[r] = sw[r]
    BY <1>7 DEF Timeout, IInv, ThreadTypes, Switching
  <2>2. UNCHANGED <<actor, row>>
    BY <1>7 DEF Timeout
  <2> QED
    BY <2>1, <2>2 DEF IInv, ActorOK, Proper
<1>8. ASSUME NEW s \in Switches, SwitchRefused(s) PROVE ActorOK'
  <2>1. sw'[s].pc = "idle" /\ \A r \in Switches : r # s => sw'[r] = sw[r]
    BY <1>8, SwitchSteps, SwitchOne, Blanks DEF IInv
  <2>2. UNCHANGED <<actor, row>>
    BY <1>8 DEF SwitchRefused
  <2> QED
    BY <2>1, <2>2 DEF IInv, ActorOK, Proper
<1>9. ASSUME NEW s \in Switches, MoveConversation(s) PROVE ActorOK'
  <2>2. /\ actor'.up = actor.up /\ actor'.inst = actor.inst /\ actor'.sess = NoReading
        /\ row' = row
    BY <1>9 DEF MoveConversation, IInv, ThreadTypes, Acting
  <2>3. actor.up
    BY <1>9, ServingStill DEF MoveConversation, Serve
  <2> QED
    BY <2>2, <2>3 DEF IInv, ActorOK, Proper
<1>10. ASSUME NEW s \in Switches, SetProviderInstance(s) PROVE ActorOK'
  <2>2. /\ actor'.up = actor.up /\ actor'.inst = row' /\ actor'.sess = actor.sess
    BY <1>10 DEF SetProviderInstance, IInv, ThreadTypes, Acting
  <2>3. actor.up /\ actor.sess = NoReading
    BY <1>10 DEF SetProviderInstance, IInv, ActorOK
  <2> QED
    BY <2>2, <2>3 DEF ActorOK, Proper
<1>11. ASSUME NEW s \in Switches, RowFails(s) PROVE ActorOK'
  <2>1. sw'[s].pc = "idle" /\ \A r \in Switches : r # s => sw'[r] = sw[r]
    BY <1>11, SwitchSteps, SwitchOne, Blanks DEF IInv
  <2>2. UNCHANGED <<actor, row>>
    BY <1>11 DEF RowFails
  <2> QED
    BY <2>1, <2>2 DEF IInv, ActorOK, Proper
<1>12. ASSUME NEW s \in Switches, Rebind(s) PROVE ActorOK'
  <2>1. sw'[s].pc = "idle" /\ \A r \in Switches : r # s => sw'[r] = sw[r]
    BY <1>12, SwitchSteps, SwitchOne, Blanks DEF IInv
  <2>2. /\ actor'.up = actor.up /\ actor'.inst = actor.inst /\ actor'.sess = actor.sess
        /\ row' = row
    BY <1>12 DEF Rebind, IInv, ThreadTypes, Acting
  <2> QED
    BY <2>1, <2>2 DEF IInv, ActorOK, Proper
<1>13. CASE UNCHANGED <<row, actor, sw>>
  BY <1>13
  DEF IInv, ActorOK, Proper
<1> QED
  BY <1>1, <1>2, <1>3, <1>4, <1>5, <1>6, <1>7, <1>8, <1>9, <1>10, <1>11, <1>12, <1>13
  DEF Next, CacheStep, ThreadStep, vars, cacheVars, quotaVars, threadVars, boundVars,
    LoginCommand, TerminalSignIn, ExpireProbe, ListingAnswers, ExpireModels,
    FlowSignIn, Ask, ForgetProbe, ProbeAnswers, Note, ForgetModels, ForgetQuota,
    ListModels, Recheck, RecheckModels, Epoch, ReadQuota, ReadFails, StoreQuota, Push

LEMMA SinkStep ==
  ASSUME IInv, [Next]_vars
  PROVE  SinkOK'
<1>1. ASSUME NEW l \in Looks, ForgetQuota(l) PROVE SinkOK'
  <2> DEFINE i == look[l].inst
  <2>1. i \in Instances /\ actor' = actor /\ actor.bind.inst \in Instances
    BY <1>1 DEF ForgetQuota, threadVars, IInv, LookTypes, Looking, ThreadTypes, Acting
  <2>2. quotaGen'[i] = quotaGen[i] + 1
        /\ \A j \in Instances : j # i => quotaGen'[j] = quotaGen[j] /\ left'[j] = left[j]
    BY <1>1, <2>1 DEF ForgetQuota, IInv, QuotaTypes
  <2>3. quotaGen[i] \in Nat /\ actor.bind.gen \in Nat
    BY <2>1 DEF IInv, QuotaTypes, ThreadTypes, Acting
  <2> HIDE DEF i
  <2>4. CASE actor.bind.inst = i
    BY <2>1, <2>2, <2>3, <2>4 DEF IInv, SinkOK, Proper
  <2>5. CASE actor.bind.inst # i
    BY <2>1, <2>2, <2>5 DEF IInv, SinkOK, Proper
  <2> QED
    BY <2>4, <2>5
<1>2. CASE Adopt
  <2>1. actor' = Adopted(row) /\ row \in Instances /\ UNCHANGED quotaGen
    BY <1>2 DEF Adopt, quotaVars, IInv, ThreadTypes
  <2>2. /\ actor'.bind.inst = row /\ actor'.bind.gen = quotaGen[row]
        /\ actor'.sess = NoReading /\ quotaGen[row] \in Nat
    <3>1. QuotaTypes /\ quotaGen[row] \in Nat
      BY <2>1 DEF IInv, QuotaTypes
    <3>2. actor'.bind = [inst |-> row, gen |-> quotaGen[row]] /\ actor'.sess = NoReading
      BY <2>1, <3>1, AdoptedBlank
    <3> QED
      BY <3>1, <3>2
  <2> QED
    BY <2>1, <2>2 DEF SinkOK, Proper
<1>3. CASE StartProcess
  <2> DEFINE r == [inst |-> actor.inst, id |-> acct[actor.inst], early |-> Unbound]
  <2>1. actor'.bind = actor.bind /\ actor'.inst = actor.inst /\ actor'.sess = r
        /\ UNCHANGED <<quotaGen, left>>
    BY <1>3 DEF StartProcess, quotaVars, IInv, ThreadTypes, Acting
  <2>2. actor.inst \in Instances /\ acct[actor.inst] > left[actor.inst]
    <3>1. actor.inst \in Instances
      BY DEF IInv, ThreadTypes, Acting
    <3>2. acct[actor.inst] \in Nat /\ left[actor.inst] \in Nat
      BY <3>1 DEF IInv, AcctTypes, QuotaTypes
    <3> QED
      BY <3>1, <3>2 DEF IInv, LeftOK
  <2>3. CASE Unbound
    BY <2>1, <2>3 DEF IInv, SinkOK, Proper
  <2>4. CASE ~Unbound
    BY <2>1, <2>2, <2>4 DEF IInv, SinkOK, Proper, Unbound
  <2> QED
    BY <2>3, <2>4
<1>4. CASE Turn
  <2>1. actor'.bind = actor.bind /\ actor'.inst = actor.inst /\ actor'.sess = actor.sess
        /\ UNCHANGED <<quotaGen, left>>
    BY <1>4 DEF Turn, quotaVars, IInv, ThreadTypes, Acting
  <2> QED
    BY <2>1 DEF IInv, SinkOK, Proper
<1>5. CASE ProcessExits
  <2>1. actor' = Gone /\ UNCHANGED quotaGen
    BY <1>5 DEF ProcessExits, quotaVars
  <2>2. 0 <= quotaGen[Gone.bind.inst]
    BY Blanks DEF IInv, QuotaTypes
  <2> QED
    BY <2>1, <2>2, Blanks DEF SinkOK, Proper
<1>6. CASE Crash
  <2>1. actor' = Gone /\ quotaGen'[Gone.bind.inst] = 0
    BY <1>6, Blanks DEF Crash
  <2> QED
    BY <2>1, Blanks DEF SinkOK, Proper
<1>7. ASSUME NEW s \in Switches, NEW to \in Instances, BeginSwitch(s, to) PROVE SinkOK'
  <2>1. actor' = actor \/ actor' = Adopted(row)
    BY <1>7 DEF BeginSwitch
  <2>2. row \in Instances /\ UNCHANGED <<quotaGen, left>>
    BY <1>7 DEF BeginSwitch, quotaVars, IInv, ThreadTypes
  <2>3. CASE actor' = actor
    BY <2>2, <2>3 DEF IInv, SinkOK, Proper
  <2>4. CASE actor' = Adopted(row)
    <3>1. /\ actor'.bind.inst = row /\ actor'.bind.gen = quotaGen[row]
          /\ actor'.sess = NoReading /\ quotaGen[row] \in Nat
      <4>1. QuotaTypes /\ quotaGen[row] \in Nat
        BY <2>2 DEF IInv, QuotaTypes
      <4>2. actor'.bind = [inst |-> row, gen |-> quotaGen[row]] /\ actor'.sess = NoReading
        BY <2>2, <2>4, <4>1, AdoptedBlank
      <4> QED
        BY <4>1, <4>2
    <3> QED
      BY <2>2, <3>1 DEF SinkOK, Proper
  <2> QED
    BY <2>1, <2>3, <2>4
<1>8. ASSUME NEW s \in Switches, MoveConversation(s) PROVE SinkOK'
  <2>1. actor'.bind = actor.bind /\ actor'.sess = NoReading /\ UNCHANGED quotaGen
    BY <1>8 DEF MoveConversation, quotaVars, IInv, ThreadTypes, Acting
  <2> QED
    BY <2>1 DEF IInv, SinkOK, Proper
<1>9. ASSUME NEW s \in Switches, SetProviderInstance(s) PROVE SinkOK'
  <2>1. actor'.bind = actor.bind /\ actor'.sess = actor.sess /\ UNCHANGED quotaGen
    BY <1>9 DEF SetProviderInstance, quotaVars, IInv, ThreadTypes, Acting
  <2>2. actor.sess = NoReading
    BY <1>9 DEF SetProviderInstance, IInv, ActorOK
  <2> QED
    BY <2>1, <2>2 DEF IInv, SinkOK, Proper
<1>10. ASSUME NEW s \in Switches, Rebind(s) PROVE SinkOK'
  <2>1. /\ actor'.bind = [inst |-> row, gen |-> quotaGen[row]] /\ actor'.sess = actor.sess
        /\ UNCHANGED quotaGen
    BY <1>10 DEF Rebind, quotaVars, IInv, ThreadTypes, Acting
  <2>2. Proper(actor.sess)
    BY <1>10 DEF Rebind, IInv, ActorOK
  <2>3. quotaGen[row] \in Nat
    BY DEF IInv, ThreadTypes, QuotaTypes
  <2> QED
    BY <2>1, <2>2, <2>3 DEF SinkOK, Proper
<1>11. CASE UNCHANGED <<actor, quotaGen, left>>
  BY <1>11
  DEF IInv, SinkOK, Proper
<1> QED
  BY <1>1, <1>2, <1>3, <1>4, <1>5, <1>6, <1>7, <1>8, <1>9, <1>10, <1>11
  DEF Next, CacheStep, ThreadStep, vars, cacheVars, quotaVars, threadVars, boundVars,
    LoginCommand, TerminalSignIn, ExpireProbe, ListingAnswers, ExpireModels,
    FlowSignIn, Ask, ForgetProbe, ProbeAnswers, Note, ForgetModels, ListModels,
    Recheck, RecheckModels, Epoch, ReadQuota, ReadFails, StoreQuota, Push, Timeout,
    SwitchRefused, RowFails

-----------------------------------------------------------------------------
(* What is cached.                                                          *)

LEMMA QuotaStep ==
  ASSUME IInv, [Next]_vars
  PROVE  NeverTheAccountLeft'
<1>1. ASSUME NEW l \in Looks, ForgetQuota(l) PROVE NeverTheAccountLeft'
  <2>1. /\ quotas' = [quotas EXCEPT ![look[l].inst] = NoReading]
        /\ \A j \in Instances : j # look[l].inst => left'[j] = left[j]
    BY <1>1 DEF ForgetQuota, IInv, QuotaTypes
  <2> QED
    BY <2>1 DEF IInv, CachesForget, NeverTheAccountLeft, QuotaTypes
<1>2. CASE Push
  <2> DEFINE i == actor.bind.inst
  <2>1. PICK r \in {actor.sess, NoReading} : quotas' = [quotas EXCEPT ![i] = r]
    BY <1>2 DEF Push
  <2>2. left' = left /\ actor.bind.gen = quotaGen[i]
    BY <1>2 DEF Push, Bound
  <2>3. Fair(r, i, left[i])
    BY <2>1, <2>2 DEF IInv, SinkOK, Proper, Fair
  <2> HIDE DEF i
  <2> QED
    BY <2>1, <2>2, <2>3 DEF IInv, CachesForget, NeverTheAccountLeft, QuotaTypes, Fair
<1>3. ASSUME NEW l \in Looks, StoreQuota(l) PROVE NeverTheAccountLeft'
  <2> DEFINE i == look[l].inst
  <2>1. quotas' = quotas \/ (look[l].gen = quotaGen[i]
                             /\ quotas' = [quotas EXCEPT ![i] = look[l].snap])
    BY <1>3 DEF StoreQuota, Bound
  <2>2. left' = left /\ look[l].pc = "storing"
    BY <1>3 DEF StoreQuota
  <2>3. look[l].gen = quotaGen[i] => Fair(look[l].snap, i, left[i])
    BY <2>2 DEF IInv, LookOK, Held
  <2> HIDE DEF i
  <2> QED
    BY <2>1, <2>2, <2>3 DEF IInv, CachesForget, NeverTheAccountLeft, QuotaTypes, Fair
<1>4. CASE Crash
  BY <1>4 DEF Crash, NeverTheAccountLeft
<1>5. CASE UNCHANGED <<quotas, left>>
  BY <1>5
  DEF IInv, CachesForget, NeverTheAccountLeft
<1> QED
  BY <1>1, <1>2, <1>3, <1>4, <1>5
  DEF Next, CacheStep, ThreadStep, vars, cacheVars, quotaVars, threadVars, boundVars,
    LoginCommand, TerminalSignIn, ExpireProbe, ListingAnswers, ExpireModels,
    FlowSignIn, Ask, ForgetProbe, ProbeAnswers, Note, ForgetModels, ListModels,
    Recheck, RecheckModels, Epoch, ReadQuota, ReadFails, Adopt, StartProcess, Turn,
    ProcessExits, BeginSwitch, Timeout, SwitchRefused, MoveConversation,
    SetProviderInstance, RowFails, Rebind

\* A new generation overtakes every listing.
LEMMA NewGeneration ==
  ASSUME IInv, modelGen' = modelGen + 1, listing' = listing
  PROVE  ListOK'
<1>1. modelGen \in Nat /\ \A i \in Looked : listing[i].gen \in Nat
  BY DEF IInv, ListTypes, Listing
<1> QED
  BY <1>1 DEF IInv, ListOK

LEMMA ListStep ==
  ASSUME IInv, [Next]_vars
  PROVE  ListOK' /\ ListingIsCurrent'
<1>1. ASSUME NEW l \in Looks, ForgetModels(l) PROVE ListOK' /\ ListingIsCurrent'
  <2>1. /\ models' = [models EXCEPT ![look[l].inst] = NoModels] /\ modelGen' = modelGen + 1
        /\ listing' = listing
        /\ \A j \in Looked : j # look[l].inst => dropped'[j] = dropped[j]
    BY <1>1 DEF ForgetModels, IInv, ListTypes
  <2> QED
    BY <2>1, NewGeneration, Blanks DEF IInv, CachesForget, ListingIsCurrent, ListTypes
<1>2. ASSUME NEW l \in Looks, ListModels(l) PROVE ListOK' /\ ListingIsCurrent'
  <2> DEFINE i == look[l].inst
             c == [gen |-> modelGen, asked |-> dropped[i], on |-> TRUE]
  <2>1. listing' = listing \/ listing' = [listing EXCEPT ![i] = c]
    BY <1>2 DEF ListModels, Asking
  <2>2. UNCHANGED <<models, modelGen, dropped>> /\ modelGen \in Nat
    BY <1>2 DEF ListModels, IInv, ListTypes
  <2> QED
    BY <2>1, <2>2 DEF IInv, ListOK, CachesForget, ListingIsCurrent, ListTypes
<1>3. ASSUME NEW i \in Looked, ListingAnswers(i) PROVE ListOK' /\ ListingIsCurrent'
  <2>0. UNCHANGED <<modelGen, dropped>> /\ modelGen \in Nat /\ listing[i].on
    BY <1>3 DEF ListingAnswers, IInv, ListTypes
  <2>1. CASE Overtaken(i)
    <3> DEFINE c == [gen |-> modelGen, asked |-> dropped[i], on |-> TRUE]
    <3>1. listing' = [listing EXCEPT ![i] = c] /\ models' = models
      BY <1>3, <2>1 DEF ListingAnswers, Again, Asking
    <3> QED
      BY <2>0, <3>1 DEF IInv, ListOK, CachesForget, ListingIsCurrent, ListTypes
  <2>2. CASE ~Overtaken(i)
    <3>1. listing[i].asked = dropped[i]
      BY <2>0, <2>2 DEF Overtaken, IInv, ListOK
    <3>2. listing' = [listing EXCEPT ![i] = NoListing]
      BY <1>3, <2>2 DEF ListingAnswers
    <3>3. PICK ok \in BOOLEAN :
            models' = [models EXCEPT ![i] =
                 [asked |-> listing[i].asked, fresh |-> TRUE,
                  list  |-> IF ok THEN {listing[i].asked} ELSE models[i].list]]
      BY <1>3, <2>2 DEF ListingAnswers
    <3>4. models'[i].list \subseteq {dropped[i]}
          /\ \A j \in Looked : j # i => models'[j] = models[j]
      BY <3>1, <3>3 DEF IInv, ListTypes, CachesForget, ListingIsCurrent
    <3> QED
      BY <2>0, <3>2, <3>4, Blanks DEF IInv, ListOK, CachesForget, ListingIsCurrent, ListTypes
  <2> QED
    BY <2>1, <2>2
<1>4. ASSUME NEW i \in Looked, ExpireModels(i) PROVE ListOK' /\ ListingIsCurrent'
  <2>1. /\ \A j \in Looked : models'[j].list = models[j].list
        /\ UNCHANGED <<listing, modelGen, dropped>>
    BY <1>4 DEF ExpireModels, IInv, ListTypes, Models
  <2> QED
    BY <2>1 DEF IInv, ListOK, CachesForget, ListingIsCurrent
<1>5. ASSUME NEW l \in Looks, RecheckModels(l) PROVE ListOK' /\ ListingIsCurrent'
  <2>1. /\ modelGen' = modelGen + 1 /\ listing' = listing
        /\ \A j \in Looked : models'[j].list = {}
    BY <1>5, Blanks DEF RecheckModels
  <2> QED
    BY <2>1, NewGeneration DEF ListingIsCurrent
<1>6. CASE Crash
  BY <1>6, Blanks DEF Crash, ListOK, ListingIsCurrent
<1>7. CASE UNCHANGED <<models, listing, modelGen, dropped>>
  BY <1>7
  DEF IInv, ListOK, CachesForget, ListingIsCurrent
<1> QED
  BY <1>1, <1>2, <1>3, <1>4, <1>5, <1>6, <1>7
  DEF Next, CacheStep, ThreadStep, vars, cacheVars, quotaVars, threadVars, boundVars,
    LoginCommand, TerminalSignIn, ExpireProbe, FlowSignIn, Ask, ForgetProbe,
    ProbeAnswers, Note, ForgetQuota, Recheck, Epoch, ReadQuota, ReadFails, StoreQuota,
    Push, Adopt, StartProcess, Turn, ProcessExits, BeginSwitch, Timeout,
    SwitchRefused, MoveConversation, SetProviderInstance, RowFails, Rebind

-----------------------------------------------------------------------------
(* The two theorems: types and caches, for any faults.                      *)

LEMMA InitOK == Init => IInv
<1> SUFFICES ASSUME Init PROVE IInv
  OBVIOUS
<1>1. AcctTypes /\ LeftOK
  BY AccountConstants DEF Init, AcctTypes, LeftOK, NoProbe
<1>2. LookTypes /\ LookOK
  BY Blanks DEF Init, LookTypes, LookOK, Held
<1>3. ListTypes /\ ListOK /\ ListingIsCurrent
  BY Blanks DEF Init, ListTypes, ListOK, ListingIsCurrent
<1>4. QuotaTypes /\ NeverTheAccountLeft
  BY Blanks DEF Init, QuotaTypes, NeverTheAccountLeft
<1>5. ThreadTypes
  BY Blanks, AccountConstants, EmptySeq DEF Init, ThreadTypes
<1>6. SinkOK /\ ActorOK
  <2>1. actor = Gone /\ quotaGen[Gone.bind.inst] = 0 /\ \A s \in Switches : sw[s].pc = "idle"
    BY Blanks DEF Init
  <2> QED
    BY <2>1, Blanks DEF SinkOK, ActorOK, Proper
<1> QED
  BY <1>1, <1>2, <1>3, <1>4, <1>5, <1>6 DEF IInv, CachesForget

LEMMA StepOK == IInv /\ [Next]_vars => IInv'
<1> SUFFICES ASSUME IInv, [Next]_vars PROVE IInv'
  OBVIOUS
<1>1. AcctTypes' /\ LookTypes' /\ ListTypes' /\ QuotaTypes' /\ ThreadTypes'
  BY AcctTypesStep, LookTypesStep, ListTypesStep, QuotaTypesStep, ThreadTypesStep
<1>2. LeftOK' /\ LookOK' /\ SinkOK' /\ ActorOK'
  BY LeftStep, LookStep, SinkStep, ActorStep
<1>3. ListOK' /\ ListingIsCurrent' /\ NeverTheAccountLeft'
  BY ListStep, QuotaStep
<1> QED
  BY <1>1, <1>2, <1>3 DEF IInv, CachesForget

LEMMA Invariant == Spec => []IInv
  BY InitOK, StepOK, PTL DEF Spec

\* The types of what accounts, caches, goroutines and switches hold.
THEOREM TypeCorrect ==
  Spec => [](AcctTypes /\ LookTypes /\ ListTypes /\ QuotaTypes /\ ThreadTypes)
<1>1. IInv => AcctTypes /\ LookTypes /\ ListTypes /\ QuotaTypes /\ ThreadTypes
  BY DEF IInv
<1> QED
  BY <1>1, Invariant, PTL

\* No push of an old process, no refresh and no listing that was on its way brings back
\* what forgetQuota, forgetModels or a recheck dropped, however many goroutines list,
\* refresh, recheck and sign in at once and whatever goes wrong with a switch.
THEOREM DroppedStaysDropped == Spec => []CachesForget
<1>1. IInv => CachesForget
  BY DEF IInv
<1> QED
  BY <1>1, Invariant, PTL

-----------------------------------------------------------------------------
(* Without a fault: one switch at a time, and the conversation.             *)

\* What SwitchAccount begins when switchMu is free and no earlier caller gave up.
LEMMA BeginsAlone ==
  ASSUME Faults = {}, NEW s \in Switches, NEW to \in Instances, BeginSwitch(s, to), MoveInv
  PROVE  (\A r \in Switches : sw[r].pc = "idle") /\ inbox = <<>> /\ conv = row
<1>1. \A r \in Switches : sw[r].pc = "idle"
  BY DEF BeginSwitch, MayBegin, Abandoned
<1> QED
  BY <1>1 DEF MoveInv, InboxOK, ConversationFollowsThread, Moving

LEMMA MoveStep ==
  ASSUME Faults = {}, MoveInv, [Next]_vars
  PROVE  OneSwitch' /\ InboxOK' /\ WhereOK' /\ ConversationFollowsThread'
<1> DEFINE Goal == OneSwitch /\ InboxOK /\ WhereOK /\ ConversationFollowsThread
<1>0. IInv /\ ThreadTypes /\ Goal
  BY DEF MoveInv, IInv
<1>1. CASE UNCHANGED <<row, conv, inbox, sw>>
  BY <1>0, <1>1 DEF OneSwitch, InboxOK, WhereOK, ConversationFollowsThread, Moving
<1>2. CASE ProcessExits \/ Crash
  <2>1. /\ \A s \in Switches : sw'[s].pc = "idle"
        /\ inbox' = <<>> /\ row' = row /\ conv' = conv
    BY <1>2, Blanks DEF ProcessExits, Crash
  <2>2. ~Moving
    BY <1>0, <1>2 DEF ProcessExits, Crash, Serving
  <2> QED
    BY <1>0, <2>1, <2>2 DEF OneSwitch, InboxOK, WhereOK, ConversationFollowsThread, Moving
<1>3. ASSUME NEW s \in Switches, NEW to \in Instances, BeginSwitch(s, to) PROVE Goal'
  <2>1. (\A r \in Switches : sw[r].pc = "idle") /\ inbox = <<>> /\ conv = row
    BY <1>3, BeginsAlone
  <2>2. /\ inbox' = Append(inbox, s) /\ row' = row /\ conv' = conv
        /\ sw' = [sw EXCEPT ![s] = [pc |-> "queued", from |-> row, to |-> to, waits |-> TRUE]]
    BY <1>3 DEF BeginSwitch
  <2>3. /\ sw'[s].pc = "queued" /\ sw'[s].from = row
        /\ \A r \in Switches : r # s => sw'[r].pc = "idle"
    BY <1>0, <2>1, <2>2 DEF ThreadTypes
  <2>4. inbox' = <<s>>
    BY <2>1, <2>2 DEF Append
  <2> QED
    BY <2>1, <2>2, <2>3, <2>4
    DEF OneSwitch, InboxOK, WhereOK, ConversationFollowsThread, Moving
<1>4. ASSUME NEW s \in Switches, Timeout(s) PROVE Goal'
  <2>1. /\ sw'[s].pc = sw[s].pc /\ sw'[s].from = sw[s].from /\ sw'[s].to = sw[s].to
        /\ \A r \in Switches : r # s => sw'[r] = sw[r]
        /\ UNCHANGED <<row, conv, inbox>>
    BY <1>0, <1>4 DEF Timeout, ThreadTypes, Switching
  <2>2. \A r \in Switches : /\ sw'[r].pc = sw[r].pc /\ sw'[r].from = sw[r].from
                            /\ sw'[r].to = sw[r].to
    BY <2>1
  <2> QED
    BY <1>0, <2>1, <2>2 DEF OneSwitch, InboxOK, WhereOK, ConversationFollowsThread, Moving
<1>5. ASSUME NEW s \in Switches, SwitchTo(s, Settled), sw[s].pc # "idle"
      PROVE  \A r \in Switches : sw'[r].pc = "idle"
  BY <1>0, <1>5, SwitchOne, Blanks DEF OneSwitch
<1>6. ASSUME NEW s \in Switches, Serve(s)
      PROVE  /\ inbox' = <<>> /\ sw[s].pc = "queued" /\ ~Moving
             /\ conv = row /\ sw[s].from = row
  <2>1. PICK r \in Switches : inbox = <<r>> /\ sw[r].pc = "queued"
    BY <1>0, <1>6 DEF Serve, InboxOK
  <2>2. Head(<<r>>) = r /\ Tail(<<r>>) = <<>>
    OBVIOUS
  <2>3. s = r /\ inbox' = <<>> /\ ~Moving
    BY <1>6, <2>1, <2>2 DEF Serve, Serving
  <2> QED
    BY <1>0, <2>1, <2>3 DEF WhereOK, ConversationFollowsThread
<1>7. ASSUME NEW s \in Switches, SwitchRefused(s) PROVE Goal'
  <2>1. /\ inbox' = <<>> /\ sw[s].pc = "queued" /\ conv = row
        /\ UNCHANGED <<row, conv>> /\ SwitchTo(s, Settled)
    BY <1>0, <1>6, <1>7, SwitchSteps DEF SwitchRefused
  <2> QED
    BY <1>5, <2>1 DEF OneSwitch, InboxOK, WhereOK, ConversationFollowsThread
<1>8. ASSUME NEW s \in Switches, MoveConversation(s) PROVE Goal'
  <2>1. /\ inbox' = <<>> /\ sw[s].pc = "queued" /\ conv = row /\ sw[s].from = row
        /\ row' = row
    BY <1>6, <1>8 DEF MoveConversation
  <2>2. CASE conv' = conv /\ sw' = [sw EXCEPT ![s] = Settled]
    <3>1. SwitchTo(s, Settled)
      BY <2>2, Blanks DEF SwitchTo
    <3> QED
      BY <1>5, <2>1, <2>2, <3>1 DEF OneSwitch, InboxOK, WhereOK, ConversationFollowsThread
  <2>3. CASE conv' = Moved(sw[s].from, sw[s].to) /\ sw' = [sw EXCEPT ![s].pc = "moved"]
    <3>1. /\ sw'[s].pc = "moved" /\ sw'[s].from = sw[s].from /\ sw'[s].to = sw[s].to
          /\ \A r \in Switches : r # s => sw'[r] = sw[r]
      BY <1>0, <2>3 DEF ThreadTypes, Switching
    <3>2. conv' = sw[s].to
      BY <2>1, <2>3 DEF Moved
    <3>3. \A r \in Switches : r # s => sw'[r].pc = "idle"
      BY <1>0, <2>1, <3>1 DEF OneSwitch
    <3> QED
      BY <2>1, <3>1, <3>2, <3>3
      DEF OneSwitch, InboxOK, WhereOK, ConversationFollowsThread, Moving
  <2> QED
    BY <1>8, <2>2, <2>3 DEF MoveConversation
<1>9. ASSUME NEW s \in Switches, SetProviderInstance(s) PROVE Goal'
  <2>1. /\ sw[s].pc = "moved" /\ row' = sw[s].to /\ UNCHANGED <<conv, inbox>>
        /\ conv = sw[s].to
    BY <1>0, <1>9 DEF SetProviderInstance, WhereOK
  <2>2. inbox = <<>>
    BY <1>0, <2>1 DEF InboxOK, OneSwitch
  <2>3. sw'[s].pc \in {"idle", "binding"} /\ \A r \in Switches : r # s => sw'[r].pc = "idle"
    <3>1. \A r \in Switches : r # s => sw[r].pc = "idle"
      BY <1>0, <2>1 DEF OneSwitch
    <3>2. CASE SwitchTo(s, Settled)
      BY <1>0, <3>1, <3>2, SwitchOne, Blanks
    <3>3. CASE SwitchTo(s, [sw[s] EXCEPT !.pc = "binding"])
      BY <1>0, <3>1, <3>3, SwitchOne DEF ThreadTypes, Switching
    <3> QED
      BY <1>0, <1>9, <3>2, <3>3, SwitchSteps
  <2> QED
    BY <2>1, <2>2, <2>3 DEF OneSwitch, InboxOK, WhereOK, ConversationFollowsThread
<1>10. ASSUME NEW s \in Switches, RowFails(s) PROVE Goal'
  <2>1. /\ sw[s].pc = "moved" /\ UNCHANGED <<row, inbox>> /\ conv' = Back(sw[s].from, sw[s].to)
        /\ conv = sw[s].to /\ sw[s].from = row
    BY <1>0, <1>10 DEF RowFails, WhereOK
  <2>2. conv' = row /\ SwitchTo(s, Settled)
    BY <1>0, <1>10, <2>1, SwitchSteps DEF Back
  <2>3. inbox = <<>>
    BY <1>0, <2>1 DEF InboxOK, OneSwitch
  <2> QED
    BY <1>5, <2>1, <2>2, <2>3 DEF OneSwitch, InboxOK, WhereOK, ConversationFollowsThread
<1>11. ASSUME NEW s \in Switches, Rebind(s) PROVE Goal'
  <2>1. /\ sw[s].pc = "binding" /\ UNCHANGED <<row, conv, inbox>> /\ SwitchTo(s, Settled)
    BY <1>0, <1>11, SwitchSteps DEF Rebind
  <2>2. inbox = <<>> /\ ~Moving
    BY <1>0, <2>1 DEF InboxOK, OneSwitch, Moving
  <2> QED
    BY <1>0, <1>5, <2>1, <2>2 DEF OneSwitch, InboxOK, WhereOK, ConversationFollowsThread
<1> QED
  BY <1>1, <1>2, <1>3, <1>4, <1>7, <1>8, <1>9, <1>10, <1>11
  DEF Next, CacheStep, ThreadStep, vars, threadVars, boundVars,
      LoginCommand, TerminalSignIn, ExpireProbe, ListingAnswers, ExpireModels, FlowSignIn,
      Ask, ForgetProbe, ProbeAnswers, Note, ForgetModels, ForgetQuota, ListModels,
      Recheck, RecheckModels, Epoch, ReadQuota, ReadFails, StoreQuota, Push, Adopt,
      StartProcess, Turn

\* With no named fault the conversation is kept where the account in the thread's row
\* looks for it, whatever is refused, times out, fails or exits on the way
\* (switchaccount.go, move.go): SwitchAccount asks one at a time and puts it back.
THEOREM ConversationStays == Faults = {} => (Spec => []ConversationFollowsThread)
<1> SUFFICES ASSUME Faults = {} PROVE Spec => []ConversationFollowsThread
  OBVIOUS
<1>1. Init => MoveInv
  <2> SUFFICES ASSUME Init PROVE MoveInv
    OBVIOUS
  <2>1. \A s \in Switches : sw[s].pc = "idle"
    BY Blanks DEF Init
  <2>2. inbox = <<>> /\ conv = row
    BY DEF Init
  <2> QED
    BY <2>1, <2>2, InitOK
    DEF MoveInv, OneSwitch, InboxOK, WhereOK, ConversationFollowsThread
<1>2. MoveInv /\ [Next]_vars => MoveInv'
  BY MoveStep, StepOK DEF MoveInv
<1>3. MoveInv => ConversationFollowsThread
  BY DEF MoveInv
<1> QED
  BY <1>1, <1>2, <1>3, PTL DEF Spec


-----------------------------------------------------------------------------
(* Codex and Pi sessions.  The inductive invariant.                         *)

Turns == Prompts \cup Actions \cup 1..minted
Requests == [k : {"prompt", "action"}, n : Nat, by : Inputs] \cup [k : {"stop"}, n : Nat, by : Nat]
Notices == [k : {"item", "done", "tail"}, n : Nat \ {0}, by : {None}]
             \cup [k : {"read"}, n : Nat \ {0}, by : Inputs]
             \cup [k : {"sub"}, n : {0}, by : {None}]
Replies == [k : {"reply"}, n : Nat, by : Nat] \cup [k : {"refusal"}, n : {0}, by : Nat]
Frames == Notices \cup Replies
Emissions == [k : {"started", "finished", "chunk", "injected", "aside"}, turn : Turns]
InHand == [m : Notices, turn : Turns \cup {None}, go : BOOLEAN]

HarnessTypes == /\ alive \in BOOLEAN /\ turns \in Nat /\ running \in {0, turns} /\ home \in 0..turns
                /\ held \in Seq(Inputs) /\ stdin \in Seq(Requests) /\ stdout \in Seq(Frames)
                /\ extras \in Nat /\ kind \in {"codex", "pi"}
                /\ running = 0 => held = <<>>
TurnTypes == /\ minted \in Nat /\ turnID \in Turns \cup {None} /\ serverTurnID \in 0..turns
             /\ interrupting \in BOOLEAN /\ owner \in Turns \cup {None}
ReaderTypes == rd \in InHand \cup {Idle} /\ outbox \in Seq(Emissions) /\ connDone \in BOOLEAN
WatchTypes == /\ watcher \in {"wait", "emit", "close", "done"} /\ lost \in Turns \cup {None}
              /\ watcher = "emit" => lost # None
ChannelTypes == /\ events \in Seq(Emissions) /\ Len(events) <= Room
                /\ eventsClosed \in BOOLEAN /\ closed \in BOOLEAN
CallTypes == /\ doing \in {"loop", "calling", "gone"} /\ calls \in Nat
             /\ call \in [what : {"none", "begin", "steer", "cancel"}, by : Inputs \cup {None},
                          n : Nat, c : Nat]
             /\ answer \in Replies \cup {Silent}
             /\ busy \in Turns \cup {None} /\ used \subseteq Inputs /\ cancels \in Nat
HistoryTypes == opened \subseteq Turns /\ stream \in Seq(Turns) /\ asides \subseteq Turns
Typing == /\ HarnessTypes /\ TurnTypes /\ ReaderTypes /\ WatchTypes /\ ChannelTypes
          /\ CallTypes /\ HistoryTypes

\* What the exit of the process leaves to be done, and by whom.
ExitOK ==
  /\ connDone => ~alive /\ stdout = <<>> /\ rd = Idle /\ outbox = <<>>
  /\ watcher # "wait" => connDone
  /\ eventsClosed => watcher = "done"
  /\ ~alive => running = 0 /\ held = <<>> /\ stdin = <<>>
  /\ closed => doing = "gone" /\ ~alive
  /\ rd # Idle => outbox = <<>>

\* No turn is named before it began.
BoundsOK ==
  /\ rd.m.n <= turns /\ answer.n <= turns
  /\ \A i \in DOMAIN stdout : stdout[i].n <= turns

\* Pi names no turn, and knows of no subagents.
PiOK ==
  kind = "pi" => /\ serverTurnID = 0 /\ ~interrupting /\ owner = None /\ rd.m.k # "sub"
                 /\ \A i \in DOMAIN stdout : stdout[i].k # "sub"

-----------------------------------------------------------------------------
(* Types of a session.                                                      *)

\* The first of a sequence and the rest of it.
LEMMA Parts ==
  ASSUME NEW S, NEW s \in Seq(S), s # <<>>
  PROVE  /\ Head(s) \in S /\ Head(s) = s[1] /\ Tail(s) \in Seq(S)
         /\ Len(s) \in Nat \ {0} /\ Len(Tail(s)) = Len(s) - 1 /\ DOMAIN s = 1..Len(s)
         /\ \A i \in 1..(Len(s) - 1) : Tail(s)[i] = s[i + 1]
BY HeadTailProperties

\* One more at the end of a sequence, or two.
LEMMA Longer ==
  ASSUME NEW S, NEW s \in Seq(S), NEW e \in S
  PROVE  /\ Append(s, e) \in Seq(S) /\ s \o <<e>> = Append(s, e)
         /\ Len(Append(s, e)) = Len(s) + 1
         /\ \A i \in 1..Len(s) : Append(s, e)[i] = s[i]
         /\ Append(s, e)[Len(s) + 1] = e
BY AppendProperties, ConcatProperties

LEMMA LongerBy ==
  ASSUME NEW S, NEW s \in Seq(S), NEW z \in Seq(S)
  PROVE  /\ s \o z \in Seq(S) /\ Len(s \o z) = Len(s) + Len(z)
         /\ \A i \in 1..Len(s) : (s \o z)[i] = s[i]
         /\ \A i \in 1..Len(z) : (s \o z)[Len(s) + i] = z[i]
<1>1. /\ s \o z \in Seq(S) /\ Len(s \o z) = Len(s) + Len(z) /\ Len(s) \in Nat /\ Len(z) \in Nat
      /\ \A i \in 1..(Len(s) + Len(z)) : (s \o z)[i] = IF i <= Len(s) THEN s[i] ELSE z[i - Len(s)]
  BY ConcatProperties, LenProperties
<1>2. \A i \in 1..Len(z) : Len(s) + i \in 1..(Len(s) + Len(z)) /\ ~(Len(s) + i <= Len(s))
                           /\ (Len(s) + i) - Len(s) = i
  BY <1>1
<1> QED
  BY <1>1, <1>2

\* Short sequences.
LEMMA Few ==
  ASSUME NEW S, NEW e \in S, NEW f \in S
  PROVE  /\ <<>> \in Seq(S) /\ <<e>> \in Seq(S) /\ <<e, f>> \in Seq(S)
OBVIOUS

\* One, and one more.
LEMMA Joined ==
  ASSUME NEW e, NEW f
  PROVE  <<e>> \o <<>> = <<e>> /\ <<e>> \o <<f>> = <<e, f>>
<1>1. <<e>> \in Seq({e, f}) /\ <<e, f>> \in Seq({e, f})
  OBVIOUS
<1>2. Append(<<e>>, f) = <<e, f>>
  <2> DEFINE a == Append(<<e>>, f)
             b == <<e, f>>
  <2>1. /\ Append(<<e>>, f) \in Seq({e, f}) /\ Len(Append(<<e>>, f)) = 2
        /\ Append(<<e>>, f)[1] = e /\ Append(<<e>>, f)[2] = f
    BY <1>1, Longer
  <2>2. Len(<<e, f>>) = 2 /\ <<e, f>>[1] = e /\ <<e, f>>[2] = f
    OBVIOUS
  <2>3. /\ a \in Seq({e, f}) /\ b \in Seq({e, f}) /\ Len(a) = Len(b)
        /\ \A i \in 1..Len(a) : a[i] = b[i]
    BY <1>1, <2>1, <2>2
  <2> HIDE DEF a, b
  <2>4. a = b
    BY <2>3, SeqEqual
  <2> QED
    BY <2>4 DEF a, b
<1>3. <<e>> \o <<>> = <<e>> /\ <<e>> \o <<f>> = Append(<<e>>, f)
  BY <1>1, ConcatEmptySeq, AppendIsConcat
<1> QED
  BY <1>2, <1>3

\* A turn is not None, and the turns the session numbers are no ids.
LEMMA TurnsApart ==
  ASSUME Typing
  PROVE  /\ None \notin Turns /\ minted + 1 \notin Turns /\ minted + 1 # None /\ minted \in Nat
         /\ minted \notin Prompts \cup Actions
         /\ \A t : IsTurn(t) <=> t \in Turns
BY CallConstants DEF Typing, TurnTypes, Turns, IsTurn, Inputs

\* A number more, and what was said of the turns is still about turns.
LEMMA TurnsGrow ==
  ASSUME Typing, minted' = minted + 1
  PROVE  /\ minted' \in Nat /\ minted' \in Turns' /\ minted' \notin Turns
         /\ Turns' = Turns \cup {minted'} /\ InHand \subseteq InHand'
         /\ \A s \in Seq(Emissions) : s \in Seq(Emissions')
         /\ \A s \in Seq(Turns) : s \in Seq(Turns')
<1>1. /\ minted' \in Nat /\ minted' \in Turns' /\ minted' \notin Turns
      /\ Turns' = Turns \cup {minted'}
  BY CallConstants DEF Typing, TurnTypes, Turns
<1>2. Emissions \subseteq Emissions' /\ InHand \subseteq InHand'
  BY <1>1 DEF Emissions, InHand
<1> QED
  BY <1>1, <1>2, SeqMonotonic

\* With the same number of turns they are the same.
LEMMA TurnsStay ==
  ASSUME minted' = minted
  PROVE  Turns' = Turns /\ Emissions' = Emissions /\ InHand' = InHand
BY DEF Turns, Emissions, InHand

\* An emission is recorded, unless the channel or the session is closed.
LEMMA Emitted ==
  ASSUME Typing, NEW e \in Emissions, Emit(e)
  PROVE  /\ events' \in Seq(Emissions) /\ Len(events') <= Room
         /\ opened' \subseteq Turns /\ stream' \in Seq(Turns) /\ asides' \subseteq Turns
         /\ \/ (closed \/ eventsClosed) /\ UNCHANGED historyVars
            \/ ~closed /\ ~eventsClosed /\ Recorded(e)
<1>1. e.turn \in Turns
  BY DEF Emissions
<1>2. /\ \/ (closed \/ eventsClosed) /\ UNCHANGED historyVars
         \/ ~closed /\ ~eventsClosed /\ Recorded(e)
      /\ events' = events \/ (events' = Append(events, e) /\ Len(events) < Room)
  BY DEF Emit, Swallowed
<1>3. events' \in Seq(Emissions) /\ Len(events') <= Room
  BY <1>2, Longer, CallConstants DEF Typing, ChannelTypes
<1>4. opened' \subseteq Turns /\ asides' \subseteq Turns
  BY <1>1, <1>2 DEF Typing, HistoryTypes, Recorded, historyVars
<1>5. stream' = stream \/ stream' = Append(stream, e.turn)
  BY <1>2 DEF Recorded, historyVars
<1>6. stream' \in Seq(Turns)
  BY <1>1, <1>5, Longer DEF Typing, HistoryTypes
<1> QED
  BY <1>2, <1>3, <1>4, <1>6

-----------------------------------------------------------------------------
(* What the harness says.                                                   *)

IsDone(e, m) == e.k = "done" /\ e.n = m
Spoken(e) == e.k \in {"item", "read"} \/ (e.k = "reply" /\ e.n # 0)
New == (Len(stdout) + 1)..Len(stdout')

\* It adds to what it has said: of the turn that runs, or of an earlier one, and the end of
\* a turn is said before the next begins.
Adds ==
  /\ stdout' \in Seq(Frames) /\ Len(stdout) <= Len(stdout')
  /\ \A i \in 1..Len(stdout) : stdout'[i] = stdout[i]
  /\ \A i \in New : stdout'[i].n <= turns' /\ (stdout'[i].k = "sub" => kind = "codex")
Runs ==
  /\ turns' \in Nat /\ turns <= turns' /\ running' \in {0, turns'}
  /\ running # 0 => turns' = turns
  /\ running = 0 /\ running' # 0 => turns' = turns + 1
  /\ \A i \in New : Spoken(stdout'[i]) => stdout'[i].n = turns' /\ running' = turns'
  /\ running # 0 /\ running' # running =>
       \E k \in New : IsDone(stdout'[k], running) /\ \A i \in New : i < k => stdout'[i].n <= running
\* And it answers the request it is at.
Replied ==
  /\ stdin' = stdin \/ (stdin # <<>> /\ stdin' = Tail(stdin))
  /\ \A i \in New : stdout'[i].k = "reply" =>
       /\ stdin # <<>> /\ stdout'[i].by = Head(stdin).n
       /\ Head(stdin).k = "prompt" => stdout'[i].n # 0
       /\ Head(stdin).k # "stop" => running' # 0
       /\ Head(stdin).k = "stop"
            => kind = "pi" \/ (running = Head(stdin).by /\ running # 0 /\ running' = 0)

\* A message more, or two.
LEMMA OneMore ==
  ASSUME Typing, NEW e \in Frames, Writes(<<e>>)
  PROVE  /\ stdout' \in Seq(Frames) /\ Len(stdout') = Len(stdout) + 1 /\ Len(stdout) \in Nat
         /\ \A i \in 1..Len(stdout) : stdout'[i] = stdout[i]
         /\ New = {Len(stdout) + 1} /\ stdout'[Len(stdout) + 1] = e
<1>1. /\ stdout' = Append(stdout, e) /\ stdout \in Seq(Frames) /\ Len(stdout) \in Nat
  BY Longer, LenProperties DEF Writes, Typing, HarnessTypes
<1>2. /\ stdout' \in Seq(Frames) /\ Len(stdout') = Len(stdout) + 1
      /\ \A i \in 1..Len(stdout) : stdout'[i] = stdout[i] /\ stdout'[Len(stdout) + 1] = e
  BY <1>1, Longer
<1> QED
  BY <1>1, <1>2, Longer DEF New

LEMMA TwoMore ==
  ASSUME Typing, NEW e \in Frames, NEW f \in Frames, Writes(<<e, f>>)
  PROVE  /\ stdout' \in Seq(Frames) /\ Len(stdout') = Len(stdout) + 2 /\ Len(stdout) \in Nat
         /\ \A i \in 1..Len(stdout) : stdout'[i] = stdout[i]
         /\ New = {Len(stdout) + 1, Len(stdout) + 2}
         /\ stdout'[Len(stdout) + 1] = e /\ stdout'[Len(stdout) + 2] = f
<1>1. stdout \in Seq(Frames) /\ Len(stdout) \in Nat /\ stdout' = stdout \o <<e, f>>
  BY LenProperties DEF Writes, Typing, HarnessTypes
<1>2. <<e, f>> \in Seq(Frames) /\ Len(<<e, f>>) = 2 /\ <<e, f>>[1] = e /\ <<e, f>>[2] = f
  OBVIOUS
<1>3. /\ stdout' \in Seq(Frames) /\ Len(stdout') = Len(stdout) + 2
      /\ \A i \in 1..Len(stdout) : stdout'[i] = stdout[i]
      /\ \A i \in 1..2 : stdout'[Len(stdout) + i] = <<e, f>>[i]
  BY <1>1, <1>2, LongerBy
<1>4. stdout'[Len(stdout) + 1] = e /\ stdout'[Len(stdout) + 2] = f
  BY <1>2, <1>3
<1> QED
  BY <1>1, <1>3, <1>4 DEF New

\* The first request is one.
LEMMA Asked1 ==
  ASSUME Typing, stdin # <<>>
  PROVE  /\ Head(stdin) \in Requests /\ Tail(stdin) \in Seq(Requests) /\ Head(stdin).n \in Nat
         /\ Head(stdin).k \in {"prompt", "action", "stop"}
         /\ Head(stdin).k = "stop" => Head(stdin).by \in Nat
         /\ Head(stdin).k # "stop" => Head(stdin).by \in Inputs
<1>1. Head(stdin) \in Requests /\ Tail(stdin) \in Seq(Requests)
  BY Parts DEF Typing, HarnessTypes
<1> QED
  BY <1>1 DEF Requests

\* What may be said.
LEMMA Sayable ==
  /\ \A n \in Nat, c \in Nat : Reply(n, c) \in Frames /\ Reply(n, c).k = "reply"
                             /\ Reply(n, c).n = n /\ Reply(n, c).by = c
  /\ \A c \in Nat : Refusal(c) \in Frames /\ Refusal(c).k = "refusal" /\ Refusal(c).n = 0
  /\ \A k \in {"item", "done", "tail"}, n \in Nat \ {0} : Message(k, n, None) \in Frames
  /\ \A n \in Nat \ {0}, q \in Inputs : Message("read", n, q) \in Frames
  /\ Message("sub", 0, None) \in Frames
  /\ \A k, n, b : Message(k, n, b).k = k /\ Message(k, n, b).n = n /\ Message(k, n, b).by = b
BY DEF Reply, Refusal, Message, Frames, Notices, Replies

\* A step of the harness, unless it dies.
LEMMA Speaks ==
  ASSUME Typing, Harness, ~Die
  PROVE  Adds /\ Runs /\ Replied /\ UNCHANGED <<alive, harnessElse>>
<1>1. /\ turns \in Nat /\ running \in {0, turns} /\ stdout \in Seq(Frames) /\ Len(stdout) \in Nat
  BY LenProperties DEF Typing, HarnessTypes
<1>2. stdout' = stdout => New = {}
  BY <1>1 DEF New
<1>3. UNCHANGED <<alive, harnessElse>>
  BY DEF Harness, Serves, StartsTurn, Stops, Reads, SelfStart, Output, Completes, Strays, SubSpeaks
<1>4. CASE StartsTurn
  <2> DEFINE r == Head(stdin)
  <2>1. /\ stdin # <<>> /\ r.n \in Nat /\ r.k \in {"prompt", "action"} /\ stdin' = Tail(stdin)
    BY <1>4, Asked1 DEF StartsTurn
  <2>2. CASE Writes(<<Refusal(r.n)>>) /\ UNCHANGED <<turns, running>>
    <3>1. Refusal(r.n) \in Frames /\ Refusal(r.n).k = "refusal" /\ Refusal(r.n).n = 0
      BY <2>1, Sayable
    <3> HIDE DEF r
    <3> QED
      BY <1>1, <1>3, <2>1, <2>2, <3>1, OneMore DEF Adds, Runs, Replied, Spoken
  <2>3. CASE running = 0 /\ NewTurn /\ Writes(<<Reply(IF r.k = "action" THEN 0 ELSE turns', r.n)>>)
    <3> DEFINE n == IF r.k = "action" THEN 0 ELSE turns'
    <3>1. turns' = turns + 1 /\ running' = turns' /\ n \in Nat /\ n \in {0, turns'}
          /\ (r.k = "prompt" => n # 0)
      BY <1>1, <2>1, <2>3 DEF NewTurn
    <3>2. /\ Reply(n, r.n) \in Frames /\ Reply(n, r.n).k = "reply" /\ Reply(n, r.n).n = n
          /\ Reply(n, r.n).by = r.n
      BY <2>1, <3>1, Sayable
    <3>3. Writes(<<Reply(n, r.n)>>)
      BY <2>3
    <3> HIDE DEF n
    <3> QED
      BY <1>1, <1>3, <2>1, <2>3, <3>1, <3>2, <3>3, OneMore DEF Adds, Runs, Replied, Spoken
  <2>4. CASE /\ running # 0 /\ r.k = "prompt" /\ Writes(<<Reply(running, r.n)>>)
             /\ UNCHANGED <<turns, running>>
    <3>1. /\ Reply(running, r.n) \in Frames /\ Reply(running, r.n).k = "reply"
          /\ Reply(running, r.n).n = running /\ Reply(running, r.n).by = r.n
      BY <1>1, <2>1, Sayable
    <3> QED
      BY <1>1, <1>3, <2>1, <2>4, <3>1, OneMore DEF Adds, Runs, Replied, Spoken
  <2> QED
    BY <1>4, <2>2, <2>3, <2>4 DEF StartsTurn
<1>5. CASE Stops
  <2> DEFINE r == Head(stdin)
             end == Message("done", running, None)
             yes == Reply(0, r.n)
             no == Refusal(r.n)
  <2>1. /\ stdin # <<>> /\ r.n \in Nat /\ r.k = "stop" /\ stdin' = Tail(stdin) /\ turns' = turns
    BY <1>5, Asked1 DEF Stops
  <2>2. /\ yes \in Frames /\ no \in Frames /\ yes.k = "reply" /\ yes.n = 0 /\ yes.by = r.n
        /\ no.k = "refusal" /\ no.n = 0 /\ end.k = "done" /\ end.n = running
        /\ running # 0 => end \in Frames
    BY <1>1, <2>1, Sayable
  <2>3. \/ /\ running # 0 /\ (kind = "pi" \/ r.by = running) /\ running' = 0
           /\ Writes(<<end, yes>>) \/ Writes(<<yes, end>>)
        \/ /\ running' = running
           /\ (kind = "pi" /\ Writes(<<yes>>)) \/ Writes(<<no>>) \/ stdout' = stdout
    BY <1>5 DEF Stops
  <2> HIDE DEF r, end, yes, no
  <2>4. CASE running # 0 /\ (kind = "pi" \/ r.by = running) /\ running' = 0 /\ Writes(<<end, yes>>)
    <3>1. /\ stdout' \in Seq(Frames) /\ Len(stdout') = Len(stdout) + 2
          /\ \A i \in 1..Len(stdout) : stdout'[i] = stdout[i]
          /\ New = {Len(stdout) + 1, Len(stdout) + 2}
          /\ stdout'[Len(stdout) + 1] = end /\ stdout'[Len(stdout) + 2] = yes
      BY <2>2, <2>4, TwoMore
    <3>2. Adds /\ Replied
      BY <1>1, <2>1, <2>2, <2>4, <3>1 DEF Adds, Replied, r
    <3>3. IsDone(stdout'[Len(stdout) + 1], running) /\ Len(stdout) + 1 \in New
      BY <2>2, <3>1 DEF IsDone
    <3>4. \A i \in New : i < Len(stdout) + 1 => stdout'[i].n <= running
      BY <1>1, <2>2, <3>1
    <3>5. \A i \in New : ~Spoken(stdout'[i])
      BY <2>2, <3>1 DEF Spoken
    <3>6. Runs
      BY <1>1, <2>1, <2>4, <3>3, <3>4, <3>5 DEF Runs
    <3> QED
      BY <1>3, <3>2, <3>6
  <2>5. CASE running # 0 /\ (kind = "pi" \/ r.by = running) /\ running' = 0 /\ Writes(<<yes, end>>)
    <3>1. /\ stdout' \in Seq(Frames) /\ Len(stdout') = Len(stdout) + 2
          /\ \A i \in 1..Len(stdout) : stdout'[i] = stdout[i]
          /\ New = {Len(stdout) + 1, Len(stdout) + 2}
          /\ stdout'[Len(stdout) + 1] = yes /\ stdout'[Len(stdout) + 2] = end
      BY <2>2, <2>5, TwoMore
    <3>2. Adds /\ Replied
      BY <1>1, <2>1, <2>2, <2>5, <3>1 DEF Adds, Replied, r
    <3>3. IsDone(stdout'[Len(stdout) + 2], running) /\ Len(stdout) + 2 \in New
      BY <2>2, <3>1 DEF IsDone
    <3>4. \A i \in New : i < Len(stdout) + 2 => stdout'[i].n <= running
      BY <1>1, <2>2, <3>1
    <3>5. \A i \in New : ~Spoken(stdout'[i])
      BY <2>2, <3>1 DEF Spoken
    <3>6. Runs
      BY <1>1, <2>1, <2>5, <3>3, <3>4, <3>5 DEF Runs
    <3> QED
      BY <1>3, <3>2, <3>6
  <2>6. CASE running' = running /\ kind = "pi" /\ Writes(<<yes>>)
    BY <1>1, <1>3, <2>1, <2>2, <2>6, OneMore DEF Adds, Runs, Replied, Spoken, IsDone, r
  <2>7. CASE running' = running /\ Writes(<<no>>)
    BY <1>1, <1>3, <2>1, <2>2, <2>7, OneMore DEF Adds, Runs, Replied, Spoken, IsDone, r
  <2>8. CASE running' = running /\ stdout' = stdout
    BY <1>1, <1>2, <1>3, <2>1, <2>8 DEF Adds, Runs, Replied
  <2> QED
    BY <2>3, <2>4, <2>5, <2>6, <2>7, <2>8
<1>6. CASE Reads
  <2>1. Head(held) \in Inputs /\ running # 0
    BY <1>6, Parts DEF Reads, Typing, HarnessTypes
  <2>2. Message("read", running, Head(held)) \in Frames
    BY <1>1, <2>1, Sayable
  <2> QED
    BY <1>1, <1>3, <1>6, <2>1, <2>2, OneMore DEF Reads, Adds, Runs, Replied, Spoken, Message
<1>7. CASE SelfStart
  BY <1>1, <1>2, <1>3, <1>7 DEF SelfStart, NewTurn, Adds, Runs, Replied
<1>8. CASE Output
  <2>1. Message("item", running, None) \in Frames
    BY <1>1, <1>8, Sayable DEF Output
  <2> QED
    BY <1>1, <1>3, <1>8, <2>1, OneMore DEF Output, Adds, Runs, Replied, Spoken, Message
<1>9. CASE Completes
  <2>1. Message("done", running, None) \in Frames
    BY <1>1, <1>9, Sayable DEF Completes
  <2> QED
    BY <1>1, <1>3, <1>9, <2>1, OneMore DEF Completes, Adds, Runs, Replied, Spoken, Message, IsDone
<1>10. CASE Strays
  <2>1. PICK n \in (1..turns) \ {running}, k \in {"tail", "done"} : Writes(<<Message(k, n, None)>>)
    BY <1>10 DEF Strays
  <2>2. Message(k, n, None) \in Frames
    BY <1>1, <2>1, Sayable
  <2> QED
    BY <1>1, <1>3, <1>10, <2>1, <2>2, OneMore DEF Strays, Adds, Runs, Replied, Spoken, Message
<1>11. CASE SubSpeaks
  <2>1. Message("sub", 0, None) \in Frames
    BY Sayable
  <2>2. CASE Writes(<<Message("sub", 0, None)>>)
    BY <1>1, <1>3, <1>11, <2>1, <2>2, OneMore DEF SubSpeaks, Adds, Runs, Replied, Spoken, Message
  <2>3. CASE stdout' = stdout
    BY <1>1, <1>2, <1>3, <1>11, <2>3 DEF SubSpeaks, Adds, Runs, Replied
  <2> QED
    BY <1>11, <2>2, <2>3 DEF SubSpeaks
<1> QED
  BY <1>4, <1>5, <1>6, <1>7, <1>8, <1>9, <1>10, <1>11 DEF Harness, Serves

-----------------------------------------------------------------------------
(* What the session does.                                                   *)

\* A notification leaves the open turn, opens another, or ends it.
Handles == CodexItem \/ CodexTail \/ SubagentOutput \/ Completion \/ PiEvent \/ PiSettled
Carries ==
  /\ UNCHANGED <<turnID, minted, interrupting, owner>> /\ rd.m.k \notin {"done", "sub"}
  /\ \/ serverTurnID' = serverTurnID
     \/ /\ turnID # None /\ serverTurnID = 0 /\ rd.m.k \in {"item", "read"}
        /\ serverTurnID' = rd.m.n /\ kind = "codex"
  /\ \/ outbox' = <<>>
     \/ \E k \in {"chunk", "injected"}, t \in Turns : outbox' = <<Event(k, t)>>
OpensOne ==
  /\ turnID = None /\ minted' = minted + 1 /\ turnID' = minted'
  /\ UNCHANGED <<interrupting, owner>> /\ rd.m.k \in {"item", "read"}
  /\ serverTurnID' = IF kind = "pi" THEN 0 ELSE rd.m.n
  /\ \/ outbox' = <<Event("started", minted')>>
     \/ \E k \in {"chunk", "injected"} :
          outbox' = <<Event("started", minted'), Event(k, minted')>>
EndsOne == rd.m.k = "done" /\ Ends /\ UNCHANGED <<owner, minted>>

\* What is in hand is a notice.
LEMMA Noticed ==
  ASSUME Typing, rd.m.k # "none"
  PROVE  /\ rd \in InHand /\ rd # Idle /\ rd.m \in Notices /\ rd.turn \in Turns \cup {None}
         /\ rd.m.n \in Nat
         /\ rd.m.k \in {"item", "done", "tail", "read", "sub"} /\ (rd.m.k # "sub" => rd.m.n # 0)
<1>1. Idle.m.k = "none"
  BY DEF Idle, Silent
<1>2. rd \in InHand /\ rd # Idle
  BY <1>1 DEF Typing, ReaderTypes
<1> QED
  BY <1>2 DEF InHand, Notices

LEMMA Handled ==
  ASSUME Typing, PiOK, Handles
  PROVE  /\ Carries \/ OpensOne \/ EndsOne \/ SubagentOutput
         /\ UNCHANGED <<loopElse, stdout, historyVars>>
         /\ rd' = Idle /\ rd.m.k # "none" /\ rd \in InHand
<1>1. \A t : \/ Says(t) = <<>>
             \/ Says(t) = <<Event("chunk", t)>> \/ Says(t) = <<Event("injected", t)>>
  BY DEF Says
<1>2. rd.m.k # "none" /\ rd' = Idle /\ UNCHANGED <<loopElse, stdout, historyVars>>
  BY DEF Handles, CodexItem, CodexTail, SubagentOutput, Completion, PiEvent, PiSettled, Ends
<1>3. rd.turn \in Turns \cup {None} /\ rd \in InHand
  BY <1>2, Noticed
<1>4. minted \in Nat /\ turnID \in Turns \cup {None}
  BY DEF Typing, TurnTypes
<1>5. ASSUME Ensures(rd.m.n) \/ (kind = "pi" /\ Ensures(0)),
             outbox' = Announced \o Says(EnsuredTurn),
             UNCHANGED <<interrupting, owner>>, rd.m.k \in {"item", "read"},
             kind = "pi" => Ensures(0)
      PROVE  Carries \/ OpensOne
  <2>1. CASE turnID # None
    <3>1. Announced \o Says(EnsuredTurn) = Says(turnID)
      BY <1>1, <2>1 DEF Announced, EnsuredTurn
    <3>2. /\ UNCHANGED <<turnID, minted>>
          /\ serverTurnID' = serverTurnID \/ (serverTurnID = 0 /\ serverTurnID' \in {0, rd.m.n})
      BY <1>5, <2>1 DEF Ensures, EnsuredTurn
    <3>3. kind = "pi" => serverTurnID' = serverTurnID
      BY <1>5 DEF PiOK, Ensures
    <3>4. kind \in {"codex", "pi"}
      BY DEF Typing, HarnessTypes
    <3>5. outbox' = <<>> \/ \E k \in {"chunk", "injected"}, t \in Turns : outbox' = <<Event(k, t)>>
      BY <1>1, <1>4, <1>5, <2>1, <3>1
    <3> QED
      BY <1>5, <2>1, <3>2, <3>3, <3>4, <3>5 DEF Carries
  <2>2. CASE turnID = None
    <3>1. EnsuredTurn = minted + 1 /\ Announced = <<Event("started", minted + 1)>>
      BY <2>2 DEF Announced, EnsuredTurn
    <3>2. minted' = minted + 1 /\ turnID' = minted'
      BY <1>5, <2>2, <3>1 DEF Ensures
    <3>3. serverTurnID' = IF kind = "pi" THEN 0 ELSE rd.m.n
      BY <1>5, <2>2 DEF Ensures
    <3>4. \A e, f : <<e>> \o <<>> = <<e>> /\ <<e>> \o <<f>> = <<e, f>>
      BY Joined
    <3>5. \/ outbox' = <<Event("started", minted')>>
          \/ \E k \in {"chunk", "injected"} :
               outbox' = <<Event("started", minted'), Event(k, minted')>>
      BY <1>1, <1>5, <3>1, <3>2, <3>4
    <3> QED
      BY <1>5, <2>2, <3>2, <3>3, <3>5 DEF OpensOne
  <2> QED
    BY <2>1, <2>2
<1>6. CASE CodexItem
  <2>1. CASE rd.turn # None
    <3>1. /\ outbox' = Says(rd.turn)
          /\ UNCHANGED <<turnID, minted, serverTurnID, interrupting, owner>>
          /\ rd.m.k \notin {"done", "sub"}
      BY <1>6, <2>1 DEF CodexItem
    <3> QED
      BY <1>1, <1>2, <1>3, <2>1, <3>1 DEF Carries
  <2>2. CASE rd.turn = None
    <3>1. /\ Ensures(rd.m.n) /\ outbox' = Announced \o Says(EnsuredTurn) /\ kind # "pi"
          /\ UNCHANGED <<interrupting, owner>> /\ rd.m.k \in {"item", "read"}
      BY <1>6, <2>2 DEF CodexItem
    <3> QED
      BY <1>2, <1>3, <1>5, <3>1
  <2> QED
    BY <2>1, <2>2
<1>7. CASE CodexTail
  <2>1. /\ outbox' \in {Says(rd.turn), <<>>} /\ (rd.turn = None => outbox' = <<>>)
        /\ UNCHANGED <<turnID, minted, serverTurnID, interrupting, owner>>
        /\ rd.m.k \notin {"done", "sub"}
    BY <1>7 DEF CodexTail, Reopens
  <2> QED
    BY <1>1, <1>2, <1>3, <2>1 DEF Carries
<1>8. CASE SubagentOutput
  BY <1>2, <1>3, <1>8
<1>9. CASE Completion \/ PiSettled
  BY <1>2, <1>3, <1>9 DEF Completion, PiSettled, EndsOne
<1>10. CASE PiEvent
  <2>1. /\ Ensures(0) /\ outbox' = Announced \o Says(EnsuredTurn) /\ kind = "pi"
        /\ UNCHANGED <<interrupting, owner>> /\ rd.m.k \in {"item", "read"}
    BY <1>10 DEF PiEvent
  <2> QED
    BY <1>2, <1>3, <1>5, <2>1
<1> QED
  BY <1>6, <1>7, <1>8, <1>9, <1>10 DEF Handles

\* What a step leaves alone keeps its type.
LEMMA TypesStay ==
  ASSUME Typing, minted' = minted
  PROVE  /\ Turns' = Turns /\ Emissions' = Emissions /\ InHand' = InHand
         /\ UNCHANGED <<kind, harnessVars, stdout>> => HarnessTypes'
         /\ UNCHANGED <<turnVars, turns>> => TurnTypes'
         /\ UNCHANGED <<readVars, connDone>> => ReaderTypes'
         /\ UNCHANGED <<watcher, lost>> => WatchTypes'
         /\ UNCHANGED channelVars => ChannelTypes'
         /\ UNCHANGED actorVars => CallTypes'
         /\ UNCHANGED historyVars => HistoryTypes'
<1>1. Turns' = Turns /\ Emissions' = Emissions /\ InHand' = InHand
  BY TurnsStay
<1>2. UNCHANGED <<kind, harnessVars, stdout>> => HarnessTypes'
  BY DEF Typing, HarnessTypes, harnessVars
<1>3. UNCHANGED <<turnVars, turns>> => TurnTypes'
  BY <1>1 DEF Typing, TurnTypes, turnVars, nameVars
<1>4. UNCHANGED <<readVars, connDone>> => ReaderTypes'
  BY <1>1 DEF Typing, ReaderTypes, readVars
<1>5. UNCHANGED <<watcher, lost>> => WatchTypes'
  BY <1>1 DEF Typing, WatchTypes
<1>6. UNCHANGED channelVars => ChannelTypes'
  BY <1>1 DEF Typing, ChannelTypes, channelVars
<1>7. UNCHANGED actorVars => CallTypes'
  BY <1>1 DEF Typing, CallTypes, actorVars
<1>8. UNCHANGED historyVars => HistoryTypes'
  BY <1>1 DEF Typing, HistoryTypes, historyVars
<1> QED
  BY <1>1, <1>2, <1>3, <1>4, <1>5, <1>6, <1>7, <1>8

\* A call takes a number of its own.
LEMMA Called ==
  ASSUME Typing, NEW what \in {"begin", "steer", "cancel"}, NEW k \in {"prompt", "action", "stop"},
         NEW b \in Inputs \cup {None}, NEW n \in Nat, k = "stop" <=> what = "cancel",
         what # "cancel" => b \in Inputs, Calls(what, k, b, n)
  PROVE  /\ doing' = "calling" /\ calls' = calls + 1 /\ calls' \in Nat
         /\ call' = [what |-> what, by |-> b, n |-> n, c |-> calls']
         /\ call' \in [what : {"none", "begin", "steer", "cancel"}, by : Inputs \cup {None},
                       n : Nat, c : Nat]
         /\ answer' = IF alive THEN Silent ELSE Refusal(calls')
         /\ answer' \in Replies \cup {Silent}
         /\ stdin' \in Seq(Requests)
         /\ ~alive => stdin' = stdin
         /\ alive => \E r \in Requests : /\ stdin' = Append(stdin, r) /\ r.k = k /\ r.n = calls'
                                         /\ r.by = IF what = "cancel" THEN n ELSE b
<1>1. /\ doing' = "calling" /\ calls' = calls + 1 /\ calls \in Nat
      /\ call' = [what |-> what, by |-> b, n |-> n, c |-> calls']
      /\ answer' = IF alive THEN Silent ELSE Refusal(calls')
  BY DEF Calls, Typing, CallTypes
<1> DEFINE r == [k |-> k, n |-> calls', by |-> IF what = "cancel" THEN n ELSE b]
<1>2. r \in Requests /\ r.k = k /\ r.n = calls' /\ r.by = IF what = "cancel" THEN n ELSE b
  BY <1>1 DEF Requests
<1>3. stdin' = IF alive THEN Append(stdin, r) ELSE stdin
  BY DEF Calls
<1> HIDE DEF r
<1>4. stdin' \in Seq(Requests)
  BY <1>2, <1>3, Longer DEF Typing, HarnessTypes
<1>5. answer' \in Replies \cup {Silent}
  BY <1>1 DEF Replies, Refusal
<1> QED
  BY <1>1, <1>2, <1>3, <1>4, <1>5

\* Every step keeps the types.
LEMMA TypeStep ==
  ASSUME Typing, BoundsOK, PiOK, [SessionNext]_sessionVars
  PROVE  Typing'
<1>1. CASE Harness /\ ~Die
  <2>1. Adds /\ Runs /\ Replied /\ UNCHANGED <<alive, harnessElse>>
    BY <1>1, Speaks
  <2>2. /\ held' \in Seq(Inputs) /\ (running' = 0 => held' = <<>>) /\ home' \in 0..turns'
        /\ extras' \in Nat
    <3>1. held # <<>> => Head(held) \in Inputs /\ Tail(held) \in Seq(Inputs)
      BY Parts DEF Typing, HarnessTypes
    <3>2. /\ <<>> \in Seq(Inputs) /\ held \in Seq(Inputs) /\ home \in 0..turns /\ turns \in Nat
          /\ running \in {0, turns} /\ extras \in Nat /\ (running = 0 => held = <<>>)
      BY EmptySeq DEF Typing, HarnessTypes
    <3>3. CASE StartsTurn
      <4>1. Head(stdin).by \in Inputs
        BY <3>3, Asked1 DEF StartsTurn
      <4>2. <<Head(stdin).by>> \in Seq(Inputs) /\ Append(held, Head(stdin).by) \in Seq(Inputs)
        BY <3>2, <4>1, Longer, Few
      <4>3. UNCHANGED <<home, extras>>
        BY <3>3 DEF StartsTurn
      <4>4. \/ UNCHANGED <<turns, running, held>>
            \/ /\ running = 0 /\ turns' = turns + 1 /\ running' = turns'
               /\ held' \in {<<>>, <<Head(stdin).by>>}
            \/ running # 0 /\ held' = Append(held, Head(stdin).by) /\ UNCHANGED <<turns, running>>
        BY <3>3 DEF StartsTurn, NewTurn
      <4>5. held' \in Seq(Inputs)
        BY <3>2, <4>2, <4>4
      <4>6. turns <= turns' /\ turns' \in Nat /\ (running' = 0 => held' = <<>>)
        BY <3>2, <4>4
      <4> QED
        BY <3>2, <4>3, <4>5, <4>6
    <3>4. CASE Stops \/ Reads \/ Completes
      <4>1. UNCHANGED <<home, extras, turns>> /\ held' \in {held, <<>>, Tail(held)}
        BY <3>2, <3>4 DEF Stops, Reads, Completes
      <4>2. (held' = Tail(held) => held # <<>>) \/ held' = <<>>
        BY <3>4 DEF Stops, Reads, Completes
      <4>3. running' = 0 => held' = <<>>
        BY <3>2, <3>4 DEF Stops, Reads, Completes
      <4> QED
        BY <3>1, <3>2, <4>1, <4>2, <4>3
    <3>5. CASE SelfStart \/ SubSpeaks \/ Output \/ Strays
      <4>1. /\ held' = held /\ extras' = extras + 1 /\ home' \in {home, running}
            /\ \/ UNCHANGED <<turns, running>>
               \/ turns' = turns + 1 /\ running' = turns'
        BY <3>5 DEF SelfStart, SubSpeaks, Output, Strays, Extra, NewTurn
      <4> QED
        BY <3>2, <4>1
    <3> QED
      BY <1>1, <3>3, <3>4, <3>5 DEF Harness, Serves
  <2>3. stdin' \in Seq(Requests)
    BY <2>1, Asked1 DEF Replied, Typing, HarnessTypes
  <2>4. HarnessTypes'
    BY <2>1, <2>2, <2>3 DEF Adds, Runs, harnessElse, Typing, HarnessTypes
  <2>5. TurnTypes'
    BY <2>1 DEF Runs, harnessElse, turnVars, nameVars, Typing, HarnessTypes, TurnTypes, Turns
  <2> QED
    BY <2>1, <2>4, <2>5, TypesStay DEF harnessElse, turnVars, exitVars, Typing
<1>2. CASE Die
  <2>1. UNCHANGED harnessElse /\ turns' = turns
    BY <1>2 DEF Die
  <2>2. HarnessTypes'
    BY <1>2, EmptySeq DEF Die, harnessElse, Typing, HarnessTypes
  <2> QED
    BY <2>1, <2>2, TypesStay DEF harnessElse, turnVars, exitVars, Typing
<1>3. CASE ReadReply
  <2>1. /\ stdout # <<>> /\ Head(stdout) \in Frames /\ Tail(stdout) \in Seq(Frames)
        /\ stdout' = Tail(stdout) /\ Head(stdout).k \in {"reply", "refusal"}
    BY <1>3, Parts DEF ReadReply, Typing, HarnessTypes
  <2>2. Head(stdout) \in Replies
    BY <2>1 DEF Frames, Notices
  <2>3. HarnessTypes' /\ CallTypes'
    BY <1>3, <2>1, <2>2, TurnsStay DEF ReadReply, harnessVars, turnVars, Typing, HarnessTypes,
       CallTypes
  <2>4. UNCHANGED <<turnVars, turns, readVars, exitVars, channelVars, historyVars>>
    BY <1>3 DEF ReadReply, harnessVars
  <2> QED
    BY <2>3, <2>4, TypesStay DEF turnVars, exitVars, Typing
<1>4. CASE Notice
  <2>1. /\ stdout # <<>> /\ Head(stdout) \in Frames /\ Tail(stdout) \in Seq(Frames)
        /\ stdout' = Tail(stdout) /\ Head(stdout).k \notin {"reply", "refusal"}
    BY <1>4, Parts DEF Notice, Typing, HarnessTypes
  <2>2. Head(stdout) \in Notices
    BY <2>1 DEF Frames, Replies
  <2>3. rd' \in InHand
    BY <1>4, <2>2 DEF Notice, InHand, Typing, TurnTypes
  <2>4. HarnessTypes' /\ ReaderTypes'
    BY <1>4, <2>1, <2>3, TurnsStay DEF Notice, loopElse, harnessVars, turnVars, exitVars, Typing,
       HarnessTypes, ReaderTypes
  <2>5. UNCHANGED <<turnVars, turns, exitVars, channelVars, actorVars, historyVars>>
    BY <1>4 DEF Notice, loopElse, harnessVars
  <2> QED
    BY <2>4, <2>5, TypesStay DEF turnVars, exitVars, Typing
<1>5. CASE Handles
  <2>1. /\ Carries \/ OpensOne \/ EndsOne \/ SubagentOutput
        /\ UNCHANGED <<loopElse, stdout, historyVars>>
        /\ rd' = Idle /\ rd.m.k # "none" /\ rd \in InHand
    BY <1>5, Handled
  <2>2. rd.turn \in Turns \cup {None} /\ rd.m.n \in Nat
    BY <2>1, Noticed
  <2>3. turns' = turns /\ turns \in Nat /\ turnID \in Turns \cup {None}
          /\ owner \in Turns \cup {None}
    BY <2>1 DEF loopElse, harnessVars, Typing, TurnTypes, HarnessTypes
  <2>4. \A t \in Turns, k \in {"started", "finished", "chunk", "injected", "aside"} :
          Event(k, t) \in Emissions
    BY DEF Event, Emissions
  <2>5. CASE OpensOne
    <3>1. /\ minted' \in Nat /\ minted' \in Turns' /\ minted' \notin Turns
          /\ Turns' = Turns \cup {minted'} /\ InHand \subseteq InHand'
          /\ \A s \in Seq(Emissions) : s \in Seq(Emissions')
          /\ \A s \in Seq(Turns) : s \in Seq(Turns')
      BY <2>5, TurnsGrow DEF OpensOne
    <3>2. ReaderTypes'
      <4>1. \A k \in {"started", "chunk", "injected"} : Event(k, minted') \in Emissions'
        BY <3>1 DEF Emissions, Event
      <4>2. outbox' \in Seq(Emissions')
        BY <2>5, <4>1, Few DEF OpensOne
      <4> QED
        BY <2>1, <4>2 DEF loopElse, exitVars, Typing, ReaderTypes
    <3>3. TurnTypes'
      <4>1. serverTurnID' \in 0..turns
        BY <2>2, <2>3, <2>5 DEF OpensOne, BoundsOK
      <4> QED
        BY <2>3, <2>5, <3>1, <4>1 DEF OpensOne, Typing, TurnTypes
    <3>4. HarnessTypes'
      BY <2>1 DEF loopElse, harnessVars, Typing, HarnessTypes
    <3>5. WatchTypes' /\ ChannelTypes' /\ HistoryTypes' /\ CallTypes'
      BY <2>1, <3>1 DEF loopElse, exitVars, channelVars, historyVars, actorVars, Typing, WatchTypes,
         ChannelTypes, HistoryTypes, CallTypes
    <3> QED
      BY <3>2, <3>3, <3>4, <3>5 DEF Typing
  <2>6. CASE Carries \/ EndsOne \/ SubagentOutput
    <3>1. /\ minted' = minted /\ turnID' \in {turnID, None} /\ owner' \in {owner, rd.turn}
          /\ serverTurnID' \in {serverTurnID, 0, rd.m.n} /\ interrupting' \in {interrupting, FALSE}
      BY <2>6 DEF Carries, EndsOne, SubagentOutput, Ends, AfterEnd, nameVars
    <3>2. outbox' = <<>> \/ \E e \in Emissions : outbox' = <<e>>
      BY <2>2, <2>3, <2>4, <2>6 DEF Carries, EndsOne, Ends, SubagentOutput, Spawning, Finish
    <3>3. outbox' \in Seq(Emissions)
      BY <3>2, Few, EmptySeq
    <3>4. ReaderTypes'
      BY <2>1, <3>1, <3>3, TurnsStay DEF loopElse, exitVars, Typing, ReaderTypes
    <3>5. TurnTypes'
      <4>1. serverTurnID' \in 0..turns'
        BY <2>2, <2>3, <3>1 DEF Typing, TurnTypes, BoundsOK
      <4>2. interrupting' \in BOOLEAN
        BY <3>1 DEF Typing, TurnTypes
      <4> QED
        BY <2>2, <2>3, <3>1, <4>1, <4>2, TurnsStay DEF Typing, TurnTypes
    <3> QED
      BY <2>1, <3>1, <3>4, <3>5, TypesStay DEF loopElse, exitVars, Typing
  <2> QED
    BY <2>1, <2>5, <2>6
<1>6. CASE StaleCompletion
  <2>1. UNCHANGED <<kind, harnessVars, stdout, turnVars, exitVars, channelVars, actorVars,
                    historyVars, outbox>>
    BY <1>6 DEF StaleCompletion, loopElse
  <2>2. rd \in InHand /\ rd' \in {Idle, [rd EXCEPT !.go = TRUE]}
    BY <1>6, Noticed DEF StaleCompletion
  <2>3. rd' \in InHand \cup {Idle}
    BY <2>2 DEF InHand
  <2>4. ReaderTypes'
    BY <2>1, <2>3, TurnsStay DEF turnVars, exitVars, Typing, ReaderTypes
  <2> QED
    BY <2>1, <2>4, TypesStay DEF turnVars, exitVars, harnessVars, Typing
<1>7. CASE LoopEmits
  <2>1. Head(outbox) \in Emissions /\ Tail(outbox) \in Seq(Emissions)
    BY <1>7, Parts DEF LoopEmits, Typing, ReaderTypes
  <2>2. minted' = minted
    BY <1>7 DEF LoopEmits, turnVars
  <2>3. ReaderTypes' /\ ChannelTypes' /\ HistoryTypes'
    BY <1>7, <2>1, <2>2, TurnsStay, Emitted DEF LoopEmits, exitVars, Typing, ReaderTypes,
       ChannelTypes, HistoryTypes
  <2>4. UNCHANGED <<kind, harnessVars, stdout, turnVars, turns, watcher, lost, actorVars>>
    BY <1>7 DEF LoopEmits, exitVars, harnessVars
  <2> QED
    BY <2>2, <2>3, <2>4, TypesStay DEF Typing
<1>8. CASE LoopEnds \/ WatchTakes \/ WatchCloses
  <2>1. /\ minted' = minted
        /\ UNCHANGED <<kind, harnessVars, stdout, turns, readVars, actorVars, historyVars, owner>>
    BY <1>8 DEF LoopEnds, WatchTakes, WatchCloses, turnVars, harnessVars
  <2>2. TurnTypes' /\ WatchTypes'
    <3>1. /\ turnID' \in {turnID, None} /\ serverTurnID' \in {serverTurnID, 0}
          /\ interrupting' \in BOOLEAN /\ lost' \in {lost, turnID}
      BY <1>8 DEF LoopEnds, WatchTakes, WatchCloses, turnVars, nameVars, Typing, TurnTypes
    <3>2. TurnTypes'
      BY <2>1, <3>1, TurnsStay DEF Typing, TurnTypes, HarnessTypes
    <3>3. /\ watcher' \in {"wait", "emit", "close", "done"}
          /\ watcher' = "emit" => lost' # None
      BY <1>8 DEF LoopEnds, WatchTakes, WatchCloses, Typing, WatchTypes
    <3> QED
      BY <2>1, <3>1, <3>2, <3>3, TurnsStay DEF Typing, TurnTypes, WatchTypes
  <2>3. ReaderTypes' /\ ChannelTypes'
    BY <1>8, <2>1, TurnsStay DEF LoopEnds, WatchTakes, WatchCloses, Typing, ReaderTypes,
       ChannelTypes, channelVars, readVars
  <2> QED
    BY <2>1, <2>2, <2>3, TypesStay DEF Typing
<1>9. CASE WatchEmits
  <2>1. Finish(lost) \in Emissions /\ minted' = minted
    BY <1>9 DEF WatchEmits, Typing, WatchTypes, Emissions, Finish, Event, turnVars
  <2>2. WatchTypes' /\ ChannelTypes' /\ HistoryTypes'
    BY <1>9, <2>1, TurnsStay, Emitted DEF WatchEmits, Typing, WatchTypes, ChannelTypes, HistoryTypes
  <2>3. UNCHANGED <<kind, harnessVars, stdout, turnVars, turns, readVars, connDone, actorVars>>
    BY <1>9 DEF WatchEmits, harnessVars
  <2> QED
    BY <2>1, <2>2, <2>3, TypesStay DEF Typing
<1>10. CASE Granted \/ Refused \/ TimesOut
  <2>1. UNCHANGED <<kind, harnessVars, stdout, turns, owner, minted, readVars, exitVars,
                    channelVars, historyVars,
                    calls, used, cancels>> /\ Returns
    BY <1>10 DEF Granted, Refused, TimesOut, Fails, returnElse, harnessVars
  <2>2. /\ turnID' \in {turnID, None} /\ serverTurnID' \in {serverTurnID, answer.n}
        /\ interrupting' \in {interrupting, FALSE} /\ busy' \in {busy, None}
    BY <1>10 DEF Granted, Refused, TimesOut, Fails, Typing, TurnTypes
  <2>3. answer.n \in 0..turns
    BY DEF BoundsOK, Typing, CallTypes, Replies, Silent, HarnessTypes
  <2>4. TurnTypes'
    BY <2>1, <2>2, <2>3, TurnsStay DEF Typing, TurnTypes
  <2>5. CallTypes'
    BY <2>1, <2>2, TurnsStay DEF Typing, CallTypes, Returns, NoCall
  <2> QED
    BY <2>1, <2>4, <2>5, TypesStay DEF exitVars, Typing
<1>11. CASE HandleEvent \/ HandleExit
  <2>1. /\ UNCHANGED <<kind, harnessVars, stdout, turnVars, minted, turns, readVars, exitVars,
                       historyVars>>
        /\ UNCHANGED <<call, calls, answer, used, cancels, eventsClosed, closed>>
        /\ doing' \in {doing, "gone"}
    BY <1>11 DEF HandleEvent, HandleExit, harnessVars, channelVars, turnVars
  <2>2. /\ busy' \in Turns \cup {None} /\ events' \in Seq(Emissions) /\ Len(events') <= Room
    <3>1. CASE HandleEvent
      <4>1. Head(events) \in Emissions /\ Tail(events) \in Seq(Emissions)
            /\ Len(Tail(events)) = Len(events) - 1 /\ Len(events) \in Nat
        BY <3>1, Parts DEF HandleEvent, Typing, ChannelTypes
      <4>2. Head(events).turn \in Turns
        BY <4>1 DEF Emissions
      <4>3. busy' \in {busy, None, Head(events).turn} /\ events' = Tail(events)
        BY <3>1 DEF HandleEvent
      <4> QED
        BY <4>1, <4>2, <4>3, CallConstants DEF Typing, CallTypes, ChannelTypes
    <3>2. CASE HandleExit
      BY <3>2 DEF HandleExit, channelVars, Typing, ChannelTypes
    <3> QED
      BY <1>11, <3>1, <3>2
  <2>3. CallTypes' /\ ChannelTypes'
    BY <2>1, <2>2, TurnsStay DEF Typing, CallTypes, ChannelTypes
  <2> QED
    BY <2>1, <2>3, TypesStay DEF exitVars, Typing
<1>12. CASE Close
  <2>1. UNCHANGED <<kind, turns, stdout, home, extras, turnVars, minted, readVars, exitVars,
                    events, eventsClosed,
                    historyVars>>
    BY <1>12 DEF Close, turnVars
  <2>2. HarnessTypes' /\ CallTypes' /\ ChannelTypes'
    BY <1>12, <2>1, EmptySeq, TurnsStay DEF Close, Typing, HarnessTypes, CallTypes, ChannelTypes
  <2> QED
    BY <2>1, <2>2, TypesStay DEF exitVars, Typing
<1>13. ASSUME NEW what \in {"begin", "steer", "cancel"}, NEW k \in {"prompt", "action", "stop"},
              NEW b \in Inputs \cup {None}, NEW n \in Nat, k = "stop" <=> what = "cancel",
              what # "cancel" => b \in Inputs,
              Calls(what, k, b, n) \/ UNCHANGED <<doing, call, calls, answer, stdin>>,
              UNCHANGED <<askElse, serverTurnID>>,
              turnID' \in Turns \cup {None}, interrupting' \in BOOLEAN, busy' \in Turns \cup {None},
              opened' \subseteq Turns, used' \subseteq Inputs, cancels' \in Nat
       PROVE  Typing'
  <2>1. /\ stdin' \in Seq(Requests) /\ doing' \in {"loop", "calling", "gone"} /\ calls' \in Nat
        /\ call' \in [what : {"none", "begin", "steer", "cancel"}, by : Inputs \cup {None},
                      n : Nat, c : Nat]
        /\ answer' \in Replies \cup {Silent}
    <3>1. CASE Calls(what, k, b, n)
      BY <1>13, <3>1, Called
    <3>2. CASE UNCHANGED <<doing, call, calls, answer, stdin>>
      BY <3>2 DEF Typing, HarnessTypes, CallTypes
    <3> QED
      BY <1>13, <3>1, <3>2
  <2>2. minted' = minted /\ UNCHANGED <<turns, exitVars, readVars, channelVars>>
    BY <1>13 DEF askElse
  <2>3. HarnessTypes'
    BY <1>13, <2>1 DEF askElse, Typing, HarnessTypes
  <2>4. CallTypes'
    BY <1>13, <2>1, <2>2, TurnsStay DEF askElse, Typing, CallTypes
  <2>5. TurnTypes'
    BY <1>13, <2>2, TurnsStay DEF askElse, Typing, TurnTypes
  <2>6. HistoryTypes'
    BY <1>13, <2>2, TurnsStay DEF askElse, Typing, HistoryTypes
  <2> QED
    BY <2>2, <2>3, <2>4, <2>5, <2>6, TypesStay DEF exitVars, Typing
<1>14. /\ turnID \in Turns \cup {None} /\ interrupting \in BOOLEAN /\ busy \in Turns \cup {None}
       /\ opened \subseteq Turns /\ used \subseteq Inputs /\ cancels \in Nat /\ serverTurnID \in Nat
  BY DEF Typing, TurnTypes, CallTypes, HistoryTypes, HarnessTypes
<1>15. ASSUME NEW t \in Prompts \cup Actions, BeginTurn(t)
       PROVE  Typing'
  <2>1. t \in Turns /\ t \in Inputs
    BY DEF Turns, Inputs
  <2>2. /\ \/ Calls("begin", "prompt", t, 0) \/ Calls("begin", "action", t, 0)
           \/ UNCHANGED <<doing, call, calls, answer, stdin>>
        /\ UNCHANGED <<askElse, nameVars, cancels>> /\ used' = used \cup {t}
        /\ turnID' \in {turnID, t} /\ busy' \in {busy, t} /\ opened' \in {opened, opened \cup {t}}
    BY <1>15 DEF BeginTurn
  <2>3. UNCHANGED <<askElse, serverTurnID, interrupting, cancels>>
    BY <2>2 DEF nameVars
  <2>4. \/ Calls("begin", "prompt", t, 0) \/ UNCHANGED <<doing, call, calls, answer, stdin>>
             => Typing'
    BY <1>13, <1>14, <2>1, <2>2, <2>3
  <2>5. Calls("begin", "action", t, 0) => Typing'
    BY <1>13, <1>14, <2>1, <2>2, <2>3
  <2> QED
    BY <2>2, <2>4, <2>5
<1>16. ASSUME NEW q \in Steers, Steer(q)
       PROVE  Typing'
  <2>1. q \in Inputs
    BY DEF Inputs
  <2>2. /\ Calls("steer", "prompt", q, 0) \/ UNCHANGED <<doing, call, calls, answer, stdin>>
        /\ UNCHANGED <<askElse, turnID, nameVars, busy, opened, cancels>> /\ used' = used \cup {q}
    BY <1>16 DEF Steer
  <2>3. UNCHANGED <<askElse, turnID, serverTurnID, interrupting, busy, opened, cancels>>
    BY <2>2 DEF nameVars
  <2> QED
    BY <1>13, <1>14, <2>1, <2>2, <2>3
<1>17. CASE CodexCancel
  <2>1. /\ Calls("cancel", "stop", None, serverTurnID)
             \/ UNCHANGED <<doing, call, calls, answer, stdin>>
        /\ UNCHANGED <<askElse, turnID, serverTurnID, busy, used, opened>> /\ cancels' = cancels + 1
        /\ interrupting' \in BOOLEAN
    BY <1>14, <1>17 DEF CodexCancel
  <2> QED
    BY <1>13, <1>14, <2>1
<1>18. CASE PiCancel
  <2>1. /\ Calls("cancel", "stop", None, 0) \/ UNCHANGED <<doing, call, calls, answer, stdin>>
        /\ UNCHANGED <<askElse, turnID, nameVars, busy, used, opened>> /\ cancels' = cancels + 1
    BY <1>18 DEF PiCancel
  <2>2. UNCHANGED <<askElse, turnID, serverTurnID, interrupting, busy, used, opened>>
    BY <2>1 DEF nameVars
  <2> QED
    BY <1>13, <1>14, <2>1, <2>2
<1>19. CASE UNCHANGED sessionVars
  BY <1>19, TypesStay DEF sessionVars, turnVars, exitVars, harnessVars, Typing
<1> QED
  BY <1>1, <1>2, <1>3, <1>4, <1>5, <1>6, <1>7, <1>8, <1>9, <1>10, <1>11, <1>12, <1>15, <1>16, <1>17,
     <1>18, <1>19 DEF SessionNext, ReadsOn, Handles, Watch, Answers, Asks

\* What is read is no longer in the pipe.
LEMMA ReadOff ==
  ASSUME Typing, stdout # <<>>, stdout' = Tail(stdout)
  PROVE  /\ Len(stdout) \in Nat \ {0} /\ DOMAIN stdout = 1..Len(stdout)
         /\ Len(stdout') = Len(stdout) - 1 /\ DOMAIN stdout' = 1..(Len(stdout) - 1)
         /\ \A i \in 1..(Len(stdout) - 1) : stdout'[i] = stdout[i + 1]
         /\ Head(stdout) = stdout[1] /\ stdout[1] \in Frames
<1>1. /\ Len(stdout) \in Nat \ {0} /\ DOMAIN stdout = 1..Len(stdout)
      /\ Len(stdout') = Len(stdout) - 1
      /\ \A i \in 1..(Len(stdout) - 1) : stdout'[i] = stdout[i + 1]
      /\ Head(stdout) = stdout[1] /\ stdout[1] \in Frames /\ stdout' \in Seq(Frames)
  BY Parts DEF Typing, HarnessTypes
<1> QED
  BY <1>1, LenProperties

\* The read loop takes the first message: a reply for who waits for it, or a notice.
Takes ==
  /\ stdout # <<>> /\ stdout' = Tail(stdout) /\ rd = Idle /\ outbox = <<>>
  /\ \/ rd' = Idle /\ Head(stdout).k \in {"reply", "refusal"}
     \/ rd'.m = Head(stdout) /\ rd' # Idle /\ Head(stdout).k \notin {"reply", "refusal"}
  /\ answer' = answer
       \/ (answer' = Head(stdout) /\ rd' = Idle /\ doing = "calling" /\ call.c = Head(stdout).by)
  /\ UNCHANGED <<kind, harnessVars, turnVars, outbox, exitVars, channelVars, doing, call, calls,
                 busy, used,
                 cancels, historyVars>>
\* Everybody else leaves the pipe alone.
Leaves ==
  /\ UNCHANGED <<stdout, turns, kind>> /\ rd'.m \in {rd.m, Silent}
  /\ alive' => running' = running /\ alive
  /\ answer' \in {answer, Silent, Refusal(calls')}

LEMMA PipeMoves ==
  ASSUME Typing, PiOK, [SessionNext]_sessionVars
  PROVE  /\ ReadReply \/ Notice => Takes
         /\ ~(Harness /\ ~Die) /\ ~(ReadReply \/ Notice) => Leaves
<1>1. Idle.m = Silent /\ Silent.k = "none"
  BY DEF Idle, Silent
<1>2. ReadReply => Takes
  BY DEF ReadReply, Takes, readVars
<1>3. Notice => Takes
  <2> SUFFICES ASSUME Notice PROVE Takes
    OBVIOUS
  <2>1. stdout[1] \in Frames /\ Head(stdout) = stdout[1]
    BY ReadOff DEF Notice
  <2>2. Head(stdout).k # "none"
    BY <2>1 DEF Frames, Notices, Replies
  <2>3. rd'.m = Head(stdout) /\ rd' # Idle
    BY <1>1, <2>2 DEF Notice
  <2> QED
    BY <2>3 DEF Notice, Takes, loopElse, actorVars
<1>4. Die \/ Close => Leaves
  BY DEF Die, Close, Leaves, harnessElse, readVars, actorVars
<1>5. Handles => Leaves
  <2> SUFFICES ASSUME Handles PROVE Leaves
    OBVIOUS
  <2>1. UNCHANGED <<loopElse, stdout>> /\ rd' = Idle
    BY Handled
  <2> QED
    BY <1>1, <2>1 DEF Leaves, loopElse, harnessVars, actorVars
<1>6. StaleCompletion => Leaves
  <2> SUFFICES ASSUME StaleCompletion PROVE Leaves
    OBVIOUS
  <2>1. rd \in InHand
    BY Noticed DEF StaleCompletion
  <2>2. [rd EXCEPT !.go = TRUE].m = rd.m
    BY <2>1 DEF InHand
  <2>3. UNCHANGED <<loopElse, stdout>> /\ rd'.m \in {rd.m, Silent}
    BY <1>1, <2>2 DEF StaleCompletion
  <2> QED
    BY <2>3 DEF Leaves, loopElse, harnessVars, actorVars
<1>7. LoopEmits \/ LoopEnds \/ Watch => Leaves
  BY DEF LoopEmits, LoopEnds, Watch, WatchTakes, WatchEmits, WatchCloses, Leaves, harnessVars,
     actorVars, readVars
<1>8. Answers => Leaves
  BY DEF Answers, Granted, Refused, TimesOut, HandleEvent, HandleExit, Fails, Returns, returnElse,
     Leaves, harnessVars, actorVars, readVars
<1>9. (\E t \in Prompts \cup Actions : BeginTurn(t)) \/ (\E q \in Steers : Steer(q)) \/ CodexCancel
        \/ PiCancel => Leaves
  <2> SUFFICES ASSUME \/ (\E t \in Prompts \cup Actions : BeginTurn(t))
                           \/ (\E q \in Steers : Steer(q))
                      \/ CodexCancel \/ PiCancel
               PROVE  Leaves
    OBVIOUS
  <2>1. UNCHANGED askElse /\ doing = "loop"
    BY DEF BeginTurn, Steer, CodexCancel, PiCancel
  <2>2. \A what, k, b, n : Calls(what, k, b, n) => answer' \in {Silent, Refusal(calls')}
    BY DEF Calls
  <2>3. answer' \in {answer, Silent, Refusal(calls')}
    BY <2>2 DEF BeginTurn, Steer, CodexCancel, PiCancel
  <2>4. UNCHANGED <<stdout, turns, kind, rd, running, alive>>
    BY <2>1 DEF askElse, readVars
  <2>5. alive' => alive
    BY <2>4
  <2> QED
    BY <2>3, <2>4, <2>5 DEF Leaves
<1>10. UNCHANGED sessionVars => Leaves
  BY DEF sessionVars, harnessVars, readVars, actorVars, Leaves
<1> QED
  BY <1>2, <1>3, <1>4, <1>5, <1>6, <1>7, <1>8, <1>9, <1>10
     DEF SessionNext, ReadsOn, Handles, Asks

\* No message, and no answer, is about a turn to come.
LEMMA BoundsStep ==
  ASSUME Typing, BoundsOK, PiOK, [SessionNext]_sessionVars
  PROVE  BoundsOK'
<1>1. turns \in Nat /\ Len(stdout) \in Nat /\ DOMAIN stdout = 1..Len(stdout)
  BY LenProperties DEF Typing, HarnessTypes
<1>2. \A i \in DOMAIN stdout : stdout[i].n \in Nat
  <2>1. \A i \in DOMAIN stdout : stdout[i] \in Frames
    BY ElementOfSeq DEF Typing, HarnessTypes
  <2> QED
    BY <2>1 DEF Frames, Notices, Replies
<1>3. Silent.n = 0 /\ Idle.m = Silent /\ \A c : Refusal(c).n = 0
  BY DEF Silent, Idle, Refusal
<1>4. rd.m.n \in Nat /\ answer.n \in Nat
  BY <1>3 DEF Typing, ReaderTypes, CallTypes, InHand, Notices, Replies
<1>5. CASE Harness /\ ~Die
  <2>1. Adds /\ Runs /\ UNCHANGED <<rd, answer>>
    BY <1>5, Speaks DEF harnessElse, readVars, actorVars
  <2>2. DOMAIN stdout' = 1..Len(stdout') /\ Len(stdout') \in Nat
    BY <2>1, LenProperties DEF Adds
  <2>3. \A i \in DOMAIN stdout' : i \in DOMAIN stdout \/ i \in New
    BY <1>1, <2>1, <2>2 DEF Adds, New
  <2>4. \A i \in DOMAIN stdout : stdout'[i].n <= turns'
    BY <1>1, <1>2, <2>1 DEF Adds, Runs, BoundsOK
  <2> QED
    BY <1>1, <1>4, <2>1, <2>3, <2>4 DEF Adds, Runs, BoundsOK
<1>6. CASE ReadReply \/ Notice
  <2>1. Takes /\ turns' = turns
    BY <1>6, PipeMoves DEF Takes, harnessVars
  <2>2. /\ Len(stdout) \in Nat \ {0} /\ DOMAIN stdout' = 1..(Len(stdout) - 1)
        /\ Head(stdout) = stdout[1]
        /\ \A i \in 1..(Len(stdout) - 1) : stdout'[i] = stdout[i + 1]
    BY <2>1, ReadOff DEF Takes
  <2>3. stdout[1].n <= turns /\ \A i \in DOMAIN stdout' : stdout'[i].n <= turns
    <3>1. 1 \in DOMAIN stdout /\ \A i \in DOMAIN stdout' : i + 1 \in DOMAIN stdout
      BY <1>1, <2>2
    <3> QED
      BY <2>2, <3>1 DEF BoundsOK
  <2> QED
    BY <1>1, <1>3, <2>1, <2>2, <2>3 DEF BoundsOK, Takes
<1>7. CASE ~(Harness /\ ~Die) /\ ~(ReadReply \/ Notice)
  BY <1>1, <1>3, <1>7, PipeMoves DEF Leaves, BoundsOK
<1> QED
  BY <1>5, <1>6, <1>7

\* Pi's turns stay without names, and its session without subagents.
LEMMA PiStep ==
  ASSUME Typing, PiOK, [SessionNext]_sessionVars
  PROVE  PiOK'
<1> SUFFICES ASSUME kind' = "pi" PROVE PiOK'
  BY DEF PiOK
<1>1. Len(stdout) \in Nat /\ DOMAIN stdout = 1..Len(stdout)
  BY LenProperties DEF Typing, HarnessTypes
<1>2. Silent.k = "none" /\ Idle.m = Silent
  BY DEF Silent, Idle
<1>3. CASE Harness /\ ~Die
  <2>1. Adds /\ UNCHANGED <<rd, kind, turnVars>>
    BY <1>3, Speaks DEF harnessElse, readVars
  <2>2. DOMAIN stdout' = 1..Len(stdout') /\ Len(stdout') \in Nat
    BY <2>1, LenProperties DEF Adds
  <2>3. \A i \in DOMAIN stdout' : i \in DOMAIN stdout \/ i \in New
    BY <1>1, <2>1, <2>2 DEF Adds, New
  <2> QED
    BY <1>1, <2>1, <2>3 DEF Adds, PiOK, turnVars, nameVars
<1>4. CASE ReadReply \/ Notice
  <2>1. Takes
    BY <1>4, PipeMoves
  <2>2. /\ Len(stdout) \in Nat \ {0} /\ DOMAIN stdout' = 1..(Len(stdout) - 1)
        /\ Head(stdout) = stdout[1]
        /\ \A i \in 1..(Len(stdout) - 1) : stdout'[i] = stdout[i + 1]
    BY <2>1, ReadOff DEF Takes
  <2>3. kind = "pi" /\ UNCHANGED turnVars
    BY <2>1 DEF Takes
  <2>4. stdout[1].k # "sub" /\ \A i \in DOMAIN stdout' : stdout'[i].k # "sub"
    BY <1>1, <2>2, <2>3 DEF PiOK
  <2> QED
    BY <1>2, <2>1, <2>2, <2>3, <2>4 DEF PiOK, Takes, turnVars, nameVars
<1>5. CASE ~(Harness /\ ~Die) /\ ~(ReadReply \/ Notice)
  <2>1. Leaves
    BY <1>5, PipeMoves
  <2>2. kind = "pi"
    BY <2>1 DEF Leaves
  <2>3. serverTurnID' = 0 /\ ~interrupting' /\ owner' = None
    <3>1. CASE Handles
      <4>1. Carries \/ OpensOne \/ EndsOne
        BY <2>2, <3>1, Handled DEF PiOK, SubagentOutput
      <4> QED
        BY <2>2, <4>1 DEF PiOK, Carries, OpensOne, EndsOne, Ends
    <3>2. CASE UNCHANGED <<serverTurnID, interrupting, owner>>
      BY <2>2, <3>2 DEF PiOK
    <3>3. CASE WatchTakes
      BY <2>2, <3>3 DEF WatchTakes, PiOK
    <3>4. CASE Granted \/ Refused \/ TimesOut
      <4>1. UNCHANGED <<serverTurnID, owner>>
        BY <2>2, <3>4 DEF Granted, Refused, TimesOut, Fails, returnElse
      <4>2. ~interrupting => ~interrupting'
        BY <3>4 DEF Granted, Refused, TimesOut, Fails
      <4> QED
        BY <2>2, <4>1, <4>2 DEF PiOK
    <3>5. Die \/ StaleCompletion \/ LoopEmits \/ LoopEnds \/ WatchEmits \/ WatchCloses
            \/ HandleEvent
            \/ HandleExit \/ Close => UNCHANGED <<serverTurnID, interrupting, owner>>
      BY DEF Die, StaleCompletion, LoopEmits, LoopEnds, WatchEmits, WatchCloses, HandleEvent,
         HandleExit, Close, harnessElse, turnVars, nameVars
    <3>6. (\E t \in Prompts \cup Actions : BeginTurn(t)) \/ (\E q \in Steers : Steer(q)) \/ PiCancel
            => UNCHANGED <<serverTurnID, interrupting, owner>>
      BY DEF BeginTurn, Steer, PiCancel, askElse, nameVars
    <3>7. ~CodexCancel
      BY <2>2 DEF CodexCancel
    <3>8. UNCHANGED sessionVars => UNCHANGED <<serverTurnID, interrupting, owner>>
      BY DEF sessionVars, turnVars, nameVars
    <3> QED
      BY <1>5, <3>1, <3>2, <3>3, <3>4, <3>5, <3>6, <3>7, <3>8
         DEF SessionNext, ReadsOn, Handles, Watch, Answers, Asks
  <2> QED
    BY <1>2, <2>1, <2>2, <2>3 DEF Leaves, PiOK
<1> QED
  BY <1>3, <1>4, <1>5

\* A process that has gone says nothing more, and its watcher takes what is left.
LEMMA ExitStep ==
  ASSUME Typing, PiOK, ExitOK, [SessionNext]_sessionVars
  PROVE  ExitOK'
<1>1. CASE Harness /\ ~Die
  <2>1. alive
    BY <1>1 DEF Harness, Serves, StartsTurn, Stops, Reads, SelfStart, Output, Completes, Strays,
       SubSpeaks
  <2>2. UNCHANGED <<alive, harnessElse>>
    BY <1>1, Speaks
  <2> QED
    BY <2>1, <2>2 DEF ExitOK, harnessElse, readVars, exitVars, channelVars, actorVars
<1>2. CASE Die
  BY <1>2 DEF Die, ExitOK, harnessElse, readVars, exitVars, channelVars, actorVars
<1>3. CASE ReadReply \/ Notice
  <2>1. Takes
    BY <1>3, PipeMoves
  <2> QED
    BY <2>1 DEF Takes, ExitOK, harnessVars, exitVars, channelVars
<1>4. CASE Handles \/ StaleCompletion
  <2>1. /\ UNCHANGED <<loopElse, stdout>> /\ rd # Idle
        /\ rd' = Idle \/ outbox' = outbox
    <3>1. Handles => /\ UNCHANGED <<loopElse, stdout>> /\ rd' = Idle /\ rd.m.k # "none"
      BY Handled
    <3>2. StaleCompletion => UNCHANGED <<loopElse, stdout, outbox>> /\ rd.m.k # "none"
      BY DEF StaleCompletion
    <3> QED
      BY <1>4, <3>1, <3>2, Noticed
  <2> QED
    BY <2>1 DEF ExitOK, loopElse, harnessVars, exitVars, channelVars, actorVars
<1>5. CASE LoopEmits
  BY <1>5 DEF LoopEmits, ExitOK, harnessVars, exitVars, actorVars
<1>6. CASE LoopEnds \/ Watch
  BY <1>6 DEF LoopEnds, Watch, WatchTakes, WatchEmits, WatchCloses, ExitOK, harnessVars, readVars,
     channelVars, actorVars
<1>7. CASE Granted \/ Refused \/ TimesOut
  BY <1>7 DEF Granted, Refused, TimesOut, Fails, Returns, returnElse, ExitOK, harnessVars, readVars,
     exitVars, channelVars
<1>8. CASE HandleEvent \/ HandleExit
  BY <1>8 DEF HandleEvent, HandleExit, ExitOK, harnessVars, readVars, exitVars, channelVars
<1>9. CASE Close
  BY <1>9 DEF Close, ExitOK, readVars, exitVars
<1>10. CASE (\E t \in Prompts \cup Actions : BeginTurn(t)) \/ (\E q \in Steers : Steer(q))
              \/ CodexCancel
             \/ PiCancel
  <2>1. UNCHANGED <<askElse>> /\ doing = "loop" /\ (~alive => stdin' = stdin)
    BY <1>10 DEF BeginTurn, Steer, CodexCancel, PiCancel, Calls
  <2> QED
    BY <2>1 DEF ExitOK, askElse, readVars, exitVars, channelVars
<1>11. CASE UNCHANGED sessionVars
  BY <1>11 DEF ExitOK, sessionVars, harnessVars, readVars, exitVars, channelVars, actorVars
<1> QED
  BY <1>1, <1>2, <1>3, <1>4, <1>5, <1>6, <1>7, <1>8, <1>9, <1>10, <1>11
     DEF SessionNext, ReadsOn, Handles, Answers, Asks

-----------------------------------------------------------------------------
(* The turns.                                                               *)

\* What the read loop has still to emit opens its turn first, and the turn it opens is
\* the session's until that is out; an end is alone.
OutboxOK ==
  \A i \in DOMAIN outbox :
    /\ outbox[i].k = "started" =>
         i = 1 /\ outbox[i].turn = minted /\ turnID = minted /\ minted # 0 /\ minted \notin opened
    /\ outbox[i].k = "finished" => i = 1 /\ Len(outbox) = 1

\* What the actor's call is about.
CallOK ==
  /\ opened \cap (Prompts \cup Actions) \subseteq used
  /\ doing = "calling" =>
       /\ call.what \in {"begin", "steer", "cancel"}
       /\ call.what = "begin" => call.by \in Prompts \cup Actions
       /\ call.by \in Prompts => call.what = "begin"

\* Somebody is about to end the turn t.
Ended == {stream[i] : i \in DOMAIN stream}
Unannounced(t) == \E i \in DOMAIN outbox : outbox[i].k = "started" /\ outbox[i].turn = t
ReaderHas(t) == \E i \in DOMAIN outbox : outbox[i].k = "finished" /\ outbox[i].turn = t
WatchHas(t) == watcher = "emit" /\ lost = t
OnceOK ==
  ~closed =>
    /\ turnID # None => /\ turnID \in opened \/ Unannounced(turnID)
                        /\ turnID \notin Ended /\ ~ReaderHas(turnID) /\ ~WatchHas(turnID)
    /\ \A t \in Turns : ReaderHas(t) \/ WatchHas(t) => t \in opened \ Ended
    /\ Ended \subseteq opened

\* What a subagent says goes to its owner.
AsideOK ==
  /\ \A t \in asides : t = owner
  /\ \A i \in DOMAIN outbox : outbox[i].k = "aside" => outbox[i].turn = owner

TurnInv == Typing /\ BoundsOK /\ ExitOK /\ PiOK /\ OutboxOK /\ CallOK /\ OnceOK /\ AsideOK

\* What an emission opens and ends.
LEMMA EmittedEnds ==
  ASSUME Typing, NEW e \in Emissions, Emit(e)
  PROVE  \/ (closed \/ eventsClosed) /\ UNCHANGED historyVars /\ Ended' = Ended
         \/ /\ ~closed /\ ~eventsClosed
            /\ opened' = IF e.k = "started" THEN opened \cup {e.turn} ELSE opened
            /\ Ended' = IF e.k = "finished" THEN Ended \cup {e.turn} ELSE Ended
            /\ stream' = IF e.k = "finished" THEN Append(stream, e.turn) ELSE stream
            /\ asides' = IF e.k = "aside" THEN asides \cup {e.turn} ELSE asides
<1>1. e.turn \in Turns /\ stream \in Seq(Turns)
  BY DEF Emissions, Typing, HistoryTypes
<1>2. stream' = stream => Ended' = Ended
  BY DEF Ended
<1>3. stream' = Append(stream, e.turn) => Ended' = Ended \cup {e.turn}
  <2> SUFFICES ASSUME stream' = Append(stream, e.turn) PROVE Ended' = Ended \cup {e.turn}
    OBVIOUS
  <2>1. /\ DOMAIN stream = 1..Len(stream) /\ DOMAIN stream' = 1..(Len(stream) + 1)
        /\ Len(stream) \in Nat
        /\ \A i \in 1..Len(stream) : stream'[i] = stream[i]
        /\ stream'[Len(stream) + 1] = e.turn
    BY <1>1, Longer, LenProperties
  <2> QED
    BY <2>1 DEF Ended
<1> QED
  BY <1>2, <1>3, Emitted DEF Recorded, historyVars

\* The steps of the actor's calls, and what they leave alone.
LEMMA CallsBegin ==
  ASSUME Typing, (\E t \in Prompts \cup Actions : BeginTurn(t)) \/ (\E q \in Steers : Steer(q))
                   \/ CodexCancel \/ PiCancel
  PROVE  /\ UNCHANGED askElse /\ doing = "loop" /\ used \subseteq used'
         /\ \/ UNCHANGED <<turnID, serverTurnID, opened>>
            \/ /\ turnID = None /\ UNCHANGED serverTurnID
               /\ \E t \in (Prompts \cup Actions) \ used :
                    turnID' = t /\ opened' = opened \cup {t} /\ t \in used'
<1>1. CASE \E t \in Prompts \cup Actions : BeginTurn(t)
  <2>1. PICK t \in Prompts \cup Actions : BeginTurn(t)
    BY <1>1
  <2> QED
    BY <2>1 DEF BeginTurn, Accepts, nameVars
<1>2. CASE (\E q \in Steers : Steer(q)) \/ CodexCancel \/ PiCancel
  BY <1>2 DEF Steer, CodexCancel, PiCancel, nameVars
<1> QED
  BY <1>1, <1>2

\* What most steps leave alone.
Quiet == UNCHANGED <<outbox, minted, turnID, opened, stream, watcher, lost, closed, owner, asides>>
LEMMA Elsewhere ==
  ASSUME Typing, PiOK
  PROVE  /\ Harness => Quiet /\ UNCHANGED actorVars
         /\ ReadReply \/ Notice => Quiet /\ UNCHANGED <<doing, call, used>>
         /\ StaleCompletion => Quiet /\ UNCHANGED actorVars
         /\ LoopEnds => Quiet /\ UNCHANGED actorVars
         /\ WatchCloses
              => UNCHANGED <<outbox, minted, turnID, opened, stream, lost, closed, owner, asides>>
                           /\ watcher' # "emit" /\ watcher # "emit" /\ UNCHANGED actorVars
         /\ HandleEvent \/ HandleExit
              => Quiet /\ UNCHANGED <<call, used>> /\ (doing' = doing \/ doing' = "gone")
         /\ UNCHANGED sessionVars => Quiet /\ UNCHANGED actorVars
<1>1. Harness => Quiet /\ UNCHANGED actorVars
  <2>1. Harness /\ ~Die => UNCHANGED harnessElse
    BY Speaks
  <2>2. Die => UNCHANGED harnessElse
    BY DEF Die
  <2> QED
    BY <2>1, <2>2 DEF harnessElse, Quiet, turnVars, readVars, exitVars, channelVars, historyVars
<1>2. ReadReply \/ Notice => Quiet /\ UNCHANGED <<doing, call, used>>
  BY PipeMoves DEF Takes, Quiet, turnVars, exitVars, channelVars, historyVars, ReadReply, Notice,
     loopElse, readVars, actorVars
<1>3. /\ StaleCompletion => Quiet /\ UNCHANGED actorVars
      /\ LoopEnds => Quiet /\ UNCHANGED actorVars
  BY DEF StaleCompletion, LoopEnds, Quiet, loopElse, readVars, turnVars, exitVars, channelVars,
     historyVars
<1>4. WatchCloses
        => UNCHANGED <<outbox, minted, turnID, opened, stream, lost, closed, owner, asides>>
                     /\ watcher' # "emit" /\ watcher # "emit" /\ UNCHANGED actorVars
  BY DEF WatchCloses, readVars, turnVars, historyVars
<1>5. HandleEvent \/ HandleExit
        => Quiet /\ UNCHANGED <<call, used>> /\ (doing' = doing \/ doing' = "gone")
  BY DEF HandleEvent, HandleExit, Quiet, readVars, turnVars, exitVars, channelVars, historyVars
<1>6. UNCHANGED sessionVars => Quiet /\ UNCHANGED actorVars
  BY DEF sessionVars, Quiet, readVars, turnVars, exitVars, channelVars, historyVars
<1> QED
  BY <1>1, <1>2, <1>3, <1>4, <1>5, <1>6

\* What is first in the outbox, and what is left when it is out.
LEMMA FirstOut ==
  ASSUME Typing, OutboxOK, LoopEmits
  PROVE  /\ outbox # <<>> /\ outbox[1] \in Emissions /\ outbox[1].turn \in Turns /\ Emit(outbox[1])
         /\ \A t : ReaderHas(t) <=> outbox[1].k = "finished" /\ outbox[1].turn = t
         /\ \A t : Unannounced(t) <=> outbox[1].k = "started" /\ outbox[1].turn = t
         /\ outbox[1].k = "started" => /\ outbox[1].turn = minted /\ turnID = minted
                                       /\ outbox[1].turn \notin opened
         /\ \A i \in DOMAIN outbox' : /\ outbox'[i].k \notin {"started", "finished"}
                                      /\ i + 1 \in DOMAIN outbox /\ outbox'[i] = outbox[i + 1]
         /\ 1 \in DOMAIN outbox
         /\ UNCHANGED <<turnID, minted, owner, watcher, lost, closed, eventsClosed, doing, call,
                        used, connDone>>
<1>1. /\ outbox # <<>> /\ outbox' = Tail(outbox) /\ Emit(Head(outbox))
      /\ UNCHANGED <<turnID, minted, owner, watcher, lost, closed, eventsClosed, doing, call,
                     used, connDone>>
  BY DEF LoopEmits, turnVars, exitVars, actorVars
<1>2. /\ DOMAIN outbox = 1..Len(outbox) /\ Len(outbox) \in Nat \ {0}
      /\ Head(outbox) = outbox[1] /\ Head(outbox) \in Emissions
      /\ Len(Tail(outbox)) = Len(outbox) - 1 /\ Tail(outbox) \in Seq(Emissions)
      /\ \A i \in 1..(Len(outbox) - 1) : Tail(outbox)[i] = outbox[i + 1]
  BY <1>1, Parts DEF Typing, ReaderTypes
<1>3. DOMAIN outbox' = 1..(Len(outbox) - 1)
  BY <1>1, <1>2, LenProperties
<1>4. outbox[1].turn \in Turns
  BY <1>2 DEF Emissions
<1> QED
  BY <1>1, <1>2, <1>3, <1>4 DEF OutboxOK, ReaderHas, Unannounced

\* What may be left on its way opens what the session holds.
LEMMA OutboxStep ==
  ASSUME TurnInv, [SessionNext]_sessionVars
  PROVE  OutboxOK'
<1> USE DEF TurnInv
<1>1. CASE Handles
  <2>1. /\ Carries \/ OpensOne \/ EndsOne \/ SubagentOutput
        /\ UNCHANGED <<loopElse, stdout, historyVars>>
    BY <1>1, Handled
  <2>2. CASE OpensOne
    <3>1. minted' \notin Turns /\ minted' # 0 /\ minted' \in Nat
      BY <2>2, TurnsGrow, TurnsApart DEF OpensOne
    <3>2. minted' \notin opened'
      BY <2>1, <3>1 DEF historyVars, Typing, HistoryTypes
    <3>3. /\ turnID' = minted' /\ Event("started", minted').k = "started"
          /\ Event("started", minted').turn = minted'
          /\ \A k : Event(k, minted').k = k
      BY <2>2 DEF OpensOne, Event
    <3> QED
      BY <2>2, <3>1, <3>2, <3>3 DEF OpensOne, OutboxOK
  <2>3. CASE Carries \/ EndsOne
    BY <2>3 DEF Carries, EndsOne, Ends, OutboxOK, Event, Finish
  <2>4. CASE SubagentOutput
    BY <2>4 DEF SubagentOutput, OutboxOK, Event
  <2> QED
    BY <2>1, <2>2, <2>3, <2>4
<1>2. CASE LoopEmits
  BY <1>2, FirstOut DEF OutboxOK
<1>3. CASE WatchTakes
  BY <1>3 DEF WatchTakes, ExitOK, OutboxOK, readVars
<1>4. CASE WatchEmits
  <2>1. Emit(Finish(lost)) /\ Finish(lost) \in Emissions /\ Finish(lost).k = "finished"
    BY <1>4 DEF WatchEmits, Typing, WatchTypes, Emissions, Finish, Event
  <2>2. opened' = opened /\ UNCHANGED <<outbox, minted, turnID>>
    BY <1>4, <2>1, EmittedEnds DEF WatchEmits, readVars, turnVars, historyVars
  <2> QED
    BY <2>2 DEF OutboxOK
<1>5. CASE Granted \/ Refused \/ TimesOut
  <2>1. /\ UNCHANGED <<outbox, minted, opened>>
        /\ turnID' = turnID \/ (call.what = "begin" /\ turnID = call.by /\ doing = "calling")
    BY <1>5 DEF Granted, Refused, TimesOut, Fails, returnElse, readVars, historyVars
  <2>2. turnID' = turnID \/ turnID \in Prompts \cup Actions
    BY <2>1 DEF CallOK
  <2> QED
    BY <2>1, <2>2, TurnsApart DEF OutboxOK
<1>6. CASE (\E t \in Prompts \cup Actions : BeginTurn(t)) \/ (\E q \in Steers : Steer(q))
             \/ CodexCancel
             \/ PiCancel
  <2>1. /\ UNCHANGED <<outbox, minted>>
        /\ \/ UNCHANGED <<turnID, opened>>
           \/ turnID = None
    BY <1>6, CallsBegin DEF askElse, readVars
  <2>2. minted # None
    BY CallConstants DEF Typing, TurnTypes
  <2> QED
    BY <2>1, <2>2 DEF OutboxOK
<1>7. CASE Quiet
  BY <1>7 DEF Quiet, OutboxOK
<1>8. WatchCloses \/ Close => UNCHANGED <<outbox, minted, turnID, opened>>
  BY DEF WatchCloses, Close, readVars, turnVars, historyVars
<1>9. UNCHANGED <<outbox, minted, turnID, opened>> => OutboxOK'
  BY DEF OutboxOK
<1> QED
  BY <1>1, <1>2, <1>3, <1>4, <1>5, <1>6, <1>7, <1>8, <1>9, Elsewhere
     DEF SessionNext, ReadsOn, Handles, Watch, Answers, Asks

\* What a call is about stays; a turn the actor opens is one it had not used.
LEMMA CallStep ==
  ASSUME TurnInv, [SessionNext]_sessionVars
  PROVE  CallOK'
<1> USE DEF TurnInv
<1>1. CASE Handles
  BY <1>1, Handled DEF loopElse, actorVars, historyVars, CallOK
<1>2. CASE LoopEmits
  <2>1. /\ UNCHANGED <<doing, call, used, minted>> /\ outbox[1] \in Emissions /\ Emit(outbox[1])
        /\ outbox[1].k = "started" => outbox[1].turn = minted
    BY <1>2, FirstOut
  <2>2. opened' \subseteq opened \cup {minted}
    BY <2>1, EmittedEnds DEF historyVars
  <2> QED
    BY <2>1, <2>2, TurnsApart DEF CallOK
<1>3. CASE WatchEmits
  <2>1. Emit(Finish(lost)) /\ Finish(lost) \in Emissions /\ Finish(lost).k = "finished"
    BY <1>3 DEF WatchEmits, Typing, WatchTypes, Emissions, Finish, Event
  <2>2. opened' = opened
    BY <2>1, EmittedEnds DEF historyVars
  <2> QED
    BY <1>3, <2>2 DEF WatchEmits, actorVars, CallOK
<1>4. CASE WatchTakes \/ Granted \/ Refused \/ TimesOut \/ Close
  BY <1>4 DEF WatchTakes, Granted, Refused, TimesOut, Close, Fails, Returns, returnElse,
     actorVars, historyVars, CallOK
<1>5. ASSUME NEW t \in Prompts \cup Actions, BeginTurn(t)
      PROVE  CallOK'
  <2>1. /\ \/ Calls("begin", "prompt", t, 0) \/ Calls("begin", "action", t, 0) \/ doing' = "loop"
        /\ opened' \subseteq opened \cup {t} /\ used' = used \cup {t}
    BY <1>5 DEF BeginTurn
  <2>2. doing' = "loop" \/ (call'.what = "begin" /\ call'.by = t)
    BY <2>1 DEF Calls
  <2> QED
    BY <2>1, <2>2 DEF CallOK
<1>6. ASSUME NEW q \in Steers, Steer(q)
      PROVE  CallOK'
  <2>1. /\ Calls("steer", "prompt", q, 0) \/ doing' = "loop"
        /\ opened' = opened /\ used' = used \cup {q}
    BY <1>6 DEF Steer
  <2>2. doing' = "loop" \/ (call'.what = "steer" /\ call'.by = q)
    BY <2>1 DEF Calls
  <2> QED
    BY <2>1, <2>2, CallConstants DEF CallOK
<1>7. CASE CodexCancel \/ PiCancel
  <2>1. /\ \/ Calls("cancel", "stop", None, serverTurnID) \/ Calls("cancel", "stop", None, 0)
           \/ doing' = "loop"
        /\ opened' = opened /\ used' = used
    BY <1>7 DEF CodexCancel, PiCancel
  <2>2. doing' = "loop" \/ (call'.what = "cancel" /\ call'.by = None)
    BY <2>1 DEF Calls
  <2> QED
    BY <2>1, <2>2, CallConstants DEF CallOK
<1>8. Quiet /\ UNCHANGED <<doing, call, used>> => CallOK'
  BY DEF Quiet, CallOK
<1>9. HandleEvent \/ HandleExit => CallOK'
  BY Elsewhere DEF Quiet, CallOK
<1>10. WatchCloses => CallOK'
  BY Elsewhere DEF CallOK, actorVars
<1>11. UNCHANGED actorVars => UNCHANGED <<doing, call, used>>
  BY DEF actorVars
<1> QED
  BY <1>1, <1>2, <1>3, <1>4, <1>5, <1>6, <1>7, <1>8, <1>9, <1>10, <1>11, Elsewhere
     DEF SessionNext, ReadsOn, Handles, Watch, Answers, Asks

\* A turn is ended by one of the two, once, after it was opened.
LEMMA OnceStep ==
  ASSUME TurnInv, [SessionNext]_sessionVars
  PROVE  OnceOK'
<1> USE DEF TurnInv
<1>1. CASE Handles
  <2>1. /\ Carries \/ OpensOne \/ EndsOne \/ SubagentOutput
        /\ UNCHANGED <<opened, stream, watcher, lost, closed>> /\ outbox = <<>>
    <3>1. rd # Idle
      BY <1>1, Handled, Noticed
    <3> QED
      BY <1>1, <3>1, Handled DEF loopElse, historyVars, exitVars, channelVars, ExitOK
  <2>2. Ended' = Ended /\ ~\E t : Unannounced(t) \/ ReaderHas(t)
    BY <2>1 DEF Ended, Unannounced, ReaderHas
  <2>3. \A t, k : Event(k, t).k = k /\ Event(k, t).turn = t
    BY DEF Event
  <2>4. CASE Carries \/ SubagentOutput
    <3>1. UNCHANGED <<turnID, minted>> /\ ~\E t : ReaderHas(t)'
      BY <2>3, <2>4 DEF Carries, SubagentOutput, ReaderHas
    <3> QED
      BY <2>1, <2>2, <3>1 DEF OnceOK, WatchHas, Turns
  <2>5. CASE EndsOne
    <3>1. turnID' = None /\ minted' = minted /\ \A t : ReaderHas(t)' <=> t = turnID /\ turnID # None
      BY <2>3, <2>5 DEF EndsOne, Ends, AfterEnd, ReaderHas, Finish
    <3> QED
      BY <2>1, <2>2, <3>1 DEF OnceOK, WatchHas, Turns
  <2>6. CASE OpensOne
    <3>1. turnID' = minted' /\ minted' \notin Turns /\ Turns' = Turns \cup {minted'}
      BY <2>6, TurnsGrow DEF OpensOne
    <3>2. Unannounced(turnID)' /\ ~\E t : ReaderHas(t)'
      BY <2>3, <2>6, <3>1 DEF OpensOne, Unannounced, ReaderHas
    <3>3. opened \subseteq Turns
      BY DEF Typing, HistoryTypes
    <3>4. \A t : WatchHas(t) => t \in Turns
      BY DEF WatchHas, Typing, WatchTypes
    <3> QED
      BY <2>1, <2>2, <3>1, <3>2, <3>3, <3>4 DEF OnceOK, WatchHas
  <2> QED
    BY <2>1, <2>4, <2>5, <2>6
<1>2. CASE LoopEmits
  <2>1. /\ outbox # <<>> /\ outbox[1] \in Emissions /\ outbox[1].turn \in Turns /\ Emit(outbox[1])
        /\ UNCHANGED <<turnID, minted, watcher, lost, closed, eventsClosed>>
    BY <1>2, FirstOut
  <2>2. watcher = "wait" /\ ~eventsClosed
    BY <2>1 DEF ExitOK
  <2>3. ~\E t : ReaderHas(t)' \/ Unannounced(t)'
    BY <1>2, FirstOut DEF ReaderHas, Unannounced
  <2>4. /\ \A t : ReaderHas(t) <=> outbox[1].k = "finished" /\ outbox[1].turn = t
        /\ \A t : Unannounced(t) <=> outbox[1].k = "started" /\ outbox[1].turn = t
        /\ outbox[1].k = "started" => outbox[1].turn = turnID
    BY <1>2, FirstOut
  <2>5. Turns' = Turns
    BY <2>1 DEF Turns
  <2>6. ~closed => /\ opened' = IF outbox[1].k = "started"
                                THEN opened \cup {outbox[1].turn} ELSE opened
                   /\ Ended' = IF outbox[1].k = "finished"
                               THEN Ended \cup {outbox[1].turn} ELSE Ended
    BY <2>1, <2>2, EmittedEnds
  <2>7. CASE outbox[1].k = "finished"
    <3> DEFINE u == outbox[1].turn
    <3>1. (\A t : ReaderHas(t) <=> t = u) /\ ~\E t : Unannounced(t)
      BY <2>4, <2>7
    <3>2. (~closed => opened' = opened /\ Ended' = Ended \cup {u}) /\ u \in Turns
      BY <2>1, <2>6, <2>7
    <3> HIDE DEF u
    <3> QED
      BY <2>1, <2>2, <2>3, <2>5, <3>1, <3>2 DEF OnceOK, WatchHas
  <2>8. CASE outbox[1].k # "finished"
    <3>1. ~\E t : ReaderHas(t)
      BY <2>4, <2>8
    <3>2. ~closed => Ended' = Ended /\ opened \subseteq opened'
            /\ opened' \subseteq opened \cup {turnID}
      BY <2>4, <2>6, <2>8
    <3>3. ~closed => \A t : Unannounced(t) => t \in opened'
      BY <2>4, <2>6
    <3> QED
      BY <2>1, <2>2, <2>3, <2>5, <3>1, <3>2, <3>3 DEF OnceOK, WatchHas
  <2> QED
    BY <2>7, <2>8
<1>3. CASE WatchTakes
  <2>1. /\ outbox = <<>> /\ watcher = "wait" /\ lost' = turnID /\ turnID' = None
        /\ UNCHANGED <<outbox, opened, stream, closed, minted>>
        /\ watcher' = "emit" <=> turnID # None
    BY <1>3 DEF WatchTakes, ExitOK, readVars, channelVars, historyVars
  <2>2. Ended' = Ended /\ ~\E t : ReaderHas(t) \/ ReaderHas(t)' \/ Unannounced(t)
    BY <2>1 DEF Ended, ReaderHas, Unannounced
  <2> QED
    BY <2>1, <2>2 DEF OnceOK, WatchHas, Turns
<1>4. CASE WatchEmits
  <2>1. /\ watcher = "emit" /\ watcher' = "close" /\ lost \in Turns /\ outbox = <<>>
        /\ Emit(Finish(lost)) /\ UNCHANGED <<outbox, closed, minted, turnID>>
    BY <1>4 DEF WatchEmits, Typing, WatchTypes, ExitOK, readVars, turnVars
  <2>2. Finish(lost) \in Emissions /\ Finish(lost).k = "finished" /\ Finish(lost).turn = lost
    BY <2>1 DEF Emissions, Finish, Event
  <2>3. ~\E t : ReaderHas(t) \/ ReaderHas(t)' \/ Unannounced(t) \/ Unannounced(t)'
    BY <2>1 DEF ReaderHas, Unannounced
  <2>4. opened' = opened /\ Ended' \subseteq Ended \cup {lost}
    BY <2>1, <2>2, EmittedEnds DEF historyVars
  <2> QED
    BY <2>1, <2>3, <2>4 DEF OnceOK, WatchHas, Turns
<1>5. CASE Close
  BY <1>5 DEF Close, OnceOK
<1>6. ASSUME UNCHANGED <<outbox, minted, stream, watcher, lost, closed>>,
             \/ UNCHANGED <<turnID, opened>>
             \/ turnID' = None /\ opened' = opened
             \/ turnID = None /\ \E t \in (Prompts \cup Actions) \ used :
                                   turnID' = t /\ opened' = opened \cup {t}
      PROVE  OnceOK'
  <2>1. Ended' = Ended /\ \A t : ReaderHas(t)' = ReaderHas(t) /\ Unannounced(t)' = Unannounced(t)
    BY <1>6 DEF Ended, ReaderHas, Unannounced
  <2>2. \A t \in (Prompts \cup Actions) \ used : t \notin opened /\ t \in Turns
    BY DEF CallOK, Turns
  <2> QED
    BY <1>6, <2>1, <2>2 DEF OnceOK, WatchHas, Turns
<1>7. CASE Granted \/ Refused \/ TimesOut
  <2>1. /\ UNCHANGED <<outbox, minted, stream, watcher, lost, closed, opened>>
        /\ turnID' \in {turnID, None}
    BY <1>7 DEF Granted, Refused, TimesOut, Fails, returnElse, readVars, exitVars, channelVars,
       historyVars
  <2> QED
    BY <1>6, <2>1
<1>8. CASE (\E t \in Prompts \cup Actions : BeginTurn(t)) \/ (\E q \in Steers : Steer(q))
             \/ CodexCancel
             \/ PiCancel
  <2>1. UNCHANGED <<outbox, minted, stream, watcher, lost, closed>>
    BY <1>8, CallsBegin DEF askElse, readVars, exitVars, channelVars
  <2> QED
    BY <1>6, <1>8, <2>1, CallsBegin
<1>9. Quiet => OnceOK'
  BY <1>6 DEF Quiet
<1>10. CASE WatchCloses
  <2>1. /\ UNCHANGED <<outbox, minted, turnID, opened, stream, lost, closed>> /\ watcher' # "emit"
        /\ watcher # "emit"
    BY <1>10, Elsewhere
  <2>2. Ended' = Ended /\ \A t : ReaderHas(t)' = ReaderHas(t) /\ Unannounced(t)' = Unannounced(t)
    BY <2>1 DEF Ended, ReaderHas, Unannounced
  <2> QED
    BY <2>1, <2>2 DEF OnceOK, WatchHas, Turns
<1> QED
  BY <1>1, <1>2, <1>3, <1>4, <1>5, <1>7, <1>8, <1>9, <1>10, Elsewhere
     DEF SessionNext, ReadsOn, Handles, Watch, Answers, Asks

\* The owner is found once, and everything a subagent says is put down to it.
LEMMA AsideStep ==
  ASSUME TurnInv, [SessionNext]_sessionVars
  PROVE  AsideOK'
<1> USE DEF TurnInv
<1>1. None \notin asides
  BY TurnsApart DEF Typing, HistoryTypes
<1>2. \A t, k : Event(k, t).k = k /\ Event(k, t).turn = t
  BY DEF Event
<1>3. CASE Handles
  <2>1. /\ Carries \/ OpensOne \/ EndsOne \/ SubagentOutput
        /\ asides' = asides /\ outbox = <<>>
    <3>1. rd # Idle
      BY <1>3, Handled, Noticed
    <3> QED
      BY <1>3, <3>1, Handled DEF historyVars, ExitOK
  <2>2. CASE Carries \/ OpensOne \/ EndsOne
    BY <1>2, <2>1, <2>2 DEF Carries, OpensOne, EndsOne, Ends, Finish, AsideOK
  <2>3. CASE SubagentOutput
    <3>1. /\ owner' = IF owner = None THEN rd.turn ELSE owner
          /\ outbox' = <<>>
               \/ (Spawning(rd.turn) # None /\ outbox' = <<Event("aside", Spawning(rd.turn))>>)
      BY <2>3 DEF SubagentOutput
    <3>2. Spawning(rd.turn) # None => owner' = Spawning(rd.turn)
      BY <3>1 DEF Spawning
    <3>3. \A t \in asides : t = owner'
      BY <1>1, <3>1 DEF AsideOK
    <3> QED
      BY <1>2, <2>1, <3>1, <3>2, <3>3 DEF AsideOK
  <2> QED
    BY <2>1, <2>2, <2>3
<1>4. CASE LoopEmits
  <2>1. /\ outbox[1] \in Emissions /\ Emit(outbox[1]) /\ 1 \in DOMAIN outbox /\ owner' = owner
        /\ \A i \in DOMAIN outbox' : i + 1 \in DOMAIN outbox /\ outbox'[i] = outbox[i + 1]
    BY <1>4, FirstOut
  <2>2. asides' = asides \/ (outbox[1].k = "aside" /\ asides' = asides \cup {outbox[1].turn})
    BY <2>1, EmittedEnds DEF historyVars
  <2> QED
    BY <2>1, <2>2 DEF AsideOK
<1>5. CASE WatchEmits
  <2>1. Emit(Finish(lost)) /\ Finish(lost) \in Emissions /\ Finish(lost).k = "finished"
    BY <1>5 DEF WatchEmits, Typing, WatchTypes, Emissions, Finish, Event
  <2>2. asides' = asides /\ UNCHANGED <<outbox, owner>>
    BY <1>5, <2>1, EmittedEnds DEF WatchEmits, readVars, turnVars, historyVars
  <2> QED
    BY <2>2 DEF AsideOK
<1>6. UNCHANGED <<outbox, owner, asides>> => AsideOK'
  BY DEF AsideOK
<1>7. WatchTakes \/ Close \/ Granted \/ Refused \/ TimesOut => UNCHANGED <<outbox, owner, asides>>
  BY DEF WatchTakes, Close, Granted, Refused, TimesOut, Fails, returnElse, readVars, turnVars,
     historyVars
<1>8. (\E t \in Prompts \cup Actions : BeginTurn(t)) \/ (\E q \in Steers : Steer(q)) \/ CodexCancel
        \/ PiCancel => UNCHANGED <<outbox, owner, asides>>
  BY CallsBegin DEF askElse, readVars
<1>9. Quiet => UNCHANGED <<outbox, owner, asides>>
  BY DEF Quiet
<1> QED
  BY <1>3, <1>4, <1>5, <1>6, <1>7, <1>8, <1>9, Elsewhere
     DEF SessionNext, ReadsOn, Handles, Watch, Answers, Asks

\* No turn is open at first.
LEMMA TurnInvInit == SessionInit => TurnInv
<1> SUFFICES ASSUME SessionInit PROVE TurnInv
  OBVIOUS
<1>1. Typing
  <2>1. /\ <<>> \in Seq(Inputs) /\ <<>> \in Seq(Requests) /\ <<>> \in Seq(Frames)
        /\ <<>> \in Seq(Emissions) /\ <<>> \in Seq(Turns) /\ Len(<<>>) = 0
    BY EmptySeq
  <2>2. HarnessTypes
    BY <2>1, CallConstants DEF SessionInit, HarnessTypes
  <2>3. TurnTypes /\ WatchTypes
    <3>1. /\ minted = 0 /\ turnID = None /\ serverTurnID = 0 /\ turns = 0 /\ interrupting = FALSE
          /\ owner = None /\ watcher = "wait" /\ lost = None
      BY DEF SessionInit
    <3>2. 0 \in 0..0 /\ 0 \in Nat
      OBVIOUS
    <3>3. interrupting \in BOOLEAN
      BY <3>1
    <3>4. serverTurnID \in 0..turns /\ minted \in Nat
      BY <3>1, <3>2
    <3>5. WatchTypes
      BY <3>1 DEF WatchTypes
    <3> QED
      BY <3>1, <3>3, <3>4, <3>5 DEF TurnTypes
  <2>4. /\ outbox \in Seq(Emissions) /\ stream \in Seq(Turns) /\ events \in Seq(Emissions)
        /\ Len(events) <= Room
    BY <2>1, CallConstants DEF SessionInit
  <2>5. ReaderTypes /\ HistoryTypes
    BY <2>4 DEF SessionInit, ReaderTypes, HistoryTypes
  <2>6. ChannelTypes
    BY <2>4 DEF SessionInit, ChannelTypes
  <2>7. CallTypes
    BY DEF SessionInit, CallTypes, NoCall
  <2> QED
    BY <2>2, <2>3, <2>5, <2>6, <2>7 DEF Typing
<1>2. Ended = {} /\ DOMAIN outbox = {} /\ DOMAIN stdout = {}
  BY DEF SessionInit, Ended
<1>3. BoundsOK /\ PiOK
  BY <1>2 DEF SessionInit, BoundsOK, PiOK, Idle, Silent
<1> QED
  BY <1>1, <1>2, <1>3 DEF SessionInit, TurnInv, ExitOK, OutboxOK, CallOK, OnceOK, AsideOK,
     ReaderHas, WatchHas

\* The turns stay as the invariant has them, whoever steps.
LEMMA TurnInvStep ==
  ASSUME TurnInv, [SessionNext]_sessionVars
  PROVE  TurnInv'
<1>1. Typing' /\ BoundsOK' /\ PiOK' /\ ExitOK'
  BY TypeStep, BoundsStep, PiStep, ExitStep DEF TurnInv
<1> QED
  BY <1>1, OutboxStep, CallStep, OnceStep, AsideStep DEF TurnInv

\* The invariant of the turns holds throughout.
LEMMA TurnsCorrect == SessionSpec => []TurnInv
<1>1. TurnInv /\ [SessionNext]_sessionVars => TurnInv'
  BY TurnInvStep
<1> QED
  BY <1>1, TurnInvInit, PTL DEF SessionSpec

\* Every variable of a Codex or Pi session, its goroutines and the harness keeps its type.
THEOREM SessionTypes == SessionSpec => []TypeOK
<1>1. TurnInv => TypeOK
  <2> SUFFICES ASSUME TurnInv PROVE TypeOK
    OBVIOUS
  <2>1. \A t : IsTurn(t) <=> t \in Turns
    BY TurnsApart DEF TurnInv
  <2> QED
    BY <2>1 DEF TurnInv, Typing, HarnessTypes, TurnTypes, ReaderTypes, WatchTypes, ChannelTypes,
       CallTypes, HistoryTypes, PiOK, TypeOK
<1> QED
  BY <1>1, TurnsCorrect, PTL

\* All a subagent says is told in one turn, the one it was found under, however many
\* follow it (codex.go spawningTurn).
THEOREM SubagentKeepsItsTurn == SessionSpec => []SubagentStays
<1>1. TurnInv => SubagentStays
  BY DEF TurnInv, AsideOK, SubagentStays
<1> QED
  BY <1>1, TurnsCorrect, PTL

\* Each turn is opened once and ended at most once after, whichever of the read loop, a
\* call that fails and the exit watcher is about to: the session implements TurnStream.
THEOREM SessionTurnsArePaired == SessionSpec => TurnsPaired
<1>1. SessionInit => Stream!Init
  BY DEF SessionInit, Stream!Init
<1>2. TurnInv /\ [SessionNext]_sessionVars => [Stream!Next]_<<opened, stream>>
  <2> SUFFICES ASSUME TurnInv, [SessionNext]_sessionVars
               PROVE  Stream!Next \/ UNCHANGED <<opened, stream>>
    OBVIOUS
  <2>1. ASSUME NEW e \in Emissions, Emit(e), e.k = "finished", closed \/ e.turn \in opened \ Ended
        PROVE  Stream!Next \/ UNCHANGED <<opened, stream>>
    <3>1. opened' = opened /\ (stream' = stream \/ (~closed /\ stream' = Append(stream, e.turn)))
      BY <2>1, EmittedEnds DEF TurnInv, historyVars
    <3> QED
      BY <2>1, <3>1 DEF Stream!Next, Stream!End, Stream!Ended, Ended
  <2>2. CASE LoopEmits
    <3>1. outbox[1] \in Emissions /\ outbox[1].turn \in Turns /\ Emit(outbox[1])
      BY <2>2, FirstOut DEF TurnInv
    <3>2. CASE outbox[1].k = "finished"
      <4>1. ReaderHas(outbox[1].turn)
        BY <2>2, <3>2, FirstOut DEF TurnInv
      <4>2. closed \/ outbox[1].turn \in opened \ Ended
        BY <3>1, <4>1 DEF TurnInv, OnceOK
      <4> QED
        BY <2>1, <3>1, <3>2, <4>2
    <3>3. CASE outbox[1].k = "started"
      <4>1. outbox[1].turn \notin opened
        BY <2>2, <3>3, FirstOut DEF TurnInv
      <4>2. UNCHANGED <<opened, stream>>
              \/ (opened' = opened \cup {outbox[1].turn} /\ stream' = stream)
        BY <3>1, <3>3, EmittedEnds DEF TurnInv, historyVars
      <4> QED
        BY <4>1, <4>2 DEF Stream!Next, Stream!Open
    <3>4. CASE outbox[1].k \notin {"started", "finished"}
      BY <3>1, <3>4, EmittedEnds DEF TurnInv, historyVars
    <3> QED
      BY <3>2, <3>3, <3>4
  <2>3. CASE WatchEmits
    <3>1. /\ Emit(Finish(lost)) /\ WatchHas(lost) /\ lost \in Turns
          /\ Finish(lost) \in Emissions /\ Finish(lost).k = "finished" /\ Finish(lost).turn = lost
      BY <2>3 DEF WatchEmits, WatchHas, TurnInv, Typing, WatchTypes, Emissions, Finish, Event
    <3>2. closed \/ lost \in opened \ Ended
      BY <3>1 DEF TurnInv, OnceOK
    <3> QED
      BY <2>1, <3>1, <3>2
  <2>4. CASE (\E t \in Prompts \cup Actions : BeginTurn(t)) \/ (\E q \in Steers : Steer(q))
               \/ CodexCancel
               \/ PiCancel
    <3>1. /\ stream' = stream
          /\ opened' = opened \/ \E t \in (Prompts \cup Actions) \ used : opened' = opened \cup {t}
      BY <2>4, CallsBegin DEF TurnInv, askElse
    <3>2. \A t \in (Prompts \cup Actions) \ used : t \notin opened
      BY DEF TurnInv, CallOK
    <3> QED
      BY <3>1, <3>2 DEF Stream!Next, Stream!Open
  <2>5. Handles \/ WatchTakes \/ WatchCloses \/ Granted \/ Refused \/ TimesOut \/ Close
          => UNCHANGED <<opened, stream>>
    BY Handled DEF TurnInv, WatchTakes, WatchCloses, Granted, Refused, TimesOut, Fails,
       returnElse, Close, historyVars
  <2>6. Quiet => UNCHANGED <<opened, stream>>
    BY DEF Quiet
  <2> QED
    BY <2>2, <2>3, <2>4, <2>5, <2>6, Elsewhere
       DEF TurnInv, SessionNext, ReadsOn, Handles, Watch, Answers, Asks
<1> QED
  BY <1>1, <1>2, TurnsCorrect, PTL DEF SessionSpec, TurnsPaired, Stream!Spec

-----------------------------------------------------------------------------
(* Names.                                                                   *)

\* What is in the pipe, from the notice in hand on.
Piped(i) == IF i = 0 THEN rd.m ELSE stdout[i]

\* The end of the turn m is to come: after message j, or after the notice in hand, and
\* nothing of a later turn is before it.
Due(j, m) ==
  \/ running = m
  \/ \E k \in (j + 1)..Len(stdout) :
       IsDone(stdout[k], m) /\ \A i \in (j + 1)..(k - 1) : stdout[i].n <= m
Coming(m) == IsDone(rd.m, m) \/ (rd.m.n <= m /\ Due(0, m))

\* What a turn says is followed by its end, and what is said before is not of a later one.
LiveOK ==
  \A j \in 0..Len(stdout) :
    Spoken(Piped(j)) => Due(j, Piped(j).n) /\ \A i \in 0..(j - 1) : Piped(i).n <= Piped(j).n

\* Requests and replies are of calls made; a reply that names a turn answers a prompt.
Asked == doing = "calling" /\ call.what = "begin" /\ call.by \in Prompts
IsAnswer(i) == stdout[i].k = "reply" /\ stdout[i].by = call.c
NumbersOK ==
  /\ \A i \in DOMAIN stdin : stdin[i].n <= calls
  /\ \A i \in DOMAIN stdout : stdout[i].k = "reply" => stdout[i].by <= calls
  /\ doing = "calling" =>
       /\ call.c = calls
       /\ \A i \in DOMAIN stdin : stdin[i].n = call.c =>
            /\ call.what = "cancel" => stdin[i].k = "stop"
            /\ call.what = "begin" => stdin[i].k # "stop"
            /\ Asked => stdin[i].k = "prompt"
       /\ Asked => /\ answer.k = "reply" => answer.n # 0
                   /\ \A i \in DOMAIN stdout : IsAnswer(i) => stdout[i].n # 0
       /\ call.what = "begin" =>
            \A i \in DOMAIN stdout : IsAnswer(i) =>
              running # 0 \/ \E k \in DOMAIN stdout : i < k /\ stdout[k].k = "done"

\* The turn the session has a name for is to end, and so is the one it is about to learn.
Naming == Asked /\ kind = "codex" /\ turnID = call.by
NameOK ==
  /\ serverTurnID # 0 => Coming(serverTurnID)
  /\ Naming =>
       /\ \A i \in DOMAIN stdout : IsAnswer(i) => serverTurnID <= stdout[i].n
       /\ answer.k = "reply" =>
            /\ serverTurnID \in {0, answer.n} /\ Coming(answer.n)
            /\ \A i \in 0..Len(stdout) : Piped(i).k \in {"item", "read"} => answer.n <= Piped(i).n

\* A turn that runs is interrupted while its interrupt is being asked for, no longer.
Answered == answer.k = "reply" \/ \E i \in DOMAIN stdout : IsAnswer(i)
StopOK ==
  interrupting =>
    /\ serverTurnID # 0
    /\ running = serverTurnID =>
         doing = "calling" /\ call.what = "cancel" /\ call.n = serverTurnID /\ ~Answered

\* An open turn is one that runs, or whose end is to be read, or that is being asked for.
InFlight == doing = "calling" /\ call.what = "begin" /\ call.by = turnID /\ answer.k # "reply"
DoneIn == \E i \in DOMAIN stdout : stdout[i].k = "done"
OpenOK == turnID # None => running # 0 \/ rd.m.k = "done" \/ DoneIn \/ InFlight

PipeInv == alive => NumbersOK /\ LiveOK /\ NameOK /\ StopOK /\ OpenOK
CallInv == TurnInv /\ PipeInv

\* What there is in the pipe.
LEMMA InPipe ==
  ASSUME Typing
  PROVE  /\ Len(stdout) \in Nat /\ DOMAIN stdout = 1..Len(stdout)
         /\ \A i \in 0..Len(stdout) : /\ Piped(i).n \in Nat
                                      /\ Spoken(Piped(i)) \/ Piped(i).k = "done" => Piped(i).n # 0
         /\ \A i \in 1..Len(stdout) :
              stdout[i] \in Frames /\ Piped(i) = stdout[i] /\ stdout[i].n \in Nat
         /\ Piped(0) = rd.m /\ rd.m.n \in Nat
         /\ (Spoken(rd.m) => rd.m.k \in {"item", "read"} /\ rd.m.n # 0)
<1>1. /\ Len(stdout) \in Nat /\ DOMAIN stdout = 1..Len(stdout)
      /\ \A i \in 1..Len(stdout) : stdout[i] \in Frames
  BY LenProperties, ElementOfSeq DEF Typing, HarnessTypes
<1>2. \A e \in Frames : e.n \in Nat /\ (Spoken(e) \/ e.k = "done" => e.n # 0)
  BY DEF Frames, Notices, Replies, Spoken
<1>3. rd.m \in Notices \cup {Silent}
  BY DEF Typing, ReaderTypes, InHand, Idle
<1>4. /\ rd.m.n \in Nat /\ (Spoken(rd.m) \/ rd.m.k = "done" => rd.m.n # 0)
      /\ (Spoken(rd.m) => rd.m.k \in {"item", "read"})
  BY <1>3 DEF Notices, Silent, Spoken
<1>5. \A i \in 1..Len(stdout) : Piped(i) = stdout[i]
  BY <1>1 DEF Piped
<1>6. Piped(0) = rd.m
  BY DEF Piped
<1> QED
  BY <1>1, <1>2, <1>4, <1>5, <1>6

\* A turn that is to end still is when the harness says more ...
LEMMA DueGrows ==
  ASSUME Typing, BoundsOK, Adds, Runs, NEW j \in 0..Len(stdout), NEW m \in Nat \ {0}, Due(j, m)
  PROVE  Due(j, m)'
<1>1. /\ Len(stdout) \in Nat /\ Len(stdout') \in Nat /\ Len(stdout) <= Len(stdout')
      /\ \A i \in 1..Len(stdout) : stdout'[i] = stdout[i]
      /\ New = (Len(stdout) + 1)..Len(stdout')
  BY LenProperties DEF Adds, Typing, HarnessTypes, New
<1>2. CASE running = m
  <2>1. turns = m /\ \A i \in 1..Len(stdout) : stdout[i].n <= m
    BY <1>2, InPipe DEF Typing, HarnessTypes, BoundsOK
  <2>2. CASE running' = running
    BY <1>2, <2>2 DEF Due
  <2>3. CASE running' # running
    <3>1. PICK k \in New : IsDone(stdout'[k], m) /\ \A i \in New : i < k => stdout'[i].n <= m
      BY <1>2, <2>3 DEF Runs
    <3>2. k \in (j + 1)..Len(stdout')
      BY <1>1, <3>1
    <3>3. \A i \in (j + 1)..(k - 1) : stdout'[i].n <= m
      BY <1>1, <2>1, <3>1
    <3> QED
      BY <3>1, <3>2, <3>3 DEF Due, IsDone
  <2> QED
    BY <2>2, <2>3
<1>3. CASE running # m
  <2>1. PICK k \in (j + 1)..Len(stdout) :
          IsDone(stdout[k], m) /\ \A i \in (j + 1)..(k - 1) : stdout[i].n <= m
    BY <1>3 DEF Due
  <2>2. /\ k \in (j + 1)..Len(stdout') /\ stdout'[k] = stdout[k]
        /\ \A i \in (j + 1)..(k - 1) : stdout'[i] = stdout[i]
    BY <1>1
  <2> QED
    BY <2>1, <2>2 DEF Due, IsDone
<1> QED
  BY <1>2, <1>3

\* ... and when the first message is read.
LEMMA DueShifts ==
  ASSUME Typing, BoundsOK, Takes, NEW m \in Nat \ {0}
  PROVE  /\ \A j \in 1..Len(stdout) : Due(j, m) => Due(j - 1, m)'
         /\ Coming(m) => Coming(m)'
<1>1. /\ Len(stdout) \in Nat \ {0} /\ Len(stdout') = Len(stdout) - 1
      /\ \A i \in 1..(Len(stdout) - 1) : stdout'[i] = stdout[i + 1] /\ Head(stdout) = stdout[1]
      /\ running' = running /\ turns' = turns
  BY ReadOff DEF Takes, harnessVars
<1>2. ASSUME NEW j \in 1..Len(stdout), Due(j, m)
      PROVE  Due(j - 1, m)'
  <2>1. CASE running = m
    BY <1>1, <2>1 DEF Due
  <2>2. CASE running # m
    <3>1. PICK k \in (j + 1)..Len(stdout) :
            IsDone(stdout[k], m) /\ \A i \in (j + 1)..(k - 1) : stdout[i].n <= m
      BY <1>2, <2>2 DEF Due
    <3>2. k - 1 \in ((j - 1) + 1)..Len(stdout') /\ stdout'[k - 1] = stdout[k]
      BY <1>1
    <3>3. \A i \in ((j - 1) + 1)..((k - 1) - 1) : stdout'[i].n <= m
      <4>1. \A i \in ((j - 1) + 1)..((k - 1) - 1) :
              i + 1 \in (j + 1)..(k - 1) /\ i \in 1..(Len(stdout) - 1)
        BY <1>1
      <4> QED
        BY <1>1, <3>1, <4>1
    <3> QED
      BY <3>1, <3>2, <3>3 DEF Due, IsDone
  <2> QED
    BY <2>1, <2>2
<1>3. ASSUME Coming(m)
      PROVE  Coming(m)'
  <2>1. rd.m.k = "none" /\ Silent.n = 0 /\ Idle.m = Silent
    BY DEF Takes, Idle, Silent
  <2>2. Due(0, m)
    BY <1>3, <2>1 DEF Coming, IsDone
  <2>3. CASE running = m
    <3>1. stdout[1].n <= m
      <4>1. 1 \in DOMAIN stdout
        BY <1>1, InPipe
      <4>2. m = turns
        BY <2>3 DEF Typing, HarnessTypes
      <4> QED
        BY <4>1, <4>2 DEF BoundsOK
    <3> QED
      BY <1>1, <2>1, <2>3, <3>1 DEF Takes, Coming, Due
  <2>4. CASE running # m
    <3>1. PICK k \in 1..Len(stdout) : IsDone(stdout[k], m) /\ \A i \in 1..(k - 1) : stdout[i].n <= m
      BY <2>2, <2>4 DEF Due
    <3>2. CASE k = 1
      BY <1>1, <3>1, <3>2 DEF Takes, Coming, IsDone
    <3>3. CASE k # 1
      <4>1. Due(1, m)
        <5>1. k \in (1 + 1)..Len(stdout) /\ \A i \in (1 + 1)..(k - 1) : i \in 1..(k - 1)
          BY <1>1, <3>3
        <5> QED
          BY <3>1, <5>1 DEF Due
      <4>2. Due(0, m)'
        <5>1. 1 \in 1..Len(stdout) /\ 1 - 1 = 0
          BY <1>1
        <5> QED
          BY <1>2, <4>1, <5>1
      <4>3. stdout[1].n <= m
        BY <3>1, <3>3
      <4> QED
        BY <1>1, <2>1, <4>2, <4>3 DEF Takes, Coming
    <3> QED
      BY <3>2, <3>3
  <2> QED
    BY <2>3, <2>4
<1> QED
  BY <1>2, <1>3


-----------------------------------------------------------------------------
(* Who steps, and what a request is left as.                                *)

\* The steps that leave the pipe, the names and the call alone, while the process lives.
Rests ==
  alive' => /\ alive
            /\ UNCHANGED <<kind, turns, running, stdin, stdout, rd, turnID, serverTurnID,
                           interrupting, call, calls, answer>>
            /\ doing' = "calling" <=> doing = "calling"

\* The actor asks, or is told that it need not.
Calling(what, k, b, n) ==
  /\ UNCHANGED <<kind, alive, turns, running, stdout, rd, serverTurnID>> /\ doing = "loop"
  /\ what # "cancel" => b \in Inputs
  /\ \/ UNCHANGED <<doing, call, calls, answer, stdin>>
     \/ Calls(what, k, b, n)

\* Who steps, while the process lives.
LEMMA WhoSteps ==
  ASSUME TurnInv, [SessionNext]_sessionVars, alive'
  PROVE  \/ Harness /\ ~Die /\ Adds /\ Runs /\ Replied
              /\ UNCHANGED <<kind, alive, turnID, serverTurnID, interrupting, rd, doing, call,
                             calls, answer>>
         \/ Takes /\ UNCHANGED <<kind, alive, turns, running, stdin, turnID, serverTurnID,
                                 interrupting, doing,
                                 call, calls>>
         \/ Handles /\ (Carries \/ OpensOne \/ EndsOne \/ SubagentOutput)
              /\ UNCHANGED <<kind, alive, turns, running, stdin, stdout, doing, call, calls,
                             answer>>
              /\ rd' = Idle /\ rd \in InHand
         \/ StaleCompletion /\ rd'.m \in {rd.m, Silent}
              /\ UNCHANGED <<kind, alive, turns, running, stdin, stdout, turnID, serverTurnID,
                             interrupting,
                             doing, call, calls, answer>>
         \/ (Granted \/ Refused \/ TimesOut) /\ Returns
              /\ UNCHANGED <<kind, alive, turns, running, stdin, stdout, rd, calls>>
         \/ \E t \in Prompts \cup Actions : BeginTurn(t)
         \/ \E q \in Steers : Steer(q)
         \/ CodexCancel \/ PiCancel
         \/ Rests
<1>1. CASE Harness /\ ~Die
  <2>1. Adds /\ Runs /\ Replied /\ UNCHANGED <<alive, harnessElse>>
    BY <1>1, Speaks DEF TurnInv
  <2>2. UNCHANGED <<kind, alive, turnID, serverTurnID, interrupting, rd, doing, call, calls,
                    answer>>
    BY <2>1 DEF harnessElse, turnVars, nameVars, readVars, actorVars
  <2> QED
    BY <1>1, <2>1, <2>2
<1>2. CASE ReadReply \/ Notice
  <2>1. Takes
    BY <1>2, PipeMoves DEF TurnInv
  <2> QED
    BY <2>1 DEF Takes, harnessVars, turnVars, nameVars
<1>3. CASE Handles
  BY <1>3, Handled DEF TurnInv, loopElse, harnessVars, actorVars
<1>4. CASE StaleCompletion
  <2>1. rd \in InHand
    BY <1>4, Noticed DEF StaleCompletion, TurnInv
  <2>2. [rd EXCEPT !.go = TRUE].m = rd.m
    BY <2>1 DEF InHand
  <2> QED
    BY <1>4, <2>2 DEF StaleCompletion, loopElse, harnessVars, turnVars, nameVars, actorVars, Idle
<1>5. CASE Granted \/ Refused \/ TimesOut
  BY <1>5 DEF Granted, Refused, TimesOut, Fails, returnElse, harnessVars, readVars
<1>6. Die \/ Close \/ WatchTakes => Rests
  BY DEF Die, Close, WatchTakes, Rests, harnessVars, TurnInv, ExitOK
<1>7. LoopEmits \/ LoopEnds \/ WatchEmits \/ WatchCloses \/ HandleEvent \/ HandleExit => Rests
  BY DEF LoopEmits, LoopEnds, WatchEmits, WatchCloses, HandleEvent, HandleExit, Rests,
     harnessVars, turnVars, nameVars, readVars, actorVars
<1>8. UNCHANGED sessionVars => Rests
  BY DEF sessionVars, Rests, harnessVars, turnVars, nameVars, readVars, actorVars
<1> QED
  BY <1>1, <1>2, <1>3, <1>4, <1>5, <1>6, <1>7, <1>8
     DEF SessionNext, ReadsOn, Handles, Watch, Answers, Asks

\* What the actor's steps change of the pipe, the names and the call.
LEMMA WhoAsks ==
  ASSUME TurnInv
  PROVE  /\ \A t \in Prompts \cup Actions : BeginTurn(t) =>
              /\ \E k \in {"prompt", "action"} :
                   Calling("begin", k, t, 0) /\ (t \in Prompts => k = "prompt")
              /\ interrupting' = interrupting /\ turnID' \in {turnID, t}
              /\ turnID' # turnID => doing' = "calling" /\ call'.what = "begin" /\ call'.by = t
         /\ \A q \in Steers :
              Steer(q) => Calling("steer", "prompt", q, 0) /\ UNCHANGED <<interrupting, turnID>>
         /\ CodexCancel => /\ Calling("cancel", "stop", None, serverTurnID) /\ turnID' = turnID
                           /\ \/ UNCHANGED <<interrupting, doing>>
                              \/ serverTurnID # 0 /\ Calls("cancel", "stop", None, serverTurnID)
         /\ PiCancel => Calling("cancel", "stop", None, 0) /\ UNCHANGED <<interrupting, turnID>>
              /\ kind = "pi"
<1>1. ASSUME NEW t \in Prompts \cup Actions, BeginTurn(t)
      PROVE  /\ \E k \in {"prompt", "action"} :
                  Calling("begin", k, t, 0) /\ (t \in Prompts => k = "prompt")
             /\ interrupting' = interrupting /\ turnID' \in {turnID, t}
             /\ turnID' # turnID => doing' = "calling" /\ call'.what = "begin" /\ call'.by = t
  <2>1. /\ UNCHANGED <<kind, alive, turns, running, stdout, rd, serverTurnID, interrupting>>
        /\ doing = "loop"
    BY <1>1 DEF BeginTurn, askElse, nameVars, readVars
  <2>2. /\ \/ UNCHANGED <<doing, call, calls, answer, stdin>> /\ turnID' = turnID
           \/ turnID' = t /\ t \in Prompts /\ Calls("begin", "prompt", t, 0)
           \/ turnID' = t /\ t \notin Prompts /\ Calls("begin", "action", t, 0)
    BY <1>1 DEF BeginTurn
  <2>3. \A k : Calls("begin", k, t, 0) => doing' = "calling" /\ call'.what = "begin" /\ call'.by = t
    BY DEF Calls
  <2> QED
    BY <2>1, <2>2, <2>3 DEF Calling, Inputs
<1>2. ASSUME NEW q \in Steers, Steer(q)
      PROVE  Calling("steer", "prompt", q, 0) /\ UNCHANGED <<interrupting, turnID>>
  BY <1>2 DEF Steer, Calling, askElse, nameVars, readVars, Inputs
<1>3. CodexCancel => /\ Calling("cancel", "stop", None, serverTurnID) /\ turnID' = turnID
                     /\ \/ UNCHANGED <<interrupting, doing>>
                        \/ serverTurnID # 0 /\ Calls("cancel", "stop", None, serverTurnID)
  BY DEF CodexCancel, Calling, askElse, readVars
<1>4. PiCancel => Calling("cancel", "stop", None, 0) /\ UNCHANGED <<interrupting, turnID>>
        /\ kind = "pi"
  BY DEF PiCancel, Calling, askElse, nameVars, readVars
<1> QED
  BY <1>1, <1>2, <1>3, <1>4

\* The requests that are left when the harness has answered the first.
LEMMA AskedStay ==
  ASSUME Typing, Replied
  PROVE  /\ \A i \in DOMAIN stdin' : \E j \in DOMAIN stdin : stdin'[i] = stdin[j]
         /\ stdin # <<>> => 1 \in DOMAIN stdin /\ Head(stdin) = stdin[1]
<1>1. stdin # <<>> => /\ Head(stdin) = stdin[1] /\ DOMAIN stdin = 1..Len(stdin)
                      /\ Len(stdin) \in Nat \ {0}
                      /\ DOMAIN Tail(stdin) = 1..(Len(stdin) - 1)
                      /\ \A i \in 1..(Len(stdin) - 1) : Tail(stdin)[i] = stdin[i + 1]
  BY Parts, LenProperties DEF Typing, HarnessTypes
<1>2. stdin # <<>> => \A i \in 1..(Len(stdin) - 1) : i + 1 \in DOMAIN stdin
  BY <1>1
<1> QED
  BY <1>1, <1>2 DEF Replied

\* The numbers of calls and replies stay in step.
LEMMA NumbersStep ==
  ASSUME CallInv, [SessionNext]_sessionVars, alive'
  PROVE  NumbersOK'
<1>0. TurnInv /\ Typing /\ calls \in Nat
  BY DEF CallInv, TurnInv, Typing, CallTypes
<1>1. alive /\ NumbersOK
  BY <1>0, WhoSteps, WhoAsks DEF CallInv, PipeInv, Rests, Calling
<1>2. CASE /\ Adds /\ Runs /\ Replied
           /\ UNCHANGED <<kind, alive, turnID, serverTurnID, interrupting, rd, doing, call, calls,
                          answer>>
  <2>1. /\ Len(stdout) \in Nat /\ Len(stdout') \in Nat /\ Len(stdout) <= Len(stdout')
        /\ DOMAIN stdout = 1..Len(stdout) /\ DOMAIN stdout' = 1..Len(stdout')
        /\ \A i \in 1..Len(stdout) : stdout'[i] = stdout[i]
    BY <1>0, <1>2, LenProperties DEF Adds, Typing, HarnessTypes
  <2>2. \A i \in DOMAIN stdout' : i \in DOMAIN stdout \/ i \in New
    BY <2>1 DEF New
  <2>3. /\ \A i \in DOMAIN stdin' : \E j \in DOMAIN stdin : stdin'[i] = stdin[j]
        /\ stdin # <<>> => 1 \in DOMAIN stdin /\ Head(stdin) = stdin[1]
    BY <1>0, <1>2, AskedStay
  <2>4. ASSUME NEW i \in New, stdout'[i].k = "reply"
        PROVE  /\ stdout'[i].by <= calls
               /\ doing = "calling" /\ stdout'[i].by = call.c =>
                    /\ Asked => stdout'[i].n # 0
                    /\ call.what = "begin" => running' # 0
    BY <1>1, <1>2, <2>3, <2>4 DEF Replied, NumbersOK
  <2>5. ASSUME doing = "calling", call.what = "begin", NEW i \in DOMAIN stdout', IsAnswer(i)'
        PROVE  running' # 0 \/ \E k \in DOMAIN stdout' : i < k /\ stdout'[k].k = "done"
    <3>1. CASE i \in New
      BY <1>2, <2>4, <2>5, <3>1 DEF IsAnswer
    <3>2. CASE i \in DOMAIN stdout
      <4>1. running # 0 \/ \E k \in DOMAIN stdout : i < k /\ stdout[k].k = "done"
        BY <1>1, <1>2, <2>1, <2>5, <3>2 DEF NumbersOK, IsAnswer
      <4>2. CASE \E k \in DOMAIN stdout : i < k /\ stdout[k].k = "done"
        BY <2>1, <4>2
      <4>3. CASE running # 0 /\ running' = 0
        <5>1. PICK k \in New : IsDone(stdout'[k], running)
          BY <1>2, <4>3 DEF Runs
        <5>2. k \in DOMAIN stdout' /\ i < k
          BY <2>1, <3>2 DEF New
        <5> QED
          BY <5>1, <5>2 DEF IsDone
      <4> QED
        BY <4>1, <4>2, <4>3
    <3> QED
      BY <2>2, <3>1, <3>2
  <2>6. Asked' = Asked /\ \A i : IsAnswer(i)' <=> stdout'[i].k = "reply" /\ stdout'[i].by = call.c
    BY <1>2 DEF Asked, IsAnswer
  <2>7. \A i \in DOMAIN stdin' : stdin'[i].n <= calls'
    BY <1>1, <1>2, <2>3 DEF NumbersOK
  <2>8. \A i \in DOMAIN stdout' : stdout'[i].k = "reply" => stdout'[i].by <= calls'
    BY <1>1, <1>2, <2>1, <2>2, <2>4 DEF NumbersOK
  <2>9. ASSUME doing = "calling"
        PROVE  /\ call.c = calls
               /\ \A i \in DOMAIN stdin' : stdin'[i].n = call.c =>
                    /\ call.what = "cancel" => stdin'[i].k = "stop"
                    /\ call.what = "begin" => stdin'[i].k # "stop"
                    /\ Asked => stdin'[i].k = "prompt"
               /\ Asked => (answer.k = "reply" => answer.n # 0)
    BY <1>1, <2>3, <2>9 DEF NumbersOK
  <2>10. ASSUME doing = "calling", Asked, NEW i \in DOMAIN stdout', IsAnswer(i)'
         PROVE  stdout'[i].n # 0
    BY <1>1, <2>1, <2>2, <2>4, <2>6, <2>10 DEF NumbersOK, IsAnswer
  <2> QED
    BY <1>2, <2>5, <2>6, <2>7, <2>8, <2>9, <2>10 DEF NumbersOK
<1>3. CASE Takes /\ UNCHANGED <<turns, running, stdin, doing, call, calls>>
  <2>1. /\ Len(stdout) \in Nat \ {0} /\ DOMAIN stdout = 1..Len(stdout)
        /\ DOMAIN stdout' = 1..(Len(stdout) - 1)
        /\ \A i \in 1..(Len(stdout) - 1) : stdout'[i] = stdout[i + 1] /\ Head(stdout) = stdout[1]
    BY <1>0, <1>3, ReadOff DEF Takes
  <2>2. \A i \in DOMAIN stdout' :
          i + 1 \in DOMAIN stdout /\ stdout'[i] = stdout[i + 1]
            /\ (IsAnswer(i)' <=> IsAnswer(i + 1))
    BY <1>3, <2>1 DEF IsAnswer
  <2>3. ASSUME Asked, answer'.k = "reply"
        PROVE  answer'.n # 0
    <3>1. CASE answer' = answer
      BY <1>1, <2>3, <3>1 DEF NumbersOK, Asked
    <3>2. CASE answer' = stdout[1] /\ call.c = stdout[1].by
      <4>1. 1 \in DOMAIN stdout /\ IsAnswer(1)
        BY <2>1, <2>3, <3>2 DEF IsAnswer
      <4> QED
        BY <1>1, <2>3, <3>2, <4>1 DEF NumbersOK, Asked
    <3> QED
      BY <1>3, <2>1, <3>1, <3>2 DEF Takes
  <2>4. ASSUME doing = "calling", call.what = "begin", NEW i \in DOMAIN stdout', IsAnswer(i)'
        PROVE  running # 0 \/ \E k \in DOMAIN stdout' : i < k /\ stdout'[k].k = "done"
    <3>1. running # 0 \/ \E k \in DOMAIN stdout : i + 1 < k /\ stdout[k].k = "done"
      BY <1>1, <2>2, <2>4 DEF NumbersOK
    <3>2. ASSUME NEW k \in DOMAIN stdout, i + 1 < k
          PROVE  k - 1 \in DOMAIN stdout' /\ i < k - 1 /\ stdout'[k - 1] = stdout[k]
      BY <2>1, <3>2
    <3> QED
      BY <3>1, <3>2
  <2>5. Asked' = Asked
    BY <1>3 DEF Asked
  <2>6. ASSUME doing = "calling", Asked, NEW i \in DOMAIN stdout', IsAnswer(i)'
        PROVE  stdout'[i].n # 0
    BY <1>1, <2>2, <2>6 DEF NumbersOK
  <2>7. \A i \in DOMAIN stdout' : stdout'[i].k = "reply" => stdout'[i].by <= calls'
    BY <1>1, <1>3, <2>2 DEF NumbersOK
  <2> QED
    BY <1>1, <1>3, <2>3, <2>4, <2>5, <2>6, <2>7 DEF NumbersOK
<1>4. ASSUME NEW what \in {"begin", "steer", "cancel"}, NEW k \in {"prompt", "action", "stop"},
             NEW b \in Inputs \cup {None}, NEW n \in Nat, k = "stop" <=> what = "cancel",
             what = "begin" /\ b \in Prompts => k = "prompt", Calling(what, k, b, n)
      PROVE  NumbersOK'
  <2>1. CASE UNCHANGED <<doing, call, calls, answer, stdin>>
    BY <1>1, <1>4, <2>1 DEF Calling, NumbersOK, Asked, IsAnswer
  <2>2. CASE Calls(what, k, b, n)
    <3>1. /\ doing' = "calling" /\ calls' = calls + 1
          /\ call' = [what |-> what, by |-> b, n |-> n, c |-> calls']
          /\ answer' = Silent
      BY <1>0, <1>1, <1>4, <2>2, Called DEF Calling
    <3>2. PICK r \in Requests : stdin' = Append(stdin, r) /\ r.k = k /\ r.n = calls'
      BY <1>0, <1>1, <1>4, <2>2, Called DEF Calling
    <3>3. /\ Len(stdin) \in Nat /\ DOMAIN stdin = 1..Len(stdin)
          /\ DOMAIN stdin' = 1..(Len(stdin) + 1)
          /\ stdin'[Len(stdin) + 1] = r /\ \A i \in 1..Len(stdin) : stdin'[i] = stdin[i]
      BY <1>0, <3>2, Longer, LenProperties DEF Typing, HarnessTypes
    <3>4. \A i \in DOMAIN stdin' : stdin'[i] = r \/ (stdin'[i].n <= calls /\ stdin'[i].n # calls')
      <4>1. \A i \in DOMAIN stdin : stdin[i].n \in Nat
        BY <1>0, ElementOfSeq, <3>3 DEF Typing, HarnessTypes, Requests
      <4>2. \A i \in DOMAIN stdin : stdin[i].n <= calls /\ stdin[i].n # calls'
        BY <1>0, <1>1, <3>1, <4>1 DEF NumbersOK
      <4> QED
        BY <3>3, <4>2
    <3>5. \A i \in DOMAIN stdout' :
            ~IsAnswer(i)' /\ (stdout'[i].k = "reply" => stdout'[i].by <= calls')
      <4>1. \A i \in DOMAIN stdout :
              stdout[i].k = "reply" => stdout[i].by \in Nat /\ stdout[i].by <= calls
        BY <1>0, <1>1, InPipe DEF NumbersOK, Frames, Notices, Replies
      <4> QED
        BY <1>0, <1>4, <3>1, <4>1 DEF Calling, IsAnswer
    <3>6. answer'.k # "reply"
      BY <3>1 DEF Silent
    <3>7. \A i \in DOMAIN stdin' : stdin'[i].n <= calls'
      <4>1. \A i \in DOMAIN stdin' : stdin'[i].n \in Nat
        BY <1>0, <3>1, <3>2, <3>3, ElementOfSeq DEF Typing, HarnessTypes, Requests
      <4> QED
        BY <1>0, <3>1, <3>2, <3>4, <4>1
    <3>8. \A i \in DOMAIN stdin' : stdin'[i].n = call'.c =>
            /\ call'.what = "cancel" => stdin'[i].k = "stop"
            /\ call'.what = "begin" => stdin'[i].k # "stop"
            /\ Asked' => stdin'[i].k = "prompt"
      BY <1>4, <3>1, <3>2, <3>4 DEF Asked
    <3> QED
      BY <3>1, <3>5, <3>6, <3>7, <3>8 DEF NumbersOK
  <2> QED
    BY <1>4, <2>1, <2>2 DEF Calling
<1>5. CASE (Granted \/ Refused \/ TimesOut) /\ Returns /\ UNCHANGED <<stdin, stdout, calls>>
  BY <1>1, <1>5 DEF Returns, NumbersOK
<1>6. CASE /\ UNCHANGED <<running, stdin, stdout, call, calls, answer>>
           /\ (doing' = "calling" <=> doing = "calling")
  BY <1>1, <1>6 DEF NumbersOK, Asked, IsAnswer
<1>7. CASE \E t \in Prompts \cup Actions : BeginTurn(t)
  <2>1. PICK t \in Prompts \cup Actions : BeginTurn(t)
    BY <1>7
  <2>2. PICK k \in {"prompt", "action"} :
          Calling("begin", k, t, 0) /\ (t \in Prompts => k = "prompt")
    BY <1>0, <2>1, WhoAsks
  <2> QED
    BY <1>4, <2>2 DEF Inputs
<1>8. CASE \E q \in Steers : Steer(q)
  <2>1. PICK q \in Steers : Calling("steer", "prompt", q, 0)
    BY <1>0, <1>8, WhoAsks
  <2> QED
    BY <1>4, <2>1 DEF Inputs
<1>9. CASE CodexCancel \/ PiCancel
  <2>1. PICK n \in Nat : Calling("cancel", "stop", None, n)
    BY <1>0, <1>9, WhoAsks DEF Typing, TurnTypes, HarnessTypes
  <2> QED
    BY <1>4, <2>1
<1> QED
  BY <1>0, <1>2, <1>3, <1>5, <1>6, <1>7, <1>8, <1>9, WhoSteps DEF Rests

-----------------------------------------------------------------------------
(* What is still in the pipe of a turn that runs.                           *)

\* What stays, and what is found when the notice in hand is dealt with.
LEMMA ComingStays ==
  ASSUME UNCHANGED <<stdout, running>>, NEW m \in Nat
  PROVE  /\ \A j : Due(j, m)' <=> Due(j, m)
         /\ rd'.m = rd.m => (Coming(m)' <=> Coming(m))
         /\ rd'.m = Silent /\ Due(0, m) => Coming(m)'
<1>1. \A j : Due(j, m)' <=> Due(j, m)
  BY DEF Due
<1>2. Silent.n = 0
  BY DEF Silent
<1> QED
  BY <1>1, <1>2 DEF Coming

\* What a turn says stays in its place.
LEMMA LiveStep ==
  ASSUME CallInv, [SessionNext]_sessionVars, alive'
  PROVE  LiveOK'
<1>0. TurnInv /\ Typing /\ BoundsOK /\ ~Spoken(Silent) /\ Silent.n = 0
  BY DEF CallInv, TurnInv, Spoken, Silent
<1>1. alive /\ LiveOK
  BY <1>0, WhoSteps, WhoAsks DEF CallInv, PipeInv, Rests, Calling
<1>2. BoundsOK' /\ Typing'
  BY <1>0, TurnInvStep DEF TurnInv
<1>3. /\ Len(stdout) \in Nat /\ Len(stdout') \in Nat /\ DOMAIN stdout' = 1..Len(stdout')
      /\ DOMAIN stdout = 1..Len(stdout)
      /\ \A i \in 0..Len(stdout) :
           Piped(i).n \in Nat /\ (Spoken(Piped(i)) => Piped(i).n \in Nat \ {0})
  BY <1>0, <1>2, InPipe, LenProperties DEF Typing, HarnessTypes
<1>4. CASE Adds /\ Runs /\ UNCHANGED rd
  <2>1. /\ Len(stdout) <= Len(stdout') /\ \A i \in 1..Len(stdout) : stdout'[i] = stdout[i]
        /\ \A i \in 0..Len(stdout') : i \in 0..Len(stdout) \/ i \in New
        /\ \A i \in 0..Len(stdout) : Piped(i)' = Piped(i)
    BY <1>3, <1>4 DEF Adds, New, Piped
  <2> SUFFICES ASSUME NEW j \in 0..Len(stdout'), Spoken(Piped(j)')
               PROVE  Due(j, Piped(j).n)' /\ \A i \in 0..(j - 1) : Piped(i)'.n <= Piped(j)'.n
    BY DEF LiveOK, Spoken
  <2>2. CASE j \in 0..Len(stdout)
    <3>1. Spoken(Piped(j)) /\ Piped(j).n \in Nat \ {0} /\ Piped(j)' = Piped(j)
      BY <1>3, <2>1, <2>2 DEF Spoken
    <3>2. Due(j, Piped(j).n) /\ \A i \in 0..(j - 1) : Piped(i).n <= Piped(j).n
      BY <1>1, <2>2, <3>1 DEF LiveOK
    <3> DEFINE m == Piped(j).n
    <3>3. m' = m
      BY <3>1
    <3> HIDE DEF m
    <3>4. Due(j, m)'
      <4>1. \A x \in Nat \ {0} : Due(j, x) => Due(j, x)'
        BY <1>0, <1>4, <2>2, DueGrows
      <4> QED
        BY <3>1, <3>2, <3>3, <4>1 DEF Due, m
    <3>5. \A i \in 0..(j - 1) : i \in 0..Len(stdout)
      BY <1>3, <2>2
    <3> QED
      BY <2>1, <3>1, <3>2, <3>3, <3>4, <3>5 DEF Due, m
  <2>3. CASE j \in New
    <3>1. Piped(j)' = stdout'[j] /\ j # 0 /\ j \in DOMAIN stdout'
      BY <1>3, <2>3 DEF New, Piped
    <3>2. Piped(j)'.n = turns' /\ running' = turns'
      BY <1>4, <2>3, <3>1 DEF Runs, Spoken
    <3>3. \A i \in 0..(j - 1) : Piped(i)'.n <= turns'
      <4>1. rd'.m.n <= turns' /\ \A i \in 1..(j - 1) : stdout'[i].n <= turns'
        BY <1>2, <1>3, <3>1 DEF BoundsOK
      <4> QED
        BY <1>3, <3>1, <4>1 DEF Piped
    <3> QED
      BY <3>2, <3>3 DEF Due
  <2> QED
    BY <2>1, <2>2, <2>3
<1>5. CASE Takes
  <2>1. /\ Len(stdout) # 0 /\ Len(stdout') = Len(stdout) - 1 /\ Head(stdout) = stdout[1]
        /\ \A i \in 1..(Len(stdout) - 1) : stdout'[i] = stdout[i + 1]
    BY <1>0, <1>5, ReadOff DEF Takes
  <2>2. /\ \A i \in 1..Len(stdout') : Piped(i)' = Piped(i + 1)
        /\ Piped(0)' \in {Piped(1), Silent}
    <3>1. Idle.m = Silent /\ Piped(0)' = rd'.m /\ Piped(1) = stdout[1]
      BY DEF Idle, Piped
    <3>2. \A i \in 1..Len(stdout') : i # 0 /\ i + 1 # 0
      BY <1>3
    <3> QED
      BY <1>5, <2>1, <3>1, <3>2 DEF Takes, Piped
  <2>3. \A i \in 0..Len(stdout') :
          Piped(i)' \in {Piped(i + 1), Silent} /\ i + 1 \in 1..Len(stdout)
            /\ i + 1 \in 0..Len(stdout)
    BY <1>3, <2>1, <2>2
  <2> SUFFICES ASSUME NEW j \in 0..Len(stdout'), Spoken(Piped(j)')
               PROVE  Due(j, Piped(j).n)' /\ \A i \in 0..(j - 1) : Piped(i)'.n <= Piped(j)'.n
    BY DEF LiveOK, Spoken
  <2>4. Piped(j)' = Piped(j + 1) /\ Spoken(Piped(j + 1)) /\ Piped(j + 1).n \in Nat \ {0}
    BY <1>0, <1>3, <2>3 DEF Spoken
  <2>5. Due(j + 1, Piped(j + 1).n) /\ \A i \in 0..j : Piped(i).n <= Piped(j + 1).n
    BY <1>1, <1>3, <2>3, <2>4 DEF LiveOK
  <2>6. Due(j, Piped(j).n)'
    <3>1. \A x \in Nat \ {0} : Due(j + 1, x) => Due((j + 1) - 1, x)'
      BY <1>0, <1>5, <2>3, DueShifts
    <3>2. (j + 1) - 1 = j
      OBVIOUS
    <3> QED
      BY <2>4, <2>5, <3>1, <3>2 DEF Due
  <2>7. \A i \in 0..(j - 1) : Piped(i)'.n <= Piped(j)'.n
    <3> SUFFICES ASSUME NEW i \in 0..(j - 1) PROVE Piped(i)'.n <= Piped(j)'.n
      OBVIOUS
    <3>1. i \in 0..Len(stdout') /\ i + 1 \in 0..j
      BY <1>3
    <3> QED
      BY <1>0, <2>3, <2>4, <2>5, <3>1
  <2> QED
    BY <2>6, <2>7
<1>6. CASE UNCHANGED <<stdout, running>> /\ rd'.m \in {rd.m, Silent}
  <2>1. \A i \in 1..Len(stdout) : Piped(i)' = Piped(i)
    BY <1>3, <1>6 DEF Piped
  <2>2. Piped(0)' \in {Piped(0), Silent}
    BY <1>6 DEF Piped
  <2>3. \A i \in 0..Len(stdout) : Piped(i)' = Piped(i) \/ Piped(i)' = Silent
    BY <1>3, <2>1, <2>2
  <2> SUFFICES ASSUME NEW j \in 0..Len(stdout), Spoken(Piped(j)')
               PROVE  Due(j, Piped(j).n)' /\ \A i \in 0..(j - 1) : Piped(i)'.n <= Piped(j)'.n
    BY <1>6 DEF LiveOK, Spoken
  <2>4. Piped(j)' = Piped(j) /\ Due(j, Piped(j).n) /\ \A i \in 0..(j - 1) : Piped(i).n <= Piped(j).n
    BY <1>0, <1>1, <2>3 DEF LiveOK
  <2>5. Due(j, Piped(j).n)'
    BY <1>6, <2>4 DEF Due
  <2>6. \A i \in 0..(j - 1) : i \in 0..Len(stdout) /\ Piped(j).n \in Nat
    BY <1>3
  <2> QED
    BY <1>0, <1>3, <2>3, <2>4, <2>5, <2>6
<1>7. ASSUME NEW what, NEW k, NEW b, NEW n, Calling(what, k, b, n)
      PROVE  UNCHANGED <<stdout, running, rd>>
  BY <1>7 DEF Calling
<1>8. (\E t \in Prompts \cup Actions : BeginTurn(t)) \/ (\E q \in Steers : Steer(q))
        \/ CodexCancel \/ PiCancel
        => UNCHANGED <<stdout, running, rd>>
  BY <1>0, <1>7, WhoAsks
<1>9. Idle.m = Silent
  BY DEF Idle
<1> QED
  BY <1>0, <1>4, <1>5, <1>6, <1>8, <1>9, WhoSteps DEF Rests

-----------------------------------------------------------------------------
(* The names of turns.                                                      *)

\* The session has a name for a turn only while its end is to come.
LEMMA NameStep ==
  ASSUME CallInv, [SessionNext]_sessionVars, alive'
  PROVE  NameOK'
<1>0. /\ TurnInv /\ Typing /\ BoundsOK /\ CallOK /\ Silent.n = 0 /\ Silent.k = "none"
      /\ ~Spoken(Silent) /\ Idle.m = Silent
  BY DEF CallInv, TurnInv, Spoken, Silent, Idle
<1>1. alive /\ LiveOK /\ NameOK /\ NumbersOK
  BY <1>0, WhoSteps, WhoAsks DEF CallInv, PipeInv, Rests, Calling
<1>2. /\ Len(stdout) \in Nat /\ DOMAIN stdout = 1..Len(stdout)
      /\ \A i \in 0..Len(stdout) : Piped(i).n \in Nat
      /\ \A i \in 1..Len(stdout) : Piped(i) = stdout[i]
      /\ Piped(0) = rd.m /\ rd.m.n \in Nat /\ (Spoken(rd.m) => rd.m.n \in Nat \ {0})
      /\ serverTurnID \in 0..turns /\ turns \in Nat /\ answer.n \in Nat
  <2>1. answer.n \in Nat
    BY <1>0 DEF Typing, CallTypes, Replies
  <2> QED
    BY <1>0, <2>1, InPipe DEF Typing, TurnTypes, HarnessTypes
\* The harness says more, of the turn that runs.
<1>3. CASE /\ Adds /\ Runs /\ Replied
           /\ UNCHANGED <<kind, turnID, serverTurnID, interrupting, rd, doing, call, calls, answer>>
  <2>1. /\ Len(stdout') \in Nat /\ DOMAIN stdout' = 1..Len(stdout') /\ Len(stdout) <= Len(stdout')
        /\ \A i \in 1..Len(stdout) : stdout'[i] = stdout[i]
        /\ New = (Len(stdout) + 1)..Len(stdout')
    BY <1>3, LenProperties DEF Adds, New
  <2>2. ASSUME NEW m \in Nat \ {0}, Coming(m)
        PROVE  Coming(m)'
    <3>1. Due(0, m) => Due(0, m)'
      BY <1>0, <1>2, <1>3, DueGrows
    <3> QED
      BY <1>3, <2>2, <3>1 DEF Coming, IsDone
  <2>3. (Naming' <=> Naming) /\ (Naming => Asked) /\ turns' \in Nat /\ turns <= turns'
    BY <1>3 DEF Naming, Asked, Runs
  <2>4. ASSUME Naming, NEW i \in DOMAIN stdout', IsAnswer(i)'
        PROVE  serverTurnID <= stdout'[i].n
    <3>1. CASE i \in 1..Len(stdout)
      BY <1>1, <1>2, <1>3, <2>1, <2>4, <3>1 DEF NameOK, IsAnswer
    <3>2. CASE i \in New
      <4>1. stdout'[i].k = "reply" /\ stdin # <<>> /\ Head(stdin).n = call.c
            /\ (Head(stdin).k = "prompt" => stdout'[i].n # 0)
        BY <1>3, <2>4, <3>2 DEF IsAnswer, Replied
      <4>2. 1 \in DOMAIN stdin /\ Head(stdin) = stdin[1]
        BY <1>0, <1>3, <4>1, AskedStay
      <4>3. Spoken(stdout'[i])
        BY <1>1, <2>3, <2>4, <4>1, <4>2 DEF NumbersOK, Asked, Spoken
      <4>4. stdout'[i].n = turns'
        BY <1>3, <3>2, <4>3 DEF Runs
      <4> QED
        BY <1>2, <2>3, <4>4
    <3> QED
      BY <2>1, <3>1, <3>2
  <2>5. ASSUME Naming, answer.k = "reply"
        PROVE  /\ Coming(answer.n)'
               /\ \A i \in 0..Len(stdout') :
                    Piped(i)'.k \in {"item", "read"} => answer.n <= Piped(i)'.n
    <3>1. answer.n # 0 /\ answer.n <= turns
      BY <1>0, <1>1, <2>3, <2>5 DEF NumbersOK, Asked, BoundsOK
    <3>2. Coming(answer.n)'
      <4>1. \A m \in Nat \ {0} : m = answer.n => Coming(m)'
        BY <1>1, <2>2, <2>5 DEF NameOK
      <4> QED
        BY <1>2, <1>3, <3>1, <4>1 DEF Coming, Due
    <3>3. ASSUME NEW i \in 0..Len(stdout'), Piped(i)'.k \in {"item", "read"}
          PROVE  answer.n <= Piped(i)'.n
      <4>1. CASE i \in 0..Len(stdout)
        <5>1. Piped(i)' = Piped(i)
          BY <1>2, <1>3, <2>1, <4>1 DEF Piped
        <5> QED
          BY <1>1, <2>5, <3>3, <4>1, <5>1 DEF NameOK
      <4>2. CASE i \in New
        <5>1. Piped(i)' = stdout'[i] /\ Spoken(stdout'[i])
          BY <1>2, <2>1, <3>3, <4>2 DEF Piped, Spoken
        <5>2. stdout'[i].n = turns'
          BY <1>3, <4>2, <5>1 DEF Runs
        <5> QED
          BY <1>2, <2>3, <3>1, <5>1, <5>2
      <4> QED
        BY <1>2, <2>1, <4>1, <4>2
    <3> QED
      BY <3>2, <3>3
  <2>6. serverTurnID # 0 => Coming(serverTurnID)'
    <3>1. \A m \in Nat \ {0} : m = serverTurnID => Coming(m)'
      BY <1>1, <2>2 DEF NameOK
    <3> QED
      BY <1>2, <1>3, <3>1 DEF Coming, Due
  <2> QED
    BY <1>1, <1>3, <2>3, <2>4, <2>5, <2>6 DEF NameOK
\* The read loop takes the next message, which may be the reply.
<1>4. CASE Takes /\ UNCHANGED <<kind, turns, running, turnID, serverTurnID, doing, call, calls>>
  <2>1. /\ Len(stdout) # 0 /\ Len(stdout') = Len(stdout) - 1 /\ Head(stdout) = stdout[1]
        /\ DOMAIN stdout' = 1..(Len(stdout) - 1)
        /\ \A i \in 1..(Len(stdout) - 1) : stdout'[i] = stdout[i + 1]
    BY <1>0, <1>4, ReadOff DEF Takes
  <2>2. /\ \A i \in DOMAIN stdout' : i + 1 \in DOMAIN stdout /\ (IsAnswer(i)' <=> IsAnswer(i + 1))
        /\ \A i \in 1..Len(stdout') : Piped(i)' = Piped(i + 1) /\ i + 1 \in 2..Len(stdout)
        /\ Piped(0)' = rd'.m /\ rd'.m \in {Piped(1), Silent}
    <3>1. Piped(0)' = rd'.m /\ Piped(1) = stdout[1]
      BY DEF Piped
    <3>2. \A i \in 1..Len(stdout') : i # 0 /\ i + 1 # 0 /\ i + 1 \in 2..Len(stdout)
      BY <1>2, <2>1
    <3>3. rd'.m \in {Piped(1), Silent}
      BY <1>0, <1>4, <2>1, <3>1 DEF Takes
    <3> QED
      BY <1>2, <1>4, <2>1, <3>1, <3>2, <3>3 DEF Piped, IsAnswer
  <2>3. \A m \in Nat \ {0} : Coming(m) => Coming(m)'
    BY <1>0, <1>4, DueShifts
  <2>4. (Naming' <=> Naming) /\ (Naming => Asked)
    BY <1>4 DEF Naming, Asked
  <2>5. serverTurnID # 0 => Coming(serverTurnID)'
    <3>1. \A m \in Nat \ {0} : m = serverTurnID => Coming(m)'
      BY <1>1, <2>3 DEF NameOK
    <3> QED
      BY <1>2, <1>4, <3>1 DEF Coming, Due
  <2>6. ASSUME Naming, NEW i \in DOMAIN stdout', IsAnswer(i)'
        PROVE  serverTurnID <= stdout'[i].n
    BY <1>1, <2>1, <2>2, <2>6 DEF NameOK
  <2>7. ASSUME Naming, answer'.k = "reply"
        PROVE  /\ serverTurnID \in {0, answer'.n} /\ Coming(answer.n)'
               /\ \A i \in 0..Len(stdout') :
                    Piped(i)'.k \in {"item", "read"} => answer'.n <= Piped(i)'.n
    <3>1. CASE answer' = answer
      <4>1. serverTurnID \in {0, answer.n} /\ Coming(answer.n) /\ answer.n \in Nat \ {0}
        BY <1>1, <1>2, <2>4, <2>7, <3>1 DEF NameOK, NumbersOK, Asked
      <4>2. \A m \in Nat \ {0} : m = answer.n => Coming(m)'
        BY <2>3, <4>1
      <4>3. Coming(answer.n)'
        BY <3>1, <4>1, <4>2 DEF Coming, Due
      <4>4. \A i \in 0..Len(stdout') : Piped(i)'.k \in {"item", "read"} => answer.n <= Piped(i)'.n
        <5>1. \A i \in 0..Len(stdout) : Piped(i).k \in {"item", "read"} => answer.n <= Piped(i).n
          BY <1>1, <2>7, <3>1 DEF NameOK
        <5>2. \A i \in 0..Len(stdout') :
                Piped(i)' = Silent \/ \E j \in 0..Len(stdout) : Piped(i)' = Piped(j)
          BY <1>2, <2>1, <2>2
        <5> QED
          BY <1>0, <5>1, <5>2
      <4> QED
        BY <3>1, <4>1, <4>3, <4>4
    <3>2. CASE answer' = stdout[1] /\ rd' = Idle /\ call.c = stdout[1].by
      <4>1. /\ 1 \in DOMAIN stdout /\ IsAnswer(1) /\ stdout[1] = Piped(1) /\ 1 \in 0..Len(stdout)
            /\ stdout[1].k = "reply"
        BY <1>2, <2>1, <2>7, <3>2 DEF IsAnswer
      <4>2. /\ stdout[1].n \in Nat \ {0} /\ Spoken(Piped(1)) /\ serverTurnID <= stdout[1].n
            /\ stdout[1].n <= turns
        BY <1>0, <1>1, <1>2, <2>4, <2>7, <4>1 DEF NumbersOK, Asked, NameOK, Spoken, BoundsOK
      <4>3. \A j \in 0..Len(stdout) :
              Spoken(Piped(j)) => \A i \in 0..(j - 1) : Piped(i).n <= Piped(j).n
        BY <1>1 DEF LiveOK
      <4>4. Coming(answer.n)'
        <5>1. Due(1, stdout[1].n)
          BY <1>1, <4>1, <4>2 DEF LiveOK
        <5>2. \A m \in Nat \ {0} : Due(1, m) => Due(1 - 1, m)'
          BY <1>0, <1>4, <4>1, <1>2, DueShifts
        <5>3. \A m \in Nat \ {0} : m = stdout[1].n => Due(0, m)'
          BY <5>1, <5>2
        <5>4. \A m \in Nat \ {0} : m = stdout[1].n => Coming(m)'
          BY <1>0, <3>2, <5>3 DEF Coming
        <5> QED
          BY <3>2, <4>2, <5>4 DEF Coming, Due
      <4>5. serverTurnID \in {0, answer'.n}
        <5> SUFFICES ASSUME serverTurnID # 0 PROVE stdout[1].n <= serverTurnID
          BY <1>2, <3>2, <4>2
        <5>1. Coming(serverTurnID) /\ rd = Idle
          BY <1>1, <1>4 DEF NameOK, Takes
        <5>2. Due(0, serverTurnID)
          BY <1>0, <5>1 DEF Coming, IsDone
        <5>3. CASE running = serverTurnID
          BY <1>0, <4>2, <5>3 DEF Typing, HarnessTypes
        <5>4. CASE running # serverTurnID
          <6>1. PICK k \in 1..Len(stdout) :
                  /\ IsDone(stdout[k], serverTurnID)
                  /\ \A i \in 1..(k - 1) : stdout[i].n <= serverTurnID
            BY <5>2, <5>4 DEF Due
          <6>2. k # 1
            BY <4>1, <6>1 DEF IsDone
          <6>3. 1 \in 1..(k - 1)
            BY <1>2, <6>2
          <6> QED
            BY <6>1, <6>3
        <5> QED
          BY <5>3, <5>4
      <4>6. ASSUME NEW i \in 0..Len(stdout'), Piped(i)'.k \in {"item", "read"}
            PROVE  stdout[1].n <= Piped(i)'.n
        <5>1. i # 0
          BY <1>0, <2>2, <3>2, <4>6
        <5>2. Piped(i)' = Piped(i + 1) /\ i + 1 \in 2..Len(stdout)
          BY <1>2, <2>1, <2>2, <5>1
        <5>3. Spoken(Piped(i + 1)) /\ i + 1 \in 0..Len(stdout) /\ 1 \in 0..((i + 1) - 1)
          BY <1>2, <4>6, <5>2 DEF Spoken
        <5> QED
          BY <4>1, <4>3, <5>2, <5>3
      <4> QED
        BY <3>2, <4>4, <4>5, <4>6
    <3> QED
      BY <1>4, <2>1, <3>1, <3>2 DEF Takes
  <2> QED
    BY <1>4, <2>4, <2>5, <2>6, <2>7 DEF NameOK
\* The pipe is left alone: what is left to show.
<1>5. ASSUME UNCHANGED <<stdout, running, answer, call, doing, kind>>, rd'.m \in {rd.m, Silent},
             serverTurnID' # 0 => Coming(serverTurnID)', Naming' => Naming,
             Naming => /\ \A i \in DOMAIN stdout : IsAnswer(i) => serverTurnID' <= stdout[i].n
                       /\ answer.k = "reply" => serverTurnID' \in {0, answer.n} /\ Coming(answer.n)'
      PROVE  NameOK'
  <2>1. \A i : IsAnswer(i)' <=> IsAnswer(i)
    BY <1>5 DEF IsAnswer
  <2>2. \A i \in 0..Len(stdout) : Piped(i)' = Piped(i) \/ Piped(i)' = Silent
    BY <1>2, <1>5 DEF Piped
  <2>3. ASSUME Naming, answer.k = "reply", NEW i \in 0..Len(stdout),
               Piped(i)'.k \in {"item", "read"}
        PROVE  answer.n <= Piped(i)'.n
    BY <1>0, <1>1, <2>2, <2>3 DEF NameOK
  <2> QED
    BY <1>5, <2>1, <2>3 DEF NameOK
<1>6. CASE /\ Carries \/ SubagentOutput
           /\ UNCHANGED <<kind, turns, running, stdout, doing, call, calls, answer>> /\ rd' = Idle
  <2>1. rd.m.k # "done" /\ (Naming' <=> Naming) /\ turnID' = turnID /\ rd'.m = Silent
    BY <1>0, <1>6 DEF Carries, SubagentOutput, Naming, Asked
  <2>2. \/ serverTurnID' = serverTurnID
        \/ serverTurnID = 0 /\ rd.m.k \in {"item", "read"} /\ serverTurnID' = rd.m.n
    BY <1>6 DEF Carries, SubagentOutput, nameVars
  <2>3. ASSUME NEW m \in Nat, Coming(m)
        PROVE  Due(0, m) /\ rd.m.n <= m /\ Coming(m)'
    <3>1. Due(0, m) /\ rd.m.n <= m
      BY <2>1, <2>3 DEF Coming, IsDone
    <3> QED
      BY <1>6, <2>1, <3>1, ComingStays
  <2>4. ASSUME rd.m.k \in {"item", "read"}
        PROVE  Spoken(rd.m) /\ Due(0, rd.m.n) /\ rd.m.n \in Nat \ {0}
    <3>1. Spoken(rd.m) /\ 0 \in 0..Len(stdout) /\ Piped(0) = rd.m
      BY <1>2, <2>4 DEF Spoken
    <3> QED
      BY <1>1, <1>2, <3>1 DEF LiveOK
  <2>5. serverTurnID' # 0 => Coming(serverTurnID)'
    <3>1. \A m \in Nat : Due(0, m) => Coming(m)'
      BY <1>6, <2>1, ComingStays
    <3>2. serverTurnID' # 0 => serverTurnID' \in Nat /\ Due(0, serverTurnID')
      BY <1>1, <1>2, <2>2, <2>3, <2>4 DEF NameOK
    <3>3. \A m \in Nat : Coming(m)' /\ m = serverTurnID' => Coming(serverTurnID)'
      BY DEF Coming, Due
    <3> QED
      BY <3>1, <3>2, <3>3
  <2>6. ASSUME Naming, NEW i \in DOMAIN stdout, IsAnswer(i)
        PROVE  serverTurnID' <= stdout[i].n
    <3>1. CASE serverTurnID' = serverTurnID
      BY <1>1, <2>6, <3>1 DEF NameOK
    <3>2. CASE rd.m.k \in {"item", "read"} /\ serverTurnID' = rd.m.n
      <4>1. stdout[i].k = "reply" /\ stdout[i].n # 0 /\ Piped(i) = stdout[i] /\ i \in 0..Len(stdout)
        BY <1>1, <1>2, <2>6 DEF NumbersOK, Naming, Asked, IsAnswer
      <4>2. Spoken(Piped(i)) /\ 0 \in 0..(i - 1)
        BY <1>2, <2>6, <4>1 DEF Spoken
      <4>3. Piped(0).n <= Piped(i).n
        BY <1>1, <4>1, <4>2 DEF LiveOK
      <4> QED
        BY <1>2, <3>2, <4>1, <4>3
    <3> QED
      BY <2>2, <3>1, <3>2
  <2>7. ASSUME Naming, answer.k = "reply"
        PROVE  serverTurnID' \in {0, answer.n} /\ Coming(answer.n)'
    <3>1. /\ serverTurnID \in {0, answer.n} /\ Coming(answer.n)
          /\ rd.m.k \in {"item", "read"} => answer.n <= rd.m.n
      <4>1. 0 \in 0..Len(stdout)
        BY <1>2
      <4> QED
        BY <1>1, <1>2, <2>7, <4>1 DEF NameOK
    <3>2. rd.m.n <= answer.n
      BY <1>2, <2>3, <3>1
    <3>3. serverTurnID' \in {0, answer.n}
      BY <1>2, <2>2, <3>1, <3>2
    <3>4. \A m \in Nat : m = answer.n => Coming(m)'
      BY <2>3, <3>1
    <3> QED
      BY <1>2, <1>6, <3>3, <3>4 DEF Coming, Due
  <2> QED
    BY <1>5, <1>6, <2>1, <2>5, <2>6, <2>7
<1>7. CASE /\ OpensOne /\ UNCHANGED <<kind, turns, running, stdout, doing, call, calls, answer>>
           /\ rd' = Idle
  <2>1. ~Naming'
    <3>1. minted + 1 \notin Prompts
      BY <1>0, TurnsApart DEF Turns
    <3> QED
      BY <1>7, <3>1 DEF OpensOne, Naming, Asked
  <2>2. Spoken(rd.m) /\ Due(0, rd.m.n) /\ rd.m.n \in Nat
    <3>1. Spoken(rd.m) /\ 0 \in 0..Len(stdout) /\ Piped(0) = rd.m
      BY <1>2, <1>7 DEF Spoken, OpensOne
    <3> QED
      BY <1>1, <1>2, <3>1 DEF LiveOK
  <2>3. serverTurnID' # 0 => Coming(serverTurnID)'
    <3>1. \A m \in Nat : m = rd.m.n => Coming(m)'
      BY <1>0, <1>7, <2>2, ComingStays
    <3>2. serverTurnID' # 0 => serverTurnID' = rd.m.n
      BY <1>7 DEF OpensOne
    <3> QED
      BY <2>2, <3>1, <3>2 DEF Coming, Due
  <2> QED
    BY <1>0, <1>5, <1>7, <2>1, <2>3 DEF NameOK
<1>8. CASE EndsOne
  BY <1>0, <1>8, TurnsApart DEF EndsOne, Ends, AfterEnd, NameOK, Naming, Asked, Turns
<1>9. CASE StaleCompletion /\ rd'.m \in {rd.m, Silent}
             /\ UNCHANGED <<kind, turns, running, stdout, turnID, serverTurnID, doing, call,
                            calls, answer>>
  <2>1. Naming' <=> Naming
    BY <1>9 DEF Naming, Asked
  <2>2. ASSUME NEW m \in Nat, Coming(m), rd'.m = rd.m \/ m = serverTurnID
        PROVE  Coming(m)'
    <3>1. CASE rd'.m = rd.m
      BY <1>9, <2>2, <3>1, ComingStays
    <3>2. CASE rd'.m # rd.m /\ m = serverTurnID
      <4>1. ~IsDone(rd.m, m) /\ rd'.m = Silent
        <5>1. rd \in InHand
          BY <1>0, <1>9, Noticed DEF StaleCompletion
        <5>2. [rd EXCEPT !.go = TRUE].m = rd.m
          BY <5>1 DEF InHand
        <5>3. serverTurnID \notin {0, rd.m.n}
          BY <1>9, <3>2, <5>2 DEF StaleCompletion
        <5> QED
          BY <1>9, <3>2, <5>3 DEF IsDone
      <4> QED
        BY <1>9, <2>2, <4>1, ComingStays DEF Coming
    <3> QED
      BY <2>2, <3>1, <3>2
  <2>3. rd'.m = rd.m \/ serverTurnID # 0
    <3>1. rd \in InHand
      BY <1>0, <1>9, Noticed DEF StaleCompletion
    <3>2. [rd EXCEPT !.go = TRUE].m = rd.m
      BY <3>1 DEF InHand
    <3> QED
      BY <1>9, <3>2 DEF StaleCompletion
  <2>4. \A m \in Nat : Coming(m)' /\ m = serverTurnID' => Coming(serverTurnID)'
    BY DEF Coming, Due
  <2>5. \A m \in Nat : Coming(m)' /\ m = answer'.n => Coming(answer.n)'
    BY DEF Coming, Due
  <2>6. serverTurnID' # 0 => Coming(serverTurnID)'
    BY <1>1, <1>2, <1>9, <2>2, <2>4 DEF NameOK
  <2>7. Naming /\ answer.k = "reply" => serverTurnID' \in {0, answer.n} /\ Coming(answer.n)'
    BY <1>1, <1>2, <1>9, <2>2, <2>3, <2>5 DEF NameOK
  <2>8. Naming => \A i \in DOMAIN stdout : IsAnswer(i) => serverTurnID' <= stdout[i].n
    BY <1>1, <1>9 DEF NameOK
  <2> QED
    BY <1>5, <1>9, <2>1, <2>6, <2>7, <2>8
\* The reply has been taken, or the call is over without it.
<1>10. CASE /\ (Granted \/ Refused \/ TimesOut) /\ Returns
            /\ UNCHANGED <<kind, turns, running, stdout, rd>>
  <2>1. ~Naming'
    BY <1>10 DEF Returns, Naming, Asked
  <2>2. serverTurnID' = serverTurnID \/ (serverTurnID' = answer.n /\ Coming(answer.n))
    <3>1. CASE /\ serverTurnID' = answer.n /\ Granted /\ kind = "codex" /\ call.by \in Prompts
               /\ turnID = call.by
      <4>1. Naming /\ answer.k = "reply"
        BY <1>0, <3>1 DEF Granted, CallOK, Naming, Asked
      <4> QED
        BY <1>1, <3>1, <4>1 DEF NameOK
    <3> QED
      BY <1>10, <3>1 DEF Granted, Refused, TimesOut, Fails, Named
  <2>3. \A m \in Nat : Coming(m) /\ m = serverTurnID' => Coming(serverTurnID)'
    BY <1>10 DEF Coming, Due
  <2>4. serverTurnID' # 0 => Coming(serverTurnID)'
    BY <1>1, <1>2, <2>2, <2>3 DEF NameOK
  <2> QED
    BY <2>1, <2>4 DEF NameOK
\* A call begins: nothing has answered it yet.
<1>11. ASSUME NEW what \in {"begin", "steer", "cancel"}, NEW k, NEW b, NEW n,
              Calling(what, k, b, n),
              turnID' # turnID => doing' = "calling"
       PROVE  NameOK'
  <2>1. UNCHANGED <<kind, alive, turns, running, stdout, rd, serverTurnID>> /\ doing = "loop"
    BY <1>11 DEF Calling
  <2>2. serverTurnID' # 0 => Coming(serverTurnID)'
    BY <1>1, <2>1 DEF NameOK, Coming, Due
  <2>3. CASE UNCHANGED <<doing, call, calls, answer, stdin>>
    BY <2>1, <2>2, <2>3 DEF NameOK, Naming, Asked
  <2>4. CASE Calls(what, k, b, n)
    <3>1. call'.c = calls + 1 /\ answer' = Silent /\ calls \in Nat
      BY <1>0, <1>1, <2>4 DEF Calls, Typing, CallTypes
    <3>2. \A i \in DOMAIN stdout' : ~IsAnswer(i)'
      <4>1. \A i \in DOMAIN stdout :
              stdout[i].k = "reply" => stdout[i].by \in Nat /\ stdout[i].by <= calls
        BY <1>0, <1>1, InPipe DEF NumbersOK, Frames, Notices, Replies
      <4> QED
        BY <2>1, <3>1, <4>1 DEF IsAnswer
    <3> QED
      BY <1>0, <2>2, <3>1, <3>2 DEF NameOK
  <2> QED
    BY <1>11, <2>3, <2>4 DEF Calling
<1>12. CASE \/ \E t \in Prompts \cup Actions : BeginTurn(t)
            \/ \E q \in Steers : Steer(q)
            \/ CodexCancel \/ PiCancel
  <2>1. \E what \in {"begin", "steer", "cancel"} : \E k, b, n :
          Calling(what, k, b, n) /\ (turnID' # turnID => doing' = "calling")
    <3>1. ASSUME NEW t \in Prompts \cup Actions, BeginTurn(t)
          PROVE  \E what \in {"begin", "steer", "cancel"} : \E k, b, n :
                   Calling(what, k, b, n) /\ (turnID' # turnID => doing' = "calling")
      BY <1>0, <3>1, WhoAsks
    <3> QED
      BY <1>0, <1>12, WhoAsks
  <2> QED
    BY <1>11, <2>1
<1>13. CASE /\ UNCHANGED <<kind, turns, running, stdout, rd, turnID, serverTurnID, call, calls,
                           answer>>
            /\ doing' = "calling" <=> doing = "calling"
  BY <1>1, <1>13 DEF NameOK, Coming, Due, Naming, Asked, IsAnswer, Piped
<1> QED
  BY <1>0, <1>3, <1>4, <1>6, <1>7, <1>8, <1>9, <1>10, <1>12, <1>13, WhoSteps DEF Rests

-----------------------------------------------------------------------------
(* Stops, open turns, and the theorems they give.                           *)

\* A turn that runs is interrupted only while its interrupt is asked for.
LEMMA StopStep ==
  ASSUME CallInv, [SessionNext]_sessionVars, alive'
  PROVE  StopOK'
<1>0. TurnInv /\ Typing /\ BoundsOK /\ CallOK /\ PiOK /\ Silent.k = "none"
  BY DEF CallInv, TurnInv, Silent
<1>1. alive /\ LiveOK /\ NameOK /\ NumbersOK /\ StopOK
  BY <1>0, WhoSteps, WhoAsks DEF CallInv, PipeInv, Rests, Calling
<1>2. /\ serverTurnID \in 0..turns /\ turns \in Nat /\ running \in {0, turns}
      /\ Len(stdout) \in Nat /\ DOMAIN stdout = 1..Len(stdout)
  BY <1>0, LenProperties DEF Typing, TurnTypes, HarnessTypes
<1>3. CASE /\ Adds /\ Runs /\ Replied
           /\ UNCHANGED <<kind, turnID, serverTurnID, interrupting, rd, doing, call, calls, answer>>
  <2> SUFFICES ASSUME interrupting, running' = serverTurnID
               PROVE  doing = "calling" /\ call.what = "cancel" /\ call.n = serverTurnID
                        /\ ~Answered'
    BY <1>1, <1>3 DEF StopOK
  <2>1. serverTurnID # 0 /\ kind # "pi"
    BY <1>0, <1>1 DEF StopOK, PiOK
  <2>2. running = serverTurnID
    BY <1>2, <1>3, <2>1 DEF Runs
  <2>3. doing = "calling" /\ call.what = "cancel" /\ call.n = serverTurnID /\ ~Answered
    BY <1>1, <2>2 DEF StopOK
  <2>4. ASSUME NEW i \in DOMAIN stdout', IsAnswer(i)'
        PROVE  FALSE
    <3>1. CASE i \in DOMAIN stdout
      BY <1>2, <1>3, <2>3, <2>4, <3>1 DEF Adds, Answered, IsAnswer
    <3>2. CASE i \in New
      <4>1. stdin # <<>> /\ Head(stdin).n = call.c
            /\ (Head(stdin).k = "stop" => kind = "pi" \/ running' = 0)
        BY <1>3, <2>4, <3>2 DEF Replied, IsAnswer
      <4>2. 1 \in DOMAIN stdin /\ Head(stdin) = stdin[1]
        BY <1>0, <1>3, <4>1, AskedStay
      <4>3. Head(stdin).k = "stop"
        BY <1>1, <2>3, <4>1, <4>2 DEF NumbersOK
      <4> QED
        BY <2>1, <4>1, <4>3
    <3> QED
      <4>1. DOMAIN stdout' = 1..Len(stdout') /\ Len(stdout') \in Nat
        BY <1>3, LenProperties DEF Adds
      <4> QED
        BY <1>2, <1>3, <2>4, <3>1, <3>2, <4>1 DEF New, Adds
  <2> QED
    BY <1>3, <2>3, <2>4 DEF Answered
<1>4. CASE Takes /\ UNCHANGED <<kind, turns, running, turnID, serverTurnID, interrupting, doing,
                                call, calls>>
  <2> SUFFICES ASSUME interrupting, running = serverTurnID
               PROVE  doing = "calling" /\ call.what = "cancel" /\ call.n = serverTurnID
                        /\ ~Answered'
    BY <1>1, <1>4 DEF StopOK
  <2>1. doing = "calling" /\ call.what = "cancel" /\ call.n = serverTurnID /\ ~Answered
    BY <1>1 DEF StopOK
  <2>2. /\ Len(stdout) # 0 /\ Head(stdout) = stdout[1] /\ DOMAIN stdout' = 1..(Len(stdout) - 1)
        /\ \A i \in 1..(Len(stdout) - 1) : stdout'[i] = stdout[i + 1]
    BY <1>0, <1>4, ReadOff DEF Takes
  <2>3. \A i \in DOMAIN stdout' : ~IsAnswer(i)'
    <3>1. \A i \in DOMAIN stdout' : i + 1 \in DOMAIN stdout
      BY <1>2, <2>2
    <3> QED
      BY <1>4, <2>1, <2>2, <3>1 DEF Answered, IsAnswer
  <2>4. answer'.k # "reply"
    <3>1. 1 \in DOMAIN stdout
      BY <1>2, <2>2
    <3> QED
      BY <1>4, <2>1, <2>2, <3>1 DEF Answered, IsAnswer, Takes
  <2> QED
    BY <2>1, <2>3, <2>4 DEF Answered
<1>5. CASE /\ Carries \/ OpensOne \/ EndsOne \/ SubagentOutput
           /\ UNCHANGED <<kind, turns, running, stdout, doing, call, calls, answer>>
  <2> SUFFICES ASSUME interrupting' PROVE StopOK'
    BY DEF StopOK
  <2>1. interrupting /\ ~EndsOne /\ kind # "pi"
    BY <1>0, <1>5 DEF Carries, OpensOne, EndsOne, SubagentOutput, nameVars, Ends, PiOK
  <2>2. /\ serverTurnID # 0
        /\ running = serverTurnID =>
             doing = "calling" /\ call.what = "cancel" /\ call.n = serverTurnID /\ ~Answered
    BY <1>1, <2>1 DEF StopOK
  <2>3. Answered' = Answered
    BY <1>5 DEF Answered, IsAnswer
  <2>4. CASE serverTurnID' = serverTurnID
    BY <1>5, <2>2, <2>3, <2>4 DEF StopOK
  <2>5. CASE OpensOne /\ serverTurnID' # serverTurnID
    <3>1. rd.m.n \in Nat \ {0} /\ serverTurnID' = rd.m.n /\ ~IsDone(rd.m, serverTurnID)
      BY <1>0, <2>1, <2>5, InPipe DEF OpensOne, Spoken, IsDone
    <3>2. rd.m.n <= serverTurnID
      BY <1>1, <2>2, <3>1 DEF NameOK, Coming
    <3>3. running # rd.m.n
      BY <1>2, <2>5, <3>1, <3>2
    <3> QED
      BY <1>5, <3>1, <3>3 DEF StopOK
  <2> QED
    BY <1>5, <2>1, <2>2, <2>4, <2>5 DEF Carries, SubagentOutput, nameVars
<1>6. CASE (Granted \/ Refused \/ TimesOut) /\ UNCHANGED <<kind, turns, running, stdout, rd>>
  <2> SUFFICES ASSUME interrupting'
               PROVE  serverTurnID' = serverTurnID /\ serverTurnID # 0
                                /\ running # serverTurnID
    BY <1>6 DEF StopOK
  <2>1. interrupting
    BY <1>6 DEF Granted, Refused, TimesOut, Fails
  <2>2. /\ serverTurnID # 0
        /\ running = serverTurnID =>
             doing = "calling" /\ call.what = "cancel" /\ call.n = serverTurnID /\ ~Answered
    BY <1>1, <2>1 DEF StopOK
  <2>3. CASE Granted
    <3>1. answer.k = "reply" /\ Answered
      BY <2>3 DEF Granted, Answered
    <3>2. serverTurnID' # serverTurnID => serverTurnID' = answer.n /\ Naming
      BY <1>0, <2>3 DEF Granted, Named, Naming, Asked, CallOK
    <3>3. Naming => serverTurnID \in {0, answer.n}
      BY <1>1, <3>1 DEF NameOK
    <3> QED
      BY <2>2, <3>1, <3>2, <3>3
  <2>4. CASE Refused \/ TimesOut
    <3>1. serverTurnID' = serverTurnID /\ ~(call.what = "cancel" /\ serverTurnID = call.n)
      BY <2>4 DEF Refused, TimesOut, Fails, Rearms
    <3> QED
      BY <2>2, <3>1
  <2> QED
    BY <1>6, <2>3, <2>4
<1>7. ASSUME NEW what, NEW k, NEW b, NEW n, Calling(what, k, b, n), interrupting' = interrupting
      PROVE  StopOK'
  <2>1. interrupting => serverTurnID # 0 /\ running # serverTurnID
    BY <1>1, <1>7 DEF StopOK, Calling
  <2> QED
    BY <1>7, <2>1 DEF StopOK, Calling
<1>8. CASE Calling("cancel", "stop", None, serverTurnID) /\ serverTurnID # 0
             /\ Calls("cancel", "stop", None, serverTurnID)
  <2>1. /\ doing' = "calling" /\ call'.what = "cancel" /\ call'.n = serverTurnID
        /\ call'.c = calls + 1
        /\ answer' = Silent /\ UNCHANGED <<stdout, serverTurnID>> /\ calls \in Nat
    BY <1>0, <1>1, <1>8 DEF Calling, Calls, Typing, CallTypes
  <2>2. \A i \in DOMAIN stdout' : ~IsAnswer(i)'
    <3>1. \A i \in DOMAIN stdout :
            stdout[i].k = "reply" => stdout[i].by \in Nat /\ stdout[i].by <= calls
      BY <1>0, <1>1, InPipe DEF NumbersOK, Frames, Notices, Replies
    <3> QED
      BY <2>1, <3>1 DEF IsAnswer
  <2> QED
    BY <1>0, <1>8, <2>1, <2>2 DEF StopOK, Answered
<1>9. CASE \/ \E t \in Prompts \cup Actions : BeginTurn(t)
           \/ \E q \in Steers : Steer(q)
           \/ CodexCancel \/ PiCancel
  <2>1. \/ \E what, k, b, n : Calling(what, k, b, n) /\ interrupting' = interrupting
        \/ /\ Calling("cancel", "stop", None, serverTurnID) /\ serverTurnID # 0
           /\ Calls("cancel", "stop", None, serverTurnID)
    <3>1. ASSUME NEW t \in Prompts \cup Actions, BeginTurn(t)
          PROVE  \E what, k, b, n : Calling(what, k, b, n) /\ interrupting' = interrupting
      BY <1>0, <3>1, WhoAsks
    <3> QED
      BY <1>0, <1>9, <3>1, WhoAsks
  <2> QED
    BY <1>7, <1>8, <2>1
<1>10. CASE /\ UNCHANGED <<kind, turns, running, stdout, rd, turnID, serverTurnID, interrupting,
                           call, calls,
                           answer>>
            /\ doing' = "calling" <=> doing = "calling"
  BY <1>1, <1>10 DEF StopOK, Answered, IsAnswer
<1>11. CASE UNCHANGED <<running, stdout, serverTurnID, interrupting, doing, call, answer>>
  BY <1>1, <1>11 DEF StopOK, Answered, IsAnswer
<1> QED
  BY <1>0, <1>3, <1>4, <1>5, <1>6, <1>9, <1>10, <1>11, WhoSteps DEF Rests

\* An open turn is on its way to its end.
LEMMA OpenStep ==
  ASSUME CallInv, [SessionNext]_sessionVars, alive'
  PROVE  OpenOK'
<1>0. TurnInv /\ Typing /\ Silent.k = "none" /\ Idle.m = Silent
  BY DEF CallInv, TurnInv, Silent, Idle
<1>1. alive /\ LiveOK /\ NameOK /\ NumbersOK /\ OpenOK
  BY <1>0, WhoSteps, WhoAsks DEF CallInv, PipeInv, Rests, Calling
<1>2. Len(stdout) \in Nat /\ DOMAIN stdout = 1..Len(stdout)
  BY <1>0, LenProperties DEF Typing, HarnessTypes
<1>3. CASE Adds /\ Runs /\ UNCHANGED <<turnID, rd, doing, call, answer>>
  <2>1. /\ DOMAIN stdout' = 1..Len(stdout') /\ Len(stdout') \in Nat
        /\ \A i \in New \cup DOMAIN stdout : i \in DOMAIN stdout'
        /\ \A i \in DOMAIN stdout : stdout'[i] = stdout[i]
    BY <1>2, <1>3, LenProperties DEF Adds, New
  <2>2. DoneIn => DoneIn'
    BY <2>1 DEF DoneIn
  <2>3. running # 0 => running' # 0 \/ DoneIn'
    BY <1>3, <2>1 DEF Runs, DoneIn, IsDone
  <2> QED
    BY <1>1, <1>3, <2>2, <2>3 DEF OpenOK, InFlight
<1>4. CASE Takes /\ UNCHANGED <<turnID, running, doing, call>>
  <2>1. /\ Len(stdout) # 0 /\ Head(stdout) = stdout[1] /\ DOMAIN stdout' = 1..(Len(stdout) - 1)
        /\ \A i \in 1..(Len(stdout) - 1) : stdout'[i] = stdout[i + 1]
    BY <1>0, <1>4, ReadOff DEF Takes
  <2>2. ASSUME NEW i \in DOMAIN stdout, stdout[i].k = "done"
        PROVE  rd'.m.k = "done" \/ DoneIn'
    <3>1. CASE i = 1
      BY <1>4, <2>1, <2>2, <3>1 DEF Takes
    <3>2. CASE i # 1
      <4>1. i - 1 \in DOMAIN stdout' /\ stdout'[i - 1] = stdout[i]
        BY <1>2, <2>1, <3>2
      <4> QED
        BY <2>2, <4>1 DEF DoneIn
    <3> QED
      BY <3>1, <3>2
  <2>3. InFlight => InFlight' \/ running # 0 \/ DoneIn
    <3> SUFFICES ASSUME InFlight, answer' = stdout[1], stdout[1].k = "reply", call.c = stdout[1].by
                 PROVE  running # 0 \/ DoneIn
      BY <1>4, <2>1 DEF InFlight, Takes
    <3>1. 1 \in DOMAIN stdout /\ IsAnswer(1)
      BY <1>2, <2>1 DEF IsAnswer
    <3> QED
      BY <1>1, <3>1 DEF NumbersOK, InFlight, DoneIn
  <2>4. rd.m.k # "done"
    BY <1>0, <1>4 DEF Takes
  <2> QED
    BY <1>1, <1>4, <2>2, <2>3, <2>4 DEF OpenOK, DoneIn
<1>5. ASSUME NEW m \in Nat \ {0}, Due(0, m), UNCHANGED <<running, stdout>>
      PROVE  OpenOK'
  BY <1>2, <1>5 DEF Due, IsDone, OpenOK, DoneIn
<1>6. CASE /\ Carries \/ OpensOne \/ EndsOne \/ SubagentOutput
           /\ UNCHANGED <<running, stdout, doing, call, answer>>
  <2>1. CASE Carries \/ SubagentOutput
    <3>1. turnID' = turnID /\ rd.m.k # "done"
      BY <2>1 DEF Carries, SubagentOutput
    <3> QED
      BY <1>1, <1>6, <3>1 DEF OpenOK, InFlight, DoneIn
  <2>2. CASE OpensOne
    <3>1. Spoken(rd.m) /\ Piped(0) = rd.m /\ 0 \in 0..Len(stdout) /\ rd.m.n \in Nat \ {0}
      BY <1>0, <1>2, <2>2, InPipe DEF OpensOne, Spoken
    <3>2. Due(0, rd.m.n)
      BY <1>1, <3>1 DEF LiveOK
    <3> QED
      BY <1>5, <1>6, <3>1, <3>2
  <2>3. CASE EndsOne
    BY <2>3 DEF EndsOne, Ends, AfterEnd, OpenOK
  <2> QED
    BY <1>6, <2>1, <2>2, <2>3
<1>7. CASE StaleCompletion /\ UNCHANGED <<turnID, running, stdout, doing, call, answer>>
  <2>1. rd \in InHand
    BY <1>0, <1>7, Noticed DEF StaleCompletion
  <2>2. [rd EXCEPT !.go = TRUE].m = rd.m
    BY <2>1 DEF InHand
  <2>3. CASE rd'.m = rd.m
    BY <1>1, <1>7, <2>3 DEF OpenOK, InFlight, DoneIn
  <2>4. CASE serverTurnID \notin {0, rd.m.n}
    <3>1. Due(0, serverTurnID) /\ serverTurnID \in Nat \ {0}
      BY <1>0, <1>1, <2>4 DEF NameOK, Coming, IsDone, Typing, TurnTypes
    <3> QED
      BY <1>5, <1>7, <3>1
  <2> QED
    BY <1>7, <2>2, <2>3, <2>4 DEF StaleCompletion
<1>8. CASE (Granted \/ Refused \/ TimesOut) /\ UNCHANGED <<running, stdout, rd>>
  <2>1. turnID' # None => turnID' = turnID /\ ~InFlight
    BY <1>8 DEF Granted, Refused, TimesOut, Fails, InFlight
  <2> QED
    BY <1>1, <1>8, <2>1 DEF OpenOK, DoneIn
<1>9. ASSUME NEW what, NEW k, NEW b, NEW n, Calling(what, k, b, n),
             turnID' # turnID => doing' = "calling" /\ call'.what = "begin" /\ call'.by = turnID'
      PROVE  OpenOK'
  <2>1. UNCHANGED <<running, stdout, rd, alive>> /\ ~InFlight
    BY <1>9 DEF Calling, InFlight
  <2>2. CASE turnID' = turnID
    BY <1>1, <2>1, <2>2 DEF OpenOK, DoneIn
  <2>3. CASE turnID' # turnID
    <3>1. answer' = Silent
      BY <1>1, <1>9, <2>3 DEF Calling, Calls
    <3> QED
      BY <1>0, <1>9, <2>3, <3>1 DEF OpenOK, InFlight
  <2> QED
    BY <2>2, <2>3
<1>10. CASE \/ \E t \in Prompts \cup Actions : BeginTurn(t)
            \/ \E q \in Steers : Steer(q)
            \/ CodexCancel \/ PiCancel
  <2>1. \E what, k, b, n : /\ Calling(what, k, b, n)
                           /\ turnID' # turnID =>
                                doing' = "calling" /\ call'.what = "begin" /\ call'.by = turnID'
    <3>1. ASSUME NEW t \in Prompts \cup Actions, BeginTurn(t)
          PROVE  \E what, k, b, n : /\ Calling(what, k, b, n)
                                    /\ turnID' # turnID =>
                                        /\ doing' = "calling"
                                        /\ call'.what = "begin" /\ call'.by = turnID'
      BY <1>0, <3>1, WhoAsks
    <3> QED
      BY <1>0, <1>10, <3>1, WhoAsks
  <2> QED
    BY <1>9, <2>1
<1>11. CASE /\ UNCHANGED <<running, stdout, rd, turnID, call, answer>>
            /\ doing' = "calling" <=> doing = "calling"
  BY <1>1, <1>11 DEF OpenOK, InFlight, DoneIn
<1> QED
  BY <1>0, <1>3, <1>4, <1>6, <1>7, <1>8, <1>10, <1>11, WhoSteps DEF Rests

\* The invariant of calls and names holds throughout.
LEMMA CallsCorrect == SessionSpec => []CallInv
<1>1. SessionInit => CallInv
  <2> SUFFICES ASSUME SessionInit PROVE PipeInv
    BY TurnInvInit DEF CallInv
  <2>1. /\ stdin = <<>> /\ stdout = <<>> /\ rd = Idle /\ serverTurnID = 0 /\ interrupting = FALSE
        /\ turnID = None /\ doing = "loop" /\ DOMAIN stdin = {} /\ DOMAIN stdout = {}
        /\ Len(stdout) = 0
    BY DEF SessionInit
  <2>2. ~Spoken(Silent) /\ Idle.m = Silent
    BY DEF Spoken, Silent, Idle
  <2>3. LiveOK
    BY <2>1, <2>2 DEF LiveOK, Piped
  <2> QED
    BY <2>1, <2>3 DEF PipeInv, NumbersOK, NameOK, Naming, Asked, StopOK, OpenOK
<1>2. CallInv /\ [SessionNext]_sessionVars => CallInv'
  <2> SUFFICES ASSUME CallInv, [SessionNext]_sessionVars PROVE CallInv'
    OBVIOUS
  <2>1. TurnInv'
    BY TurnInvStep DEF CallInv
  <2>2. alive' => NumbersOK' /\ LiveOK' /\ NameOK' /\ StopOK' /\ OpenOK'
    BY NumbersStep, LiveStep, NameStep, StopStep, OpenStep
  <2> QED
    BY <2>1, <2>2 DEF CallInv, PipeInv
<1> QED
  BY <1>1, <1>2, PTL DEF SessionSpec

\* A session whose harness is at rest, with nothing on its way, has no turn open: no
\* order of a call's reply, its failure and the notices of a turn leaves one.
THEOREM NoTurnIsStuck == SessionSpec => []NoTurnStuck
<1>1. CallInv => NoTurnStuck
  BY DEF CallInv, PipeInv, OpenOK, NoTurnStuck, AtRest, Idle, Silent, DoneIn, InFlight
<1> QED
  BY <1>1, CallsCorrect, PTL

\* A stop that is coalesced has one before it that will be answered, by the reply to its
\* call or by the completion of its turn, whatever the harness answers and when.
THEOREM CoalescedStopIsAnswered == SessionSpec => []StopStaysArmed
<1>1. CallInv => StopStaysArmed
  <2> SUFFICES ASSUME CallInv, alive, interrupting, ~(doing = "calling" /\ call.what = "cancel")
               PROVE  \/ \E i \in DOMAIN stdout : stdout[i] = Message("done", serverTurnID, None)
                      \/ rd.m = Message("done", serverTurnID, None)
    BY DEF StopStaysArmed, CallInv, TurnInv, Typing, HarnessTypes
  <2>1. Typing /\ Coming(serverTurnID) /\ running # serverTurnID
    BY DEF CallInv, TurnInv, PipeInv, StopOK, NameOK
  <2>2. \A e \in Frames : IsDone(e, serverTurnID) => e = Message("done", serverTurnID, None)
    BY DEF Frames, Notices, Replies, IsDone, Message
  <2>3. CASE IsDone(rd.m, serverTurnID)
    <3>1. rd.m \in Frames
      BY <2>1, <2>3, Noticed DEF IsDone, Frames
    <3> QED
      BY <2>2, <2>3, <3>1
  <2>4. CASE Due(0, serverTurnID)
    <3>1. PICK k \in (0 + 1)..Len(stdout) : IsDone(stdout[k], serverTurnID)
      BY <2>1, <2>4 DEF Due
    <3>2. k \in DOMAIN stdout /\ stdout[k] \in Frames
      BY <2>1, <3>1, InPipe
    <3> QED
      BY <2>2, <3>1, <3>2
  <2> QED
    BY <2>1, <2>3, <2>4 DEF Coming
<1> QED
  BY <1>1, CallsCorrect, PTL

=============================================================================
