--------------------------- MODULE WorkspaceProofs ---------------------------
(***************************************************************************)
(* Proofs about WorkspaceLifecycle, for every set of threads that share a   *)
(* checkout and any number of actors, goroutines, stops and crashes.        *)
(***************************************************************************)
EXTENDS WorkspaceLifecycle, FiniteSetTheorems, TLAPS

-----------------------------------------------------------------------------
(* The inductive invariant.                                                 *)

CreatorRec == [thread : Someone, at : {"none", "row", "adopt", "hook", "check"},
               actor : Actors \cup {NoActor}]
AskRec == [thread : Someone, purge : BOOLEAN, remove : BOOLEAN, placed : BOOLEAN]
WorkRec == [kind : {"none", "provision", "cleanup"}, thread : Someone,
            actor : Actors \cup {NoActor},
            at : {"none", "start", "tree", "record", "activate", "report",
                  "look", "remove", "release"},
            purge : BOOLEAN, remove : BOOLEAN, placed : BOOLEAN]

RowTypes == /\ row \in [Threads -> Phases]
            /\ placed \subseteq Threads /\ ended \subseteq Threads
            /\ late \subseteq Threads /\ hasty \subseteq Threads
            /\ tree \in BOOLEAN /\ up \in BOOLEAN /\ stops \in Nat
ActorTypes == /\ table \in [Threads -> Actors \cup {NoActor}]
              /\ owner \in [Actors -> Someone]
              /\ \A a \in alive \cup harness \cup hooked \cup waking :
                   a \in Actors /\ owner[a] # "none"
              /\ harness \subseteq alive
CreatorTypes == creator \in CreatorRec /\ asked \in AskRec
WorkTypes == work \in [Works -> WorkRec]
Types == RowTypes /\ ActorTypes /\ CreatorTypes /\ WorkTypes

\* An actor belongs to one thread, wherever it is kept.
TableOwn == \A t \in Threads : table[t] # NoActor => owner[table[t]] = t
WorkOwn == \A w \in Works :
  \/ work[w] = NoWork
  \/ /\ work[w].kind # "none" /\ work[w].thread \in Threads
     /\ work[w].actor \in Actors /\ owner[work[w].actor] = work[w].thread
LockOwn ==
  /\ creator = Nobody \/ (creator.thread \in Threads /\ creator.at # "none")
  /\ creator.at \in {"row", "adopt"} => creator.actor = NoActor
  /\ creator.at \in {"hook", "check"} =>
       creator.actor \in Actors /\ owner[creator.actor] = creator.thread
  /\ asked = NoAsk \/ asked.thread \in Threads
OwnOK == TableOwn /\ WorkOwn /\ LockOwn

\* An actor in the table is taken out of it when it ends, unless adopt is about
\* to see to that.
HookOK ==
  \A t \in Threads : table[t] # NoActor =>
    /\ table[t] \in hooked \/ (creator.at = "hook" /\ creator.actor = table[t])
    /\ table[t] \in alive \/ creator.actor = table[t]

Quiet(t) == \A a \in harness \cup waking : owner[a] # t

\* What holds of a thread nobody asked for while it was being prepared.
Calm(t) ==
  /\ \A v, w \in Works : work[v].thread = t /\ work[w].thread = t => v = w
  /\ creator.thread = t =>
       /\ \A w \in Works : work[w].thread # t
       /\ asked.thread # t /\ Quiet(t)
       /\ row[t] \in IF creator.at = "row" THEN {"none"} ELSE {"creating", "provision_failed"}
       /\ creator.at \in {"hook", "check"} => table[t] = creator.actor
  /\ asked.thread = t =>
       /\ \A w \in Works : work[w].thread # t
       /\ row[t] \notin {"none", "closed"}
  /\ \A w \in Works : work[w].thread = t /\ work[w].kind = "provision" =>
       /\ row[t] \notin {"none", "closed", "cleaning", "cleanup_failed"}
       /\ work[w].actor \in alive => table[t] = work[w].actor
  /\ \A w \in Works : work[w].thread = t /\ work[w].kind = "cleanup" =>
       /\ row[t] = "cleaning" /\ table[t] = work[w].actor /\ work[w].actor \in alive
       /\ Quiet(t)
  /\ \A a \in harness \cup waking : owner[a] = t => table[t] = a
  /\ t \in ended => row[t] \in {"closed", "none"}
CalmOK == \A t \in Threads \ hasty : Calm(t)

\* A closed thread's log says so.
ClosedOK == \A t \in Threads : row[t] = "closed" => t \in ended

\* Only a thread that had an actor ends, one being created has had none, and a
\* teardown that was asked for has a row.
BornOK ==
  /\ \A t \in ended : \E a \in Actors : owner[a] = t
  /\ creator.at = "row" =>
       row[creator.thread] = "none" /\ \A a \in Actors : owner[a] # creator.thread
  /\ asked # NoAsk => row[asked.thread] # "none"

\* Whoever is in a checkout that is being removed came after the last look.
LookOK ==
  \A w \in Works : work[w].at = "remove" /\ work[w].remove /\ work[w].placed =>
    Others(work[w].thread) \subseteq late

IInv == Types /\ OwnOK /\ HookOK /\ CalmOK /\ ClosedOK /\ BornOK /\ LookOK

-----------------------------------------------------------------------------
(* Lemmas about the operators the model is built from.                      *)

Ats == {"none", "start", "tree", "record", "activate", "report", "look", "remove", "release"}
SameJob(w) == /\ work'[w].kind = work[w].kind /\ work'[w].thread = work[w].thread
              /\ work'[w].actor = work[w].actor /\ work'[w].purge = work[w].purge
              /\ work'[w].placed = work[w].placed

LEMMA NothingTyped ==
  /\ NoWork \in WorkRec /\ NoAsk \in AskRec /\ Nobody \in CreatorRec
  /\ NoWork.thread \notin Threads /\ NoWork.kind = "none" /\ NoWork.at = "none"
  /\ NoAsk.thread \notin Threads /\ Nobody.thread \notin Threads
  /\ Nobody.at = "none" /\ Nobody.actor = NoActor
  /\ NoActor \notin Actors /\ "none" \notin Threads /\ "none" \in Someone
<1>1. "none" \notin Threads /\ "none" \in Someone
  BY WorkspaceConstants DEF Someone
<1>2. NoWork \in WorkRec /\ NoAsk \in AskRec /\ Nobody \in CreatorRec
  BY <1>1 DEF NoWork, WorkRec, NoAsk, AskRec, Nobody, CreatorRec
<1>3. NoActor \notin Actors
  BY  DEF NoActor, Actors
<1> QED
  BY <1>1, <1>2, <1>3 DEF NoWork, NoAsk, Nobody

\* A goroutine moves on; nothing else of it changes.
LEMMA GoesEffect ==
  ASSUME WorkTypes, NEW w \in Works, NEW step \in Ats, Goes(w, step)
  PROVE  /\ SameJob(w) /\ work'[w].at = step /\ work'[w].remove = work[w].remove
         /\ \A v \in Works : v # w => work'[v] = work[v]
         /\ WorkTypes'
<1>1. work' = [work EXCEPT ![w] = [work[w] EXCEPT !.at = step]] /\ work[w] \in WorkRec
  BY  DEF Goes, WorkTypes
<1>2. [work[w] EXCEPT !.at = step] \in WorkRec
  BY <1>1 DEF WorkRec, Ats
<1>3. work'[w] = [work[w] EXCEPT !.at = step]
  BY <1>1 DEF WorkTypes
<1>4. SameJob(w) /\ work'[w].at = step /\ work'[w].remove = work[w].remove
  BY <1>1, <1>3 DEF SameJob, WorkRec
<1> QED
  BY <1>1, <1>2, <1>4 DEF WorkTypes

LEMMA EndsEffect ==
  ASSUME WorkTypes, NEW w \in Works, Ends(w)
  PROVE  /\ work'[w] = NoWork /\ \A v \in Works : v # w => work'[v] = work[v]
         /\ WorkTypes'
  BY NothingTyped DEF Ends, WorkTypes

\* SetPhase changes one thread's phase, and only of one that has a row.
LEMMA SetPhaseEffect ==
  ASSUME row \in [Threads -> Phases], NEW t \in Threads, NEW phase \in Phases, SetPhase(t, phase)
  PROVE  /\ row' \in [Threads -> Phases]
         /\ \A u \in Threads : u # t => row'[u] = row[u]
         /\ row[t] # "none" => row'[t] = phase
         /\ row[t] = "none" => row'[t] = "none"
  BY  DEF SetPhase, Exists, Phases

\* A thread keeps its actor in the table unless the actor ends.
LEMMA UnlistedEffect ==
  ASSUME NEW A, NEW t \in Threads
  PROVE  Unlisted(A)[t] = IF table[t] \in A \cap hooked THEN NoActor ELSE table[t]
  BY  DEF Unlisted

NewProvisionFields(w, t, a) ==
  /\ work'[w].kind = "provision" /\ work'[w].thread = t /\ work'[w].actor = a
  /\ work'[w].at = "start" /\ work'[w] # NoWork
  /\ \A v \in Works : v # w => work'[v] = work[v]

LEMMA NewProvisionEffect ==
  ASSUME WorkTypes, NEW w \in Works, NEW t \in Threads, NEW a \in Actors,
         work' = [work EXCEPT ![w] = NewProvision(t, a)]
  PROVE  NewProvisionFields(w, t, a) /\ WorkTypes'
<1>1. NewProvision(t, a) =
        [kind |-> "provision", thread |-> t, actor |-> a, at |-> "start",
         purge |-> FALSE, remove |-> FALSE, placed |-> FALSE]
<2>1. NewProvision(t, a) =
        [[[[NoWork EXCEPT !.kind = "provision"] EXCEPT !.thread = t] EXCEPT !.actor = a]
           EXCEPT !.at = "start"]
    BY  DEF NewProvision, NoWork
<2> QED
  BY <2>1 DEF NoWork
<1>2. NewProvision(t, a) \in WorkRec
  BY <1>1 DEF WorkRec, Someone
<1>3. work'[w] = NewProvision(t, a) /\ \A v \in Works : v # w => work'[v] = work[v]
  BY  DEF WorkTypes
<1>4. work'[w] # NoWork
  BY <1>1, <1>3 DEF NoWork
<1> QED
  BY <1>1, <1>2, <1>3, <1>4 DEF WorkTypes, NewProvisionFields

NewCleanupFields(w, t, a) ==
  /\ work'[w].kind = "cleanup" /\ work'[w].thread = t /\ work'[w].actor = a
  /\ work'[w].at = "start" /\ work'[w] # NoWork
  /\ \A v \in Works : v # w => work'[v] = work[v]

LEMMA NewCleanupEffect ==
  ASSUME WorkTypes, NEW w \in Works, NEW t \in Threads, NEW a \in Actors, asked \in AskRec,
         work' = [work EXCEPT ![w] =
           [NoWork EXCEPT !.kind = "cleanup", !.thread = t, !.actor = a, !.at = "start",
                          !.purge = asked.purge, !.remove = asked.remove,
                          !.placed = asked.placed]]
  PROVE  NewCleanupFields(w, t, a) /\ WorkTypes'
<1> DEFINE new == [NoWork EXCEPT !.kind = "cleanup", !.thread = t, !.actor = a, !.at = "start",
                          !.purge = asked.purge, !.remove = asked.remove,
                          !.placed = asked.placed]
<1>1. new = [kind |-> "cleanup", thread |-> t, actor |-> a, at |-> "start",
             purge |-> asked.purge, remove |-> asked.remove, placed |-> asked.placed]
  <2>1. new = [[[[[[[NoWork EXCEPT !.kind = "cleanup"] EXCEPT !.thread = t]
                  EXCEPT !.actor = a] EXCEPT !.at = "start"] EXCEPT !.purge = asked.purge]
                EXCEPT !.remove = asked.remove] EXCEPT !.placed = asked.placed]
    OBVIOUS
  <2> HIDE DEF new
  <2> QED
    BY <2>1 DEF NoWork
<1>2. work' = [work EXCEPT ![w] = new]
  OBVIOUS
<1> HIDE DEF new
<1>3. new \in WorkRec
  BY <1>1 DEF WorkRec, AskRec, Someone
<1>4. work'[w] = new /\ \A v \in Works : v # w => work'[v] = work[v]
  BY <1>2 DEF WorkTypes
<1>5. work'[w] # NoWork
  BY <1>1, <1>4 DEF NoWork
<1> QED
  BY <1>1, <1>2, <1>3, <1>4, <1>5 DEF WorkTypes, NewCleanupFields

\* The last look settles whether the goroutine removes.
LEMMA LookEffect ==
  ASSUME WorkTypes, NEW w \in Works, CleanupLook(w)
  PROVE  /\ SameJob(w) /\ work'[w].at = "remove"
         /\ work'[w].remove = (work[w].remove /\ ~Keeps(w))
         /\ \A v \in Works : v # w => work'[v] = work[v]
         /\ WorkTypes'
<1> DEFINE new == [work[w] EXCEPT !.at = "remove", !.remove = @ /\ ~Keeps(w)]
<1>1. work[w] \in WorkRec
  BY  DEF WorkTypes
<1>2. work' = [work EXCEPT ![w] = new]
  BY  DEF CleanupLook
<1>3. /\ new \in WorkRec /\ new.at = "remove" /\ new.remove = (work[w].remove /\ ~Keeps(w))
      /\ new.kind = work[w].kind /\ new.thread = work[w].thread /\ new.actor = work[w].actor
      /\ new.purge = work[w].purge /\ new.placed = work[w].placed
  BY <1>1 DEF WorkRec
<1> HIDE DEF new
<1> QED
  BY <1>2, <1>3 DEF WorkTypes, SameJob

\* The three actions that start a goroutine.
LEMMA RetryEffect ==
  ASSUME Types, OwnOK, NEW t \in Threads, NEW w \in Works, RetryProvision(t, w)
  PROVE  NewProvisionFields(w, t, table[t]) /\ work[w] = NoWork /\ table[t] \in Actors
         /\ owner[table[t]] = t /\ WorkTypes'
<1>1. table[t] \in Actors /\ owner[table[t]] = t
  BY  DEF RetryProvision, Types, ActorTypes, OwnOK, TableOwn
<1> QED
  BY <1>1, NewProvisionEffect DEF RetryProvision, Types, FreeWork

LEMMA CreateDoneEffect ==
  ASSUME Types, OwnOK, NEW w \in Works, CreateDone(w)
  PROVE  NewProvisionFields(w, creator.thread, creator.actor) /\ work[w] = NoWork
         /\ creator.thread \in Threads /\ creator.actor \in Actors
         /\ owner[creator.actor] = creator.thread /\ WorkTypes'
<1>1. creator.thread \in Threads /\ creator.actor \in Actors
      /\ owner[creator.actor] = creator.thread
  BY NothingTyped DEF CreateDone, OwnOK, LockOwn
<1> QED
  BY <1>1, NewProvisionEffect DEF CreateDone, Types, FreeWork

LEMMA BeginCleanupEffect ==
  ASSUME Types, OwnOK, NEW a \in Actors, NEW w \in Works, BeginCleanup(a, w)
  PROVE  NewCleanupFields(w, asked.thread, a) /\ work[w] = NoWork
         /\ asked.thread \in Threads /\ owner[a] = "none" /\ owner'[a] = asked.thread
         /\ (\A b \in Actors : b # a => owner'[b] = owner[b]) /\ WorkTypes'
<1>1. asked.thread \in Threads /\ asked \in AskRec /\ WorkTypes
  BY  DEF BeginCleanup, OwnOK, LockOwn, Types, CreatorTypes
<1>2. owner[a] = "none" /\ owner'[a] = asked.thread
      /\ \A b \in Actors : b # a => owner'[b] = owner[b]
  BY  DEF BeginCleanup, Fresh, Starts, Types, ActorTypes
<1> QED
  BY <1>1, <1>2, NewCleanupEffect DEF BeginCleanup, FreeWork

\* A goroutine's thread, and what it can be doing to it.
LEMMA Jobs ==
  ASSUME Types, OwnOK, NEW w \in Works, work[w] # NoWork
  PROVE  work[w].thread \in Threads /\ work[w].kind \in {"provision", "cleanup"}
         /\ work[w].actor \in Actors /\ owner[work[w].actor] = work[w].thread
  BY  DEF OwnOK, WorkOwn, Types, WorkTypes, WorkRec

\* Nobody works on a thread whose phase says that nobody does.
LEMMA NobodyWorks ==
  ASSUME Types, OwnOK, NEW u \in Threads, Calm(u),
         row[u] \in {"none", "closed", "cleanup_failed"}
  PROVE  \A w \in Works : work[w].thread # u
  BY Jobs, NothingTyped DEF Calm

\* A thread nothing is done to any more.
LEMMA CalmAlone ==
  ASSUME NEW u \in Threads, \A w \in Works : work'[w].thread # u,
         creator'.thread # u, asked'.thread # u,
         \A a \in harness' \cup waking' : owner'[a] = u => table'[u] = a,
         u \in ended' => row'[u] \in {"closed", "none"}
  PROVE  Calm(u)'
  BY  DEF Calm

\* A thread with one goroutine, just started.
LEMMA CalmStarted ==
  ASSUME NEW u \in Threads, NEW w \in Works, work'[w].thread = u,
         \A v \in Works : v # w => work'[v].thread # u,
         creator'.thread # u, asked'.thread # u,
         \A a \in harness' \cup waking' : owner'[a] = u => table'[u] = a,
         u \notin ended',
         \/ /\ work'[w].kind = "provision"
            /\ row'[u] \notin {"none", "closed", "cleaning", "cleanup_failed"}
            /\ work'[w].actor \in alive' => table'[u] = work'[w].actor
         \/ /\ work'[w].kind = "cleanup" /\ row'[u] = "cleaning"
            /\ table'[u] = work'[w].actor /\ work'[w].actor \in alive'
            /\ Quiet(u)'
  PROVE  Calm(u)'
  BY  DEF Calm

\* A step that leaves a thread, its actors and its goroutines as they are.
LEMMA CalmElsewhere ==
  ASSUME NEW u \in Threads, Calm(u), ActorTypes, OwnOK,
         row'[u] = row[u], table'[u] = table[u],
         \A w \in Works : work'[w].thread = u \/ work[w].thread = u =>
           /\ work'[w].thread = work[w].thread /\ work'[w].kind = work[w].kind
           /\ work'[w].actor = work[w].actor,
         creator'.thread = u =>
           creator'.thread = creator.thread /\ creator'.at = creator.at
           /\ creator'.actor = creator.actor,
         asked'.thread = u => asked.thread = u,
         \A a \in Actors : a \in harness' \cup waking' /\ owner'[a] = u =>
           a \in harness \cup waking /\ owner[a] = u,
         \A a \in harness' \cup waking' : a \in Actors,
         \A a \in Actors : owner[a] = u => (a \in alive' <=> a \in alive),
         u \in ended' => u \in ended
  PROVE  Calm(u)'
<1>1. Quiet(u) => Quiet(u)'
  BY  DEF Quiet
<1>2. \A v, w \in Works : work'[v].thread = u /\ work'[w].thread = u => v = w
  BY  DEF Calm
<1>3. creator'.thread = u =>
       /\ \A w \in Works : work'[w].thread # u
       /\ asked'.thread # u /\ Quiet(u)'
       /\ row'[u] \in IF creator'.at = "row" THEN {"none"} ELSE {"creating", "provision_failed"}
       /\ creator'.at \in {"hook", "check"} => table'[u] = creator'.actor
  BY <1>1 DEF Calm
<1>4. asked'.thread = u =>
       /\ \A w \in Works : work'[w].thread # u
       /\ row'[u] \notin {"none", "closed"}
  BY  DEF Calm
<1>5. \A w \in Works : work'[w].thread = u /\ work'[w].kind # "none" => work[w].actor \in Actors /\ owner[work[w].actor] = u
  BY NothingTyped DEF OwnOK, TableOwn, WorkOwn, LockOwn
<1>6. \A w \in Works : work'[w].thread = u /\ work'[w].kind = "provision" =>
       /\ row'[u] \notin {"none", "closed", "cleaning", "cleanup_failed"}
       /\ work'[w].actor \in alive' => table'[u] = work'[w].actor
  BY <1>5 DEF Calm
<1>7. \A w \in Works : work'[w].thread = u /\ work'[w].kind = "cleanup" =>
       /\ row'[u] = "cleaning" /\ table'[u] = work'[w].actor /\ work'[w].actor \in alive'
       /\ Quiet(u)'
  BY <1>1, <1>5 DEF Calm
<1>8. \A a \in harness' \cup waking' : owner'[a] = u => table'[u] = a
  BY  DEF Calm
<1>9. u \in ended' => row'[u] \in {"closed", "none"}
  BY  DEF Calm
<1> QED
  BY <1>2, <1>3, <1>4, <1>6, <1>7, <1>8, <1>9 DEF Calm

\* The goroutines' slots.
LEMMA WorkTypesStep ==
  ASSUME Types, OwnOK, [Next]_vars
  PROVE  WorkTypes'
<1>1. ASSUME NEW w \in Works, CreateDone(w) PROVE WorkTypes'
  BY <1>1, CreateDoneEffect
  DEF CreateDone, Forgotten, Types, ActorTypes, OwnOK, TableOwn, WorkOwn, LockOwn,
    CreatorTypes, Ats
<1>2. ASSUME NEW w \in Works, ProvisionStart(w) PROVE WorkTypes'
  BY <1>2, GoesEffect
  DEF ProvisionStart, At, Types, ActorTypes, OwnOK, TableOwn, WorkOwn, LockOwn,
    CreatorTypes, Ats
<1>3. ASSUME NEW w \in Works, ProvisionTree(w) PROVE WorkTypes'
  BY <1>3, GoesEffect, EndsEffect
  DEF ProvisionTree, At, ProvisionFails, Types, ActorTypes, OwnOK, TableOwn, WorkOwn,
    LockOwn, CreatorTypes, Ats
<1>4. ASSUME NEW w \in Works, ProvisionRecord(w) PROVE WorkTypes'
  BY <1>4, GoesEffect, EndsEffect
  DEF ProvisionRecord, At, ProvisionFails, Comes, Types, ActorTypes, OwnOK, TableOwn,
    WorkOwn, LockOwn, CreatorTypes, Ats
<1>5. ASSUME NEW w \in Works, ProvisionActivate(w) PROVE WorkTypes'
  BY <1>5, GoesEffect, EndsEffect
  DEF ProvisionActivate, At, ProvisionFails, CanStart, Types, ActorTypes, OwnOK, TableOwn,
    WorkOwn, LockOwn, CreatorTypes, Ats
<1>6. ASSUME NEW w \in Works, ProvisionReport(w) PROVE WorkTypes'
  BY <1>6, EndsEffect
  DEF ProvisionReport, At, Types, ActorTypes, OwnOK, TableOwn, WorkOwn, LockOwn,
    CreatorTypes, Ats
<1>7. ASSUME NEW t \in Threads, NEW w \in Works, RetryProvision(t, w) PROVE WorkTypes'
  BY <1>7, RetryEffect
  DEF RetryProvision, Asks, Types, ActorTypes, OwnOK, TableOwn, WorkOwn, LockOwn,
    CreatorTypes, Ats
<1>8. ASSUME NEW a \in Actors, NEW w \in Works, BeginCleanup(a, w) PROVE WorkTypes'
  BY <1>8, BeginCleanupEffect
  DEF BeginCleanup, Fresh, Starts, Stopped, Types, ActorTypes, OwnOK, TableOwn, WorkOwn,
    LockOwn, CreatorTypes, Ats
<1>9. ASSUME NEW w \in Works, CleanupStart(w) PROVE WorkTypes'
  BY <1>9, GoesEffect
  DEF CleanupStart, At, Types, ActorTypes, OwnOK, TableOwn, WorkOwn, LockOwn, CreatorTypes,
    Ats
<1>10. ASSUME NEW w \in Works, CleanupLook(w) PROVE WorkTypes'
  BY <1>10, LookEffect
  DEF CleanupLook, Types, ActorTypes, OwnOK, TableOwn, WorkOwn, LockOwn, CreatorTypes, Ats
<1>11. ASSUME NEW w \in Works, CleanupRemove(w) PROVE WorkTypes'
  BY <1>11, GoesEffect, EndsEffect
  DEF CleanupRemove, At, Types, ActorTypes, OwnOK, TableOwn, WorkOwn, LockOwn, CreatorTypes,
    Ats
<1>12. ASSUME NEW w \in Works, CleanupRelease(w) PROVE WorkTypes'
  BY <1>12, EndsEffect
  DEF CleanupRelease, At, Types, ActorTypes, OwnOK, TableOwn, WorkOwn, LockOwn,
    CreatorTypes, Ats
<1>13. ASSUME Stop PROVE WorkTypes'
  BY <1>13, NothingTyped
  DEF Stop, Down, Phase, Types, ActorTypes, OwnOK, TableOwn, WorkOwn, LockOwn, CreatorTypes,
    Ats, WorkTypes
<1>14. ASSUME Crash PROVE WorkTypes'
  BY <1>14, NothingTyped
  DEF Crash, Down, Types, ActorTypes, OwnOK, TableOwn, WorkOwn, LockOwn, CreatorTypes, Ats,
    WorkTypes
<1>15. CASE UNCHANGED <<work>>
  BY <1>15 DEF Types, WorkTypes
<1> QED
  BY <1>1, <1>2, <1>3, <1>4, <1>5, <1>6, <1>7, <1>8, <1>9, <1>10, <1>11, <1>12, <1>13,
    <1>14, <1>15
  DEF Next, vars, rowVars, actorVars, Create, Prompted, GetFound, ForceDelete, CreateRow,
    CreateHook, CreateAdopt, HarnessExit, Wake, View, AskCleanup, DeleteClosed, Boot

\* The threads table and the counters.
LEMMA RowTypesStep ==
  ASSUME Types, OwnOK, [Next]_vars
  PROVE  RowTypes'
<1>1. ASSUME CreateRow PROVE RowTypes'
  BY <1>1, NothingTyped
  DEF CreateRow, Comes, Types, RowTypes, ActorTypes, OwnOK, TableOwn, WorkOwn, LockOwn,
    Phases, Someone, rowVars
<1>2. ASSUME NEW t \in Threads, Prompted(t) PROVE RowTypes'
  BY <1>2, NothingTyped, SetPhaseEffect
  DEF Prompted, Types, RowTypes, ActorTypes, OwnOK, TableOwn, WorkOwn, LockOwn, Phases,
    Someone, rowVars
<1>3. ASSUME NEW t \in Threads, ForceDelete(t) PROVE RowTypes'
  BY <1>3
  DEF ForceDelete, Stopped, Types, RowTypes, ActorTypes, OwnOK, TableOwn, WorkOwn, LockOwn,
    Phases, Someone, rowVars
<1>4. ASSUME NEW a \in Actors, HarnessExit(a) PROVE RowTypes'
  BY <1>4, NothingTyped, SetPhaseEffect
  DEF HarnessExit, Phase, Types, RowTypes, ActorTypes, OwnOK, TableOwn, WorkOwn, LockOwn,
    Phases, Someone, rowVars
<1>5. ASSUME NEW w \in Works, ProvisionStart(w) PROVE RowTypes'
  BY <1>5, NothingTyped, SetPhaseEffect
  DEF ProvisionStart, At, Types, RowTypes, ActorTypes, OwnOK, TableOwn, WorkOwn, LockOwn,
    Phases, Someone, rowVars
<1>6. ASSUME NEW w \in Works, ProvisionTree(w) PROVE RowTypes'
  BY <1>6, NothingTyped, SetPhaseEffect
  DEF ProvisionTree, At, ProvisionFails, Types, RowTypes, ActorTypes, OwnOK, TableOwn,
    WorkOwn, LockOwn, Phases, Someone, rowVars
<1>7. ASSUME NEW w \in Works, ProvisionRecord(w) PROVE RowTypes'
  BY <1>7, NothingTyped, SetPhaseEffect
  DEF ProvisionRecord, At, ProvisionFails, Comes, Types, RowTypes, ActorTypes, OwnOK,
    TableOwn, WorkOwn, LockOwn, Phases, Someone, rowVars
<1>8. ASSUME NEW w \in Works, ProvisionActivate(w) PROVE RowTypes'
  BY <1>8, NothingTyped, SetPhaseEffect
  DEF ProvisionActivate, At, ProvisionFails, CanStart, Types, RowTypes, ActorTypes, OwnOK,
    TableOwn, WorkOwn, LockOwn, Phases, Someone, rowVars
<1>9. ASSUME NEW w \in Works, ProvisionReport(w) PROVE RowTypes'
  BY <1>9, NothingTyped, SetPhaseEffect
  DEF ProvisionReport, At, Types, RowTypes, ActorTypes, OwnOK, TableOwn, WorkOwn, LockOwn,
    Phases, Someone, rowVars
<1>10. ASSUME NEW t \in Threads, NEW w \in Works, RetryProvision(t, w) PROVE RowTypes'
  BY <1>10, NothingTyped, SetPhaseEffect
  DEF RetryProvision, Asks, Types, RowTypes, ActorTypes, OwnOK, TableOwn, WorkOwn, LockOwn,
    Phases, Someone, rowVars
<1>11. ASSUME NEW t \in Threads, NEW a \in Actors, View(t, a) PROVE RowTypes'
  BY <1>11
  DEF View, Starts, Restored, Fresh, Types, RowTypes, ActorTypes, OwnOK, TableOwn, WorkOwn,
    LockOwn, Phases, Someone, rowVars
<1>12. ASSUME NEW t \in Threads, NEW purge \in BOOLEAN, NEW remove \in BOOLEAN, AskCleanup(t, purge, remove)
       PROVE RowTypes'
  BY <1>12
  DEF AskCleanup, Asks, MayClean, Types, RowTypes, ActorTypes, OwnOK, TableOwn, WorkOwn,
    LockOwn, Phases, Someone, rowVars
<1>13. ASSUME NEW a \in Actors, NEW w \in Works, BeginCleanup(a, w) PROVE RowTypes'
  BY <1>13, SetPhaseEffect, NothingTyped
  DEF BeginCleanup, Fresh, Starts, Stopped, Types, RowTypes, ActorTypes, OwnOK, TableOwn,
    WorkOwn, LockOwn, Phases, Someone, rowVars
<1>14. ASSUME NEW w \in Works, CleanupStart(w) PROVE RowTypes'
  BY <1>14, NothingTyped, SetPhaseEffect
  DEF CleanupStart, At, Types, RowTypes, ActorTypes, OwnOK, TableOwn, WorkOwn, LockOwn,
    Phases, Someone, rowVars
<1>15. ASSUME NEW w \in Works, CleanupLook(w) PROVE RowTypes'
  BY <1>15
  DEF CleanupLook, Types, RowTypes, ActorTypes, OwnOK, TableOwn, WorkOwn, LockOwn, Phases,
    Someone, rowVars
<1>16. ASSUME NEW w \in Works, CleanupRemove(w) PROVE RowTypes'
  BY <1>16, NothingTyped, SetPhaseEffect
  DEF CleanupRemove, At, Types, RowTypes, ActorTypes, OwnOK, TableOwn, WorkOwn, LockOwn,
    Phases, Someone, rowVars
<1>17. ASSUME NEW w \in Works, CleanupRelease(w) PROVE RowTypes'
  BY <1>17, NothingTyped
  DEF CleanupRelease, At, Types, RowTypes, ActorTypes, OwnOK, TableOwn, WorkOwn, LockOwn,
    Phases, Someone, rowVars
<1>18. ASSUME NEW t \in Threads, NEW remove \in BOOLEAN, DeleteClosed(t, remove)
       PROVE RowTypes'
  BY <1>18
  DEF DeleteClosed, Types, RowTypes, ActorTypes, OwnOK, TableOwn, WorkOwn, LockOwn, Phases,
    Someone, rowVars
<1>19. ASSUME Stop PROVE RowTypes'
  <2>1. row' \in [Threads -> Phases]
    BY <1>19 DEF Stop, Phase, RowTypes, Types, Phases
  <2>2. UNCHANGED <<placed, ended, late, hasty, tree>> /\ up' = FALSE /\ stops' = stops + 1
    BY <1>19 DEF Stop, Phase, Down
  <2>3. stops' \in Nat
    BY <2>2 DEF RowTypes, Types
  <2>4. up' \in BOOLEAN
    BY <2>2
  <2>5. tree' \in BOOLEAN
    BY <2>2, Zenon DEF RowTypes, Types
  <2> QED
    BY <2>1, <2>2, <2>3, <2>4, <2>5 DEF RowTypes, Types
<1>20. ASSUME Crash PROVE RowTypes'
  <2>1. row' \in [Threads -> Phases]
    BY <1>20 DEF Crash, RowTypes, Types, Phases
  <2>2. UNCHANGED <<placed, ended, late, hasty, tree>> /\ up' = FALSE /\ stops' = stops + 1
    BY <1>20 DEF Crash, Down
  <2>3. stops' \in Nat
    BY <2>2 DEF RowTypes, Types
  <2>4. up' \in BOOLEAN
    BY <2>2
  <2>5. tree' \in BOOLEAN
    BY <2>2, Zenon DEF RowTypes, Types
  <2> QED
    BY <2>1, <2>2, <2>3, <2>4, <2>5 DEF RowTypes, Types
<1>21. ASSUME Boot PROVE RowTypes'
  BY <1>21
  DEF Boot, Types, RowTypes, ActorTypes, OwnOK, TableOwn, WorkOwn, LockOwn, Phases, Someone,
    rowVars
<1>22. CASE UNCHANGED <<row, placed, ended, late, hasty, tree, up, stops>>
  BY <1>22 DEF Types, RowTypes
<1> QED
  BY <1>1, <1>2, <1>3, <1>4, <1>5, <1>6, <1>7, <1>8, <1>9, <1>10, <1>11, <1>12, <1>13,
    <1>14, <1>15, <1>16, <1>17, <1>18, <1>19, <1>20, <1>21, <1>22
  DEF Next, vars, rowVars, actorVars, Create, GetFound, CreateHook, CreateAdopt, Wake,
    CreateDone

\* The manager's actors.
LEMMA ActorTypesStep ==
  ASSUME Types, OwnOK, [Next]_vars
  PROVE  ActorTypes'
<1>1. ASSUME NEW t \in Threads, ForceDelete(t) PROVE ActorTypes'
  BY <1>1
  DEF ForceDelete, Stopped, Types, ActorTypes, OwnOK, TableOwn, WorkOwn, LockOwn, Someone,
    actorVars, Unlisted
<1>2. ASSUME NEW t \in Threads, GetFound(t) PROVE ActorTypes'
  BY <1>2, NothingTyped
  DEF GetFound, Types, ActorTypes, OwnOK, TableOwn, WorkOwn, LockOwn, Someone, actorVars
<1>3. ASSUME CreateHook PROVE ActorTypes'
  BY <1>3, NothingTyped
  DEF CreateHook, Types, ActorTypes, OwnOK, TableOwn, WorkOwn, LockOwn, Someone, actorVars
<1>4. ASSUME NEW a \in Actors, CreateAdopt(a) PROVE ActorTypes'
  BY <1>4, NothingTyped
  DEF CreateAdopt, Fresh, Starts, Types, ActorTypes, OwnOK, TableOwn, WorkOwn, LockOwn,
    Someone, actorVars
<1>5. ASSUME NEW w \in Works, CreateDone(w) PROVE ActorTypes'
  BY <1>5, NothingTyped
  DEF CreateDone, Forgotten, Types, ActorTypes, OwnOK, TableOwn, WorkOwn, LockOwn, Someone,
    actorVars
<1>6. ASSUME NEW a \in Actors, HarnessExit(a) PROVE ActorTypes'
  BY <1>6
  DEF HarnessExit, Phase, Types, ActorTypes, OwnOK, TableOwn, WorkOwn, LockOwn, Someone,
    actorVars, Unlisted
<1>7. ASSUME NEW w \in Works, ProvisionActivate(w) PROVE ActorTypes'
  BY <1>7
  DEF ProvisionActivate, At, ProvisionFails, CanStart, Types, ActorTypes, OwnOK, TableOwn,
    WorkOwn, LockOwn, Someone, actorVars
<1>8. ASSUME NEW a \in Actors, Wake(a) PROVE ActorTypes'
  BY <1>8
  DEF Wake, CanStart, Types, ActorTypes, OwnOK, TableOwn, WorkOwn, LockOwn, Someone,
    actorVars
<1>9. ASSUME NEW t \in Threads, NEW a \in Actors, View(t, a) PROVE ActorTypes'
  BY <1>9, NothingTyped
  DEF View, Starts, Restored, Fresh, Types, ActorTypes, OwnOK, TableOwn, WorkOwn, LockOwn,
    Someone, actorVars
<1>10. ASSUME NEW a \in Actors, NEW w \in Works, BeginCleanup(a, w) PROVE ActorTypes'
  BY <1>10, NothingTyped
  DEF BeginCleanup, Fresh, Starts, Stopped, Types, ActorTypes, OwnOK, TableOwn, WorkOwn,
    LockOwn, Someone, actorVars
<1>11. ASSUME NEW w \in Works, CleanupRelease(w) PROVE ActorTypes'
  BY <1>11, NothingTyped
  DEF CleanupRelease, At, Types, ActorTypes, OwnOK, TableOwn, WorkOwn, LockOwn, Someone,
    actorVars, Unlisted
<1>12. ASSUME Stop PROVE ActorTypes'
  BY <1>12, NothingTyped
  DEF Stop, Down, Phase, Types, ActorTypes, OwnOK, TableOwn, WorkOwn, LockOwn, Someone,
    actorVars
<1>13. ASSUME Crash PROVE ActorTypes'
  BY <1>13, NothingTyped
  DEF Crash, Down, Types, ActorTypes, OwnOK, TableOwn, WorkOwn, LockOwn, Someone, actorVars
<1>14. CASE UNCHANGED <<table, owner, alive, harness, hooked, waking>>
  BY <1>14 DEF Types, ActorTypes
<1> QED
  BY <1>1, <1>2, <1>3, <1>4, <1>5, <1>6, <1>7, <1>8, <1>9, <1>10, <1>11, <1>12, <1>13, <1>14
  DEF Next, vars, rowVars, actorVars, Create, Prompted, CreateRow, ProvisionStart,
    ProvisionTree, ProvisionRecord, ProvisionReport, CleanupStart, CleanupLook,
    CleanupRemove, RetryProvision, AskCleanup, DeleteClosed, Boot

\* Who holds the locks.
LEMMA CreatorTypesStep ==
  ASSUME Types, OwnOK, [Next]_vars
  PROVE  CreatorTypes'
<1>1. ASSUME NEW t \in Threads, Create(t) PROVE CreatorTypes'
  BY <1>1, NothingTyped
  DEF Create, Types, CreatorTypes, OwnOK, TableOwn, WorkOwn, LockOwn, CreatorRec, AskRec,
    Someone
<1>2. ASSUME CreateRow PROVE CreatorTypes'
  BY <1>2, NothingTyped
  DEF CreateRow, Comes, Types, CreatorTypes, OwnOK, TableOwn, WorkOwn, LockOwn, CreatorRec,
    AskRec, Someone
<1>3. ASSUME NEW a \in Actors, CreateAdopt(a) PROVE CreatorTypes'
  BY <1>3, NothingTyped
  DEF CreateAdopt, Fresh, Starts, Types, CreatorTypes, OwnOK, TableOwn, WorkOwn, LockOwn,
    CreatorRec, AskRec, Someone
<1>4. ASSUME CreateHook PROVE CreatorTypes'
  BY <1>4, NothingTyped
  DEF CreateHook, Types, CreatorTypes, OwnOK, TableOwn, WorkOwn, LockOwn, CreatorRec,
    AskRec, Someone
<1>5. ASSUME NEW w \in Works, CreateDone(w) PROVE CreatorTypes'
  BY <1>5, NothingTyped
  DEF CreateDone, Forgotten, Types, CreatorTypes, OwnOK, TableOwn, WorkOwn, LockOwn,
    CreatorRec, AskRec, Someone
<1>6. ASSUME NEW t \in Threads, NEW purge \in BOOLEAN, NEW remove \in BOOLEAN, AskCleanup(t, purge, remove)
      PROVE CreatorTypes'
  BY <1>6, NothingTyped
  DEF AskCleanup, Asks, MayClean, Types, CreatorTypes, OwnOK, TableOwn, WorkOwn, LockOwn,
    CreatorRec, AskRec, Someone
<1>7. ASSUME NEW a \in Actors, NEW w \in Works, BeginCleanup(a, w) PROVE CreatorTypes'
  BY <1>7, NothingTyped
  DEF BeginCleanup, Fresh, Starts, Stopped, Types, CreatorTypes, OwnOK, TableOwn, WorkOwn,
    LockOwn, CreatorRec, AskRec, Someone
<1>8. ASSUME Stop PROVE CreatorTypes'
  BY <1>8, NothingTyped
  DEF Stop, Down, Phase, Types, CreatorTypes, OwnOK, TableOwn, WorkOwn, LockOwn, CreatorRec,
    AskRec, Someone
<1>9. ASSUME Crash PROVE CreatorTypes'
  BY <1>9, NothingTyped
  DEF Crash, Down, Types, CreatorTypes, OwnOK, TableOwn, WorkOwn, LockOwn, CreatorRec,
    AskRec, Someone
<1>10. CASE UNCHANGED <<creator, asked>>
  BY <1>10 DEF Types, CreatorTypes
<1> QED
  BY <1>1, <1>2, <1>3, <1>4, <1>5, <1>6, <1>7, <1>8, <1>9, <1>10
  DEF Next, vars, rowVars, actorVars, Prompted, GetFound, ForceDelete, HarnessExit, Wake,
    ProvisionStart, ProvisionTree, ProvisionRecord, ProvisionActivate, ProvisionReport,
    CleanupStart, CleanupLook, CleanupRemove, CleanupRelease, RetryProvision, View,
    DeleteClosed, Boot

\* The type invariant, of one step.
LEMMA TypesStep == ASSUME Types, OwnOK, [Next]_vars PROVE Types'
  BY WorkTypesStep, RowTypesStep, ActorTypesStep, CreatorTypesStep DEF Types

\* An actor that is listed, or that a goroutine works with, is never handed out
\* again.
LEMMA TableOwnStep ==
  ASSUME Types, OwnOK, [Next]_vars
  PROVE  TableOwn'
<1>1. ASSUME NEW a \in Actors, CreateAdopt(a) PROVE TableOwn'
  BY <1>1, NothingTyped
  DEF CreateAdopt, Fresh, Starts, Types, ActorTypes, OwnOK, TableOwn, Someone, LockOwn
<1>2. ASSUME NEW w \in Works, CreateDone(w) PROVE TableOwn'
  BY <1>2, NothingTyped, NewProvisionEffect
  DEF CreateDone, Forgotten, Types, ActorTypes, OwnOK, TableOwn, Someone, LockOwn
<1>3. ASSUME NEW a \in Actors, HarnessExit(a) PROVE TableOwn'
  BY <1>3 DEF HarnessExit, Phase, Types, ActorTypes, OwnOK, TableOwn, Someone, Unlisted
<1>4. ASSUME NEW t \in Threads, NEW a \in Actors, View(t, a) PROVE TableOwn'
  BY <1>4, NothingTyped
  DEF View, Starts, Restored, Fresh, Types, ActorTypes, OwnOK, TableOwn, Someone
<1>5. ASSUME NEW a \in Actors, NEW w \in Works, BeginCleanup(a, w) PROVE TableOwn'
  BY <1>5, NothingTyped
  DEF BeginCleanup, Fresh, Starts, Stopped, Types, ActorTypes, OwnOK, TableOwn, Someone,
    LockOwn
<1>6. ASSUME NEW w \in Works, CleanupRelease(w) PROVE TableOwn'
  BY <1>6 DEF CleanupRelease, At, Types, ActorTypes, OwnOK, TableOwn, Someone, Unlisted
<1>7. ASSUME NEW t \in Threads, ForceDelete(t) PROVE TableOwn'
  BY <1>7 DEF ForceDelete, Stopped, Types, ActorTypes, OwnOK, TableOwn, Someone, Unlisted
<1>8. ASSUME Stop PROVE TableOwn'
  BY <1>8, NothingTyped DEF Stop, Down, Phase, Types, ActorTypes, OwnOK, TableOwn, Someone
<1>9. ASSUME Crash PROVE TableOwn'
  BY <1>9, NothingTyped DEF Crash, Down, Types, ActorTypes, OwnOK, TableOwn, Someone
<1>10. CASE UNCHANGED <<table, owner>>
  BY <1>10 DEF OwnOK, TableOwn
<1> QED
  BY <1>1, <1>2, <1>3, <1>4, <1>5, <1>6, <1>7, <1>8, <1>9, <1>10
  DEF Next, vars, rowVars, actorVars, Create, Prompted, GetFound, CreateRow, CreateHook,
    Wake, ProvisionStart, ProvisionTree, ProvisionRecord, ProvisionActivate,
    ProvisionReport, CleanupStart, CleanupLook, CleanupRemove, RetryProvision, AskCleanup,
    DeleteClosed, Boot

LEMMA WorkOwnStep ==
  ASSUME Types, OwnOK, [Next]_vars
  PROVE  WorkOwn'
<1>1. ASSUME NEW w \in Works, CreateDone(w) PROVE WorkOwn'
  BY <1>1, CreateDoneEffect DEF CreateDone, OwnOK, WorkOwn, NewProvisionFields
<1>2. ASSUME NEW w \in Works, ProvisionStart(w) PROVE WorkOwn'
  BY <1>2, NothingTyped, GoesEffect
  DEF ProvisionStart, At, Types, CreatorTypes, ActorTypes, OwnOK, WorkOwn, Someone,
    actorVars, Ats, SameJob
<1>3. ASSUME NEW w \in Works, ProvisionTree(w) PROVE WorkOwn'
  BY <1>3, NothingTyped, GoesEffect, EndsEffect
  DEF ProvisionTree, At, ProvisionFails, Types, CreatorTypes, ActorTypes, OwnOK, WorkOwn,
    Someone, actorVars, Ats, SameJob
<1>4. ASSUME NEW w \in Works, ProvisionRecord(w) PROVE WorkOwn'
  BY <1>4, NothingTyped, GoesEffect, EndsEffect
  DEF ProvisionRecord, At, ProvisionFails, Comes, Types, CreatorTypes, ActorTypes, OwnOK,
    WorkOwn, Someone, actorVars, Ats, SameJob
<1>5. ASSUME NEW w \in Works, ProvisionActivate(w) PROVE WorkOwn'
  BY <1>5, NothingTyped, GoesEffect, EndsEffect
  DEF ProvisionActivate, At, ProvisionFails, CanStart, Types, CreatorTypes, ActorTypes,
    OwnOK, WorkOwn, Someone, actorVars, Ats, SameJob
<1>6. ASSUME NEW w \in Works, ProvisionReport(w) PROVE WorkOwn'
  BY <1>6, NothingTyped, EndsEffect
  DEF ProvisionReport, At, Types, CreatorTypes, ActorTypes, OwnOK, WorkOwn, Someone,
    actorVars, Ats
<1>7. ASSUME NEW t \in Threads, NEW w \in Works, RetryProvision(t, w) PROVE WorkOwn'
  <2>1. owner' = owner
    BY <1>7 DEF RetryProvision, actorVars
  <2> QED
    BY <1>7, <2>1, RetryEffect DEF OwnOK, WorkOwn, NewProvisionFields
<1>8. ASSUME NEW a \in Actors, NEW w \in Works, BeginCleanup(a, w) PROVE WorkOwn'
  BY <1>8, BeginCleanupEffect, NothingTyped DEF OwnOK, WorkOwn, NewCleanupFields
<1>9. ASSUME NEW w \in Works, CleanupStart(w) PROVE WorkOwn'
  BY <1>9, NothingTyped, GoesEffect
  DEF CleanupStart, At, Types, CreatorTypes, ActorTypes, OwnOK, WorkOwn, Someone, actorVars,
    Ats, SameJob
<1>10. ASSUME NEW w \in Works, CleanupLook(w) PROVE WorkOwn'
  <2>1. owner' = owner /\ work[w].kind = "cleanup"
    BY <1>10 DEF CleanupLook, At, actorVars
  <2>2. SameJob(w) /\ \A v \in Works : v # w => work'[v] = work[v]
    BY <1>10, LookEffect DEF Types
  <2> QED
    BY <2>1, <2>2, NothingTyped DEF OwnOK, WorkOwn, SameJob
<1>11. ASSUME NEW w \in Works, CleanupRemove(w) PROVE WorkOwn'
  BY <1>11, NothingTyped, GoesEffect, EndsEffect
  DEF CleanupRemove, At, Types, CreatorTypes, ActorTypes, OwnOK, WorkOwn, Someone,
    actorVars, Ats, SameJob
<1>12. ASSUME NEW w \in Works, CleanupRelease(w) PROVE WorkOwn'
  BY <1>12, NothingTyped, EndsEffect
  DEF CleanupRelease, At, Types, CreatorTypes, ActorTypes, OwnOK, WorkOwn, Someone,
    actorVars, Ats
<1>13. ASSUME Stop PROVE WorkOwn'
  BY <1>13, NothingTyped
  DEF Stop, Down, Phase, Types, CreatorTypes, ActorTypes, OwnOK, WorkOwn, Someone,
    actorVars, Ats, WorkTypes
<1>14. ASSUME Crash PROVE WorkOwn'
  BY <1>14, NothingTyped
  DEF Crash, Down, Types, CreatorTypes, ActorTypes, OwnOK, WorkOwn, Someone, actorVars, Ats,
    WorkTypes
<1>15. ASSUME NEW a \in Actors, CreateAdopt(a) PROVE WorkOwn'
  BY <1>15, NothingTyped
  DEF CreateAdopt, Fresh, Starts, Types, CreatorTypes, ActorTypes, OwnOK, WorkOwn, Someone,
    actorVars, Ats
<1>16. ASSUME NEW t \in Threads, NEW a \in Actors, View(t, a) PROVE WorkOwn'
  BY <1>16, NothingTyped
  DEF View, Starts, Restored, Fresh, Types, CreatorTypes, ActorTypes, OwnOK, WorkOwn,
    Someone, actorVars, Ats
<1>17. CASE UNCHANGED <<work, owner>>
  BY <1>17 DEF OwnOK, WorkOwn
<1> QED
  BY <1>1, <1>2, <1>3, <1>4, <1>5, <1>6, <1>7, <1>8, <1>9, <1>10, <1>11, <1>12, <1>13,
    <1>14, <1>15, <1>16, <1>17
  DEF Next, vars, rowVars, actorVars, Create, Prompted, GetFound, ForceDelete, CreateRow,
    CreateHook, HarnessExit, Wake, AskCleanup, DeleteClosed, Boot

LEMMA LockOwnStep ==
  ASSUME Types, OwnOK, [Next]_vars
  PROVE  LockOwn'
<1>1. ASSUME NEW t \in Threads, Create(t) PROVE LockOwn'
  BY <1>1, NothingTyped
  DEF Create, Types, ActorTypes, CreatorTypes, CreatorRec, OwnOK, LockOwn, Someone,
    actorVars
<1>2. ASSUME CreateRow PROVE LockOwn'
  BY <1>2, NothingTyped
  DEF CreateRow, Comes, Types, ActorTypes, CreatorTypes, CreatorRec, OwnOK, LockOwn,
    Someone, actorVars
<1>3. ASSUME NEW a \in Actors, CreateAdopt(a) PROVE LockOwn'
  BY <1>3, NothingTyped
  DEF CreateAdopt, Fresh, Starts, Types, ActorTypes, CreatorTypes, CreatorRec, OwnOK,
    LockOwn, Someone, actorVars
<1>4. ASSUME CreateHook PROVE LockOwn'
  BY <1>4, NothingTyped
  DEF CreateHook, Types, ActorTypes, CreatorTypes, CreatorRec, OwnOK, LockOwn, Someone,
    actorVars
<1>5. ASSUME NEW w \in Works, CreateDone(w) PROVE LockOwn'
  BY <1>5, NothingTyped
  DEF CreateDone, Forgotten, Types, ActorTypes, CreatorTypes, CreatorRec, OwnOK, LockOwn,
    Someone, actorVars
<1>6. ASSUME NEW t \in Threads, NEW purge \in BOOLEAN, NEW remove \in BOOLEAN, AskCleanup(t, purge, remove)
      PROVE LockOwn'
  BY <1>6, NothingTyped
  DEF AskCleanup, Asks, MayClean, Types, ActorTypes, CreatorTypes, CreatorRec, OwnOK,
    LockOwn, Someone, actorVars
<1>7. ASSUME NEW a \in Actors, NEW w \in Works, BeginCleanup(a, w) PROVE LockOwn'
  BY <1>7, NothingTyped
  DEF BeginCleanup, Fresh, Starts, Stopped, Types, ActorTypes, CreatorTypes, CreatorRec,
    OwnOK, LockOwn, Someone, actorVars
<1>8. ASSUME Stop PROVE LockOwn'
  BY <1>8, NothingTyped
  DEF Stop, Down, Phase, Types, ActorTypes, CreatorTypes, CreatorRec, OwnOK, LockOwn,
    Someone, actorVars
<1>9. ASSUME Crash PROVE LockOwn'
  BY <1>9, NothingTyped
  DEF Crash, Down, Types, ActorTypes, CreatorTypes, CreatorRec, OwnOK, LockOwn, Someone,
    actorVars
<1>10. ASSUME NEW t \in Threads, NEW a \in Actors, View(t, a) PROVE LockOwn'
  BY <1>10, NothingTyped
  DEF View, Starts, Restored, Fresh, Types, ActorTypes, CreatorTypes, CreatorRec, OwnOK,
    LockOwn, Someone, actorVars
<1>11. CASE UNCHANGED <<creator, asked, owner>>
  BY <1>11 DEF OwnOK, LockOwn
<1> QED
  BY <1>1, <1>2, <1>3, <1>4, <1>5, <1>6, <1>7, <1>8, <1>9, <1>10, <1>11
  DEF Next, vars, rowVars, actorVars, Prompted, GetFound, ForceDelete, HarnessExit, Wake,
    ProvisionStart, ProvisionTree, ProvisionRecord, ProvisionActivate, ProvisionReport,
    CleanupStart, CleanupLook, CleanupRemove, CleanupRelease, RetryProvision, DeleteClosed,
    Boot

LEMMA OwnStep == ASSUME Types, OwnOK, [Next]_vars PROVE OwnOK'
  BY TableOwnStep, WorkOwnStep, LockOwnStep DEF OwnOK

\* The table and the exit hooks.
LEMMA HookStep ==
  ASSUME Types, OwnOK, HookOK, [Next]_vars
  PROVE  HookOK'
<1>1. ASSUME NEW t \in Threads, Create(t) PROVE HookOK'
  BY <1>1, NothingTyped
  DEF Create, Types, ActorTypes, OwnOK, TableOwn, LockOwn, HookOK, actorVars
<1>2. ASSUME CreateRow PROVE HookOK'
  BY <1>2, NothingTyped
  DEF CreateRow, Comes, Types, ActorTypes, OwnOK, TableOwn, LockOwn, HookOK, actorVars,
    CreatorTypes, CreatorRec
<1>3. ASSUME NEW a \in Actors, CreateAdopt(a) PROVE HookOK'
  BY <1>3, NothingTyped
  DEF CreateAdopt, Fresh, Starts, Types, ActorTypes, OwnOK, TableOwn, LockOwn, HookOK,
    actorVars, CreatorTypes, CreatorRec
<1>4. ASSUME CreateHook PROVE HookOK'
  BY <1>4, NothingTyped
  DEF CreateHook, Types, ActorTypes, OwnOK, TableOwn, LockOwn, HookOK, actorVars,
    CreatorTypes, CreatorRec
<1>5. ASSUME NEW w \in Works, CreateDone(w) PROVE HookOK'
  BY <1>5, NothingTyped
  DEF CreateDone, Forgotten, Types, ActorTypes, OwnOK, TableOwn, LockOwn, HookOK, actorVars
<1>6. ASSUME NEW a \in Actors, HarnessExit(a) PROVE HookOK'
  BY <1>6
  DEF HarnessExit, Phase, Types, ActorTypes, OwnOK, TableOwn, LockOwn, HookOK, actorVars,
    Unlisted
<1>7. ASSUME NEW t \in Threads, NEW a \in Actors, View(t, a) PROVE HookOK'
  BY <1>7, NothingTyped
  DEF View, Starts, Restored, Fresh, Types, ActorTypes, OwnOK, TableOwn, LockOwn, HookOK,
    actorVars
<1>8. ASSUME NEW a \in Actors, NEW w \in Works, BeginCleanup(a, w) PROVE HookOK'
  BY <1>8, NothingTyped
  DEF BeginCleanup, Fresh, Starts, Stopped, Types, ActorTypes, OwnOK, TableOwn, LockOwn,
    HookOK, actorVars
<1>9. ASSUME NEW w \in Works, CleanupRelease(w) PROVE HookOK'
  BY <1>9
  DEF CleanupRelease, At, Types, ActorTypes, OwnOK, TableOwn, LockOwn, HookOK, actorVars,
    Unlisted
<1>10. ASSUME NEW t \in Threads, ForceDelete(t) PROVE HookOK'
  BY <1>10
  DEF ForceDelete, Stopped, Types, ActorTypes, OwnOK, TableOwn, LockOwn, HookOK, actorVars,
    Unlisted
<1>11. ASSUME Stop PROVE HookOK'
  BY <1>11, NothingTyped
  DEF Stop, Down, Phase, Types, ActorTypes, OwnOK, TableOwn, LockOwn, HookOK, actorVars
<1>12. ASSUME Crash PROVE HookOK'
  BY <1>12, NothingTyped
  DEF Crash, Down, Types, ActorTypes, OwnOK, TableOwn, LockOwn, HookOK, actorVars
<1>13. CASE UNCHANGED <<table, hooked, alive, creator>>
  BY <1>13 DEF HookOK
<1> QED
  BY <1>1, <1>2, <1>3, <1>4, <1>5, <1>6, <1>7, <1>8, <1>9, <1>10, <1>11, <1>12, <1>13
  DEF Next, vars, rowVars, actorVars, Prompted, GetFound, Wake, ProvisionStart,
    ProvisionTree, ProvisionRecord, ProvisionActivate, ProvisionReport, CleanupStart,
    CleanupLook, CleanupRemove, RetryProvision, AskCleanup, DeleteClosed, Boot

\* A row turns closed only of a thread whose log is, or becomes, closed.
LEMMA ClosedStep ==
  ASSUME Types, OwnOK, ClosedOK, [Next]_vars
  PROVE  ClosedOK'
<1>1. ASSUME CreateRow PROVE ClosedOK'
  BY <1>1, NothingTyped
  DEF CreateRow, Comes, Types, RowTypes, OwnOK, ClosedOK, Phases, LockOwn, CreatorTypes
<1>2. ASSUME NEW t \in Threads, Prompted(t) PROVE ClosedOK'
  BY <1>2, NothingTyped, SetPhaseEffect
  DEF Prompted, Types, RowTypes, OwnOK, ClosedOK, Phases, rowVars
<1>3. ASSUME NEW t \in Threads, ForceDelete(t) PROVE ClosedOK'
  BY <1>3 DEF ForceDelete, Stopped, Types, RowTypes, OwnOK, ClosedOK, Phases
<1>4. ASSUME NEW a \in Actors, HarnessExit(a) PROVE ClosedOK'
  BY <1>4, NothingTyped, SetPhaseEffect
  DEF HarnessExit, Phase, Types, RowTypes, OwnOK, ClosedOK, Phases, ActorTypes, Someone
<1>5. ASSUME NEW w \in Works, ProvisionStart(w) PROVE ClosedOK'
  BY <1>5, NothingTyped, SetPhaseEffect
  DEF ProvisionStart, At, Types, RowTypes, OwnOK, ClosedOK, Phases, WorkOwn
<1>6. ASSUME NEW w \in Works, ProvisionTree(w) PROVE ClosedOK'
  BY <1>6, NothingTyped, SetPhaseEffect
  DEF ProvisionTree, At, ProvisionFails, Types, RowTypes, OwnOK, ClosedOK, Phases, WorkOwn
<1>7. ASSUME NEW w \in Works, ProvisionRecord(w) PROVE ClosedOK'
  BY <1>7, NothingTyped, SetPhaseEffect
  DEF ProvisionRecord, At, ProvisionFails, Comes, Types, RowTypes, OwnOK, ClosedOK, Phases,
    WorkOwn
<1>8. ASSUME NEW w \in Works, ProvisionActivate(w) PROVE ClosedOK'
  BY <1>8, NothingTyped, SetPhaseEffect
  DEF ProvisionActivate, At, ProvisionFails, CanStart, Types, RowTypes, OwnOK, ClosedOK,
    Phases, WorkOwn
<1>9. ASSUME NEW w \in Works, ProvisionReport(w) PROVE ClosedOK'
  BY <1>9, NothingTyped, SetPhaseEffect
  DEF ProvisionReport, At, Types, RowTypes, OwnOK, ClosedOK, Phases, WorkOwn
<1>10. ASSUME NEW t \in Threads, NEW w \in Works, RetryProvision(t, w) PROVE ClosedOK'
  BY <1>10, NothingTyped, SetPhaseEffect
  DEF RetryProvision, Asks, Types, RowTypes, OwnOK, ClosedOK, Phases
<1>11. ASSUME NEW t \in Threads, NEW a \in Actors, View(t, a) PROVE ClosedOK'
  BY <1>11 DEF View, Starts, Restored, Fresh, Types, RowTypes, OwnOK, ClosedOK, Phases
<1>12. ASSUME NEW a \in Actors, NEW w \in Works, BeginCleanup(a, w) PROVE ClosedOK'
  BY <1>12, NothingTyped, SetPhaseEffect
  DEF BeginCleanup, Fresh, Starts, Stopped, Types, RowTypes, OwnOK, ClosedOK, Phases,
    LockOwn
<1>13. ASSUME NEW w \in Works, CleanupStart(w) PROVE ClosedOK'
  BY <1>13, NothingTyped, SetPhaseEffect
  DEF CleanupStart, At, Types, RowTypes, OwnOK, ClosedOK, Phases, WorkOwn
<1>14. ASSUME NEW w \in Works, CleanupRemove(w) PROVE ClosedOK'
  BY <1>14, NothingTyped, SetPhaseEffect
  DEF CleanupRemove, At, Types, RowTypes, OwnOK, ClosedOK, Phases, WorkOwn
<1>15. ASSUME NEW w \in Works, CleanupRelease(w) PROVE ClosedOK'
  BY <1>15, NothingTyped
  DEF CleanupRelease, At, Types, RowTypes, OwnOK, ClosedOK, Phases, WorkOwn
<1>16. ASSUME NEW t \in Threads, NEW remove \in BOOLEAN, DeleteClosed(t, remove)
       PROVE ClosedOK'
  BY <1>16 DEF DeleteClosed, Types, RowTypes, OwnOK, ClosedOK, Phases
<1>17. ASSUME Stop PROVE ClosedOK'
  BY <1>17 DEF Stop, Down, Phase, Types, RowTypes, OwnOK, ClosedOK, Phases
<1>18. ASSUME Crash PROVE ClosedOK'
  BY <1>18 DEF Crash, Down, Types, RowTypes, OwnOK, ClosedOK, Phases
<1>19. CASE UNCHANGED <<row, ended>>
  BY <1>19 DEF ClosedOK
<1> QED
  BY <1>1, <1>2, <1>3, <1>4, <1>5, <1>6, <1>7, <1>8, <1>9, <1>10, <1>11, <1>12, <1>13,
    <1>14, <1>15, <1>16, <1>17, <1>18, <1>19
  DEF Next, vars, rowVars, actorVars, Create, GetFound, CreateHook, CreateAdopt, Wake,
    CreateDone, CleanupLook, AskCleanup, Boot

\* A step that brings nobody into the checkout, and no goroutine to a removal.
Removes(w) == work[w].at = "remove" /\ work[w].remove /\ work[w].placed

LEMMA LookStill ==
  ASSUME LookOK, RowTypes,
         \A u \in Threads : row'[u] # "none" => row[u] # "none",
         placed' \subseteq placed, late' = late,
         \A w \in Works : Removes(w)' => Removes(w) /\ work'[w].thread = work[w].thread
  PROVE  LookOK'
  BY  DEF LookOK, Removes, Others, Exists, RowTypes

\* Who moves in during a removal is noted.
LEMMA LookStep ==
  ASSUME Types, OwnOK, LookOK, [Next]_vars
  PROVE  LookOK'
<1>1. ASSUME CreateRow PROVE LookOK'
  <2>1. creator.thread \in Threads /\ work' = work
    BY <1>1, NothingTyped DEF CreateRow, OwnOK, LockOwn
  <2>2. SUFFICES ASSUME NEW w \in Works, Removes(w)
        PROVE  Others(work[w].thread)' \subseteq late'
    BY <2>1 DEF LookOK, Removes
  <2>3. late' = late \cup {creator.thread}
    BY <1>1, <2>2 DEF CreateRow, Comes, Removing, Removes
  <2>4. Others(work[w].thread)' \subseteq Others(work[w].thread) \cup {creator.thread}
    BY <1>1, <2>1 DEF CreateRow, Others, Exists, Types, RowTypes
  <2>5. Others(work[w].thread) \subseteq late
    BY <2>2 DEF LookOK, Removes
  <2> QED
    BY <2>1, <2>3, <2>4, <2>5
<1>2. ASSUME NEW t \in Threads, Prompted(t) PROVE LookOK'
  <2>1. \A u \in Threads : row'[u] # "none" => row[u] # "none"
    BY <1>2, SetPhaseEffect
    DEF Prompted, Types, RowTypes, ActorTypes, Someone, Exists, Phases
  <2>2. placed' \subseteq placed /\ late' = late /\ work' = work
    BY <1>2 DEF Prompted
  <2> QED
    BY <2>1, <2>2, LookStill DEF Types, Removes
<1>3. ASSUME NEW t \in Threads, ForceDelete(t) PROVE LookOK'
  <2>1. \A u \in Threads : row'[u] # "none" => row[u] # "none"
    BY <1>3 DEF ForceDelete, Stopped, Types, RowTypes, ActorTypes, Someone, Exists, Phases
  <2>2. placed' \subseteq placed /\ late' = late /\ work' = work
    BY <1>3 DEF ForceDelete
  <2> QED
    BY <2>1, <2>2, LookStill DEF Types, Removes
<1>4. ASSUME NEW a \in Actors, HarnessExit(a) PROVE LookOK'
  <2>1. \A u \in Threads : row'[u] # "none" => row[u] # "none"
    BY <1>4, SetPhaseEffect, NothingTyped
    DEF HarnessExit, Phase, Types, RowTypes, ActorTypes, Someone, Exists, Phases
  <2>2. placed' \subseteq placed /\ late' = late /\ work' = work
    BY <1>4 DEF HarnessExit
  <2> QED
    BY <2>1, <2>2, LookStill DEF Types, Removes
<1>5. ASSUME NEW w \in Works, CreateDone(w) PROVE LookOK'
  <2>1. \A u \in Threads : row'[u] # "none" => row[u] # "none"
    BY <1>5 DEF CreateDone, rowVars
  <2>2. placed' \subseteq placed /\ late' = late
    BY <1>5 DEF CreateDone, rowVars
  <2>3. \A v \in Works : Removes(v)' => Removes(v) /\ work'[v].thread = work[v].thread
    BY <1>5, CreateDoneEffect DEF Removes, NewProvisionFields
  <2> QED
    BY <2>1, <2>2, <2>3, LookStill DEF Types
<1>6. ASSUME NEW w \in Works, ProvisionStart(w) PROVE LookOK'
  <2>1. work[w].thread \in Threads
    BY <1>6, NothingTyped DEF ProvisionStart, At, OwnOK, WorkOwn
  <2>2. \A u \in Threads : row'[u] # "none" => row[u] # "none"
    BY <1>6, <2>1, SetPhaseEffect, NothingTyped
    DEF ProvisionStart, At, Types, RowTypes, Phases, Exists
  <2>3. placed' \subseteq placed /\ late' = late
    BY <1>6 DEF ProvisionStart, At
  <2>4. \A v \in Works : Removes(v)' => Removes(v) /\ work'[v].thread = work[v].thread
    BY <1>6, GoesEffect, NothingTyped DEF ProvisionStart, At, Types, Removes, SameJob, Ats
  <2> QED
    BY <2>2, <2>3, <2>4, LookStill DEF Types
<1>7. ASSUME NEW w \in Works, ProvisionTree(w) PROVE LookOK'
  <2>1. work[w].thread \in Threads
    BY <1>7, NothingTyped DEF ProvisionTree, At, ProvisionFails, OwnOK, WorkOwn
  <2>2. \A u \in Threads : row'[u] # "none" => row[u] # "none"
    BY <1>7, <2>1, SetPhaseEffect, NothingTyped
    DEF ProvisionTree, At, ProvisionFails, Types, RowTypes, Phases, Exists
  <2>3. placed' \subseteq placed /\ late' = late
    BY <1>7 DEF ProvisionTree, At, ProvisionFails
  <2>4. \A v \in Works : Removes(v)' => Removes(v) /\ work'[v].thread = work[v].thread
    BY <1>7, GoesEffect, EndsEffect, NothingTyped
    DEF ProvisionTree, At, ProvisionFails, Types, Removes, SameJob, Ats
  <2> QED
    BY <2>2, <2>3, <2>4, LookStill DEF Types
<1>8. ASSUME NEW w \in Works, ProvisionRecord(w) PROVE LookOK'
  <2> DEFINE t == work[w].thread
  <2>1. t \in Threads
    BY <1>8, NothingTyped DEF ProvisionRecord, At, OwnOK, WorkOwn
  <2>2. \A u \in Threads : row'[u] # "none" => row[u] # "none"
    BY <1>8, <2>1, SetPhaseEffect
    DEF ProvisionRecord, ProvisionFails, Types, RowTypes, Phases
  <2>3. placed' \subseteq placed \cup {t} /\ (late' = late \cup {t} \/ (late' = late /\ (~Removing \/ placed' = placed)))
    BY <1>8 DEF ProvisionRecord, Comes
  <2>4. \A v \in Works : Removes(v)' => Removes(v) /\ work'[v].thread = work[v].thread
    BY <1>8, GoesEffect, EndsEffect, NothingTyped
    DEF ProvisionRecord, ProvisionFails, Types, Removes, SameJob, Ats
  <2>5. SUFFICES ASSUME NEW v \in Works, Removes(v), work'[v].thread = work[v].thread
        PROVE  Others(work[v].thread)' \subseteq late'
    BY <2>4 DEF LookOK, Removes
  <2>6. late' = late \cup {t} \/ (late' = late /\ placed' = placed)
    BY <2>3, <2>5 DEF Removing, Removes
  <2>7. Others(work[v].thread) \subseteq late
    BY <2>5 DEF LookOK, Removes
  <2>8. CASE late' = late /\ placed' = placed
    BY <2>2, <2>5, <2>7, <2>8 DEF Others, Exists, Types, RowTypes
  <2>9. CASE late' = late \cup {t}
    BY <2>2, <2>3, <2>5, <2>7, <2>9 DEF Others, Exists, Types, RowTypes
  <2> QED
    BY <2>6, <2>8, <2>9
<1>9. ASSUME NEW w \in Works, ProvisionActivate(w) PROVE LookOK'
  <2>1. work[w].thread \in Threads
    BY <1>9, NothingTyped
    DEF ProvisionActivate, At, ProvisionFails, CanStart, OwnOK, WorkOwn
  <2>2. \A u \in Threads : row'[u] # "none" => row[u] # "none"
    BY <1>9, <2>1, SetPhaseEffect, NothingTyped
    DEF ProvisionActivate, At, ProvisionFails, CanStart, Types, RowTypes, Phases, Exists
  <2>3. placed' \subseteq placed /\ late' = late
    BY <1>9 DEF ProvisionActivate, At, ProvisionFails, CanStart
  <2>4. \A v \in Works : Removes(v)' => Removes(v) /\ work'[v].thread = work[v].thread
    BY <1>9, GoesEffect, EndsEffect, NothingTyped
    DEF ProvisionActivate, At, ProvisionFails, CanStart, Types, Removes, SameJob, Ats
  <2> QED
    BY <2>2, <2>3, <2>4, LookStill DEF Types
<1>10. ASSUME NEW w \in Works, ProvisionReport(w) PROVE LookOK'
  <2>1. work[w].thread \in Threads
    BY <1>10, NothingTyped DEF ProvisionReport, At, OwnOK, WorkOwn
  <2>2. \A u \in Threads : row'[u] # "none" => row[u] # "none"
    BY <1>10, <2>1, SetPhaseEffect, NothingTyped
    DEF ProvisionReport, At, Types, RowTypes, Phases, Exists
  <2>3. placed' \subseteq placed /\ late' = late
    BY <1>10 DEF ProvisionReport, At
  <2>4. \A v \in Works : Removes(v)' => Removes(v) /\ work'[v].thread = work[v].thread
    BY <1>10, EndsEffect, NothingTyped DEF ProvisionReport, At, Types, Removes, SameJob, Ats
  <2> QED
    BY <2>2, <2>3, <2>4, LookStill DEF Types
<1>11. ASSUME NEW t \in Threads, NEW w \in Works, RetryProvision(t, w) PROVE LookOK'
  <2>1. \A u \in Threads : row'[u] # "none" => row[u] # "none"
    BY <1>11, SetPhaseEffect DEF RetryProvision, Types, RowTypes, Phases
  <2>2. placed' \subseteq placed /\ late' = late
    BY <1>11 DEF RetryProvision, rowVars
  <2>3. \A v \in Works : Removes(v)' => Removes(v) /\ work'[v].thread = work[v].thread
    BY <1>11, RetryEffect DEF Removes, NewProvisionFields
  <2> QED
    BY <2>1, <2>2, <2>3, LookStill DEF Types
<1>12. ASSUME NEW t \in Threads, NEW a \in Actors, View(t, a) PROVE LookOK'
  <2>1. \A u \in Threads : row'[u] # "none" => row[u] # "none"
    BY <1>12
    DEF View, Starts, Restored, Fresh, Types, RowTypes, ActorTypes, Someone, Exists, Phases
  <2>2. placed' \subseteq placed /\ late' = late /\ work' = work
    BY <1>12 DEF View
  <2> QED
    BY <2>1, <2>2, LookStill DEF Types, Removes
<1>13. ASSUME NEW a \in Actors, NEW w \in Works, BeginCleanup(a, w) PROVE LookOK'
  <2>1. \A u \in Threads : row'[u] # "none" => row[u] # "none"
    BY <1>13, BeginCleanupEffect, SetPhaseEffect DEF BeginCleanup, Types, RowTypes, Phases
  <2>2. placed' \subseteq placed /\ late' = late
    BY <1>13 DEF BeginCleanup, rowVars
  <2>3. \A v \in Works : Removes(v)' => Removes(v) /\ work'[v].thread = work[v].thread
    BY <1>13, BeginCleanupEffect DEF Removes, NewCleanupFields
  <2> QED
    BY <2>1, <2>2, <2>3, LookStill DEF Types
<1>14. ASSUME NEW w \in Works, CleanupStart(w) PROVE LookOK'
  <2>1. work[w].thread \in Threads
    BY <1>14, NothingTyped DEF CleanupStart, At, OwnOK, WorkOwn
  <2>2. \A u \in Threads : row'[u] # "none" => row[u] # "none"
    BY <1>14, <2>1, SetPhaseEffect, NothingTyped
    DEF CleanupStart, At, Types, RowTypes, Phases, Exists
  <2>3. placed' \subseteq placed /\ late' = late
    BY <1>14 DEF CleanupStart, At
  <2>4. \A v \in Works : Removes(v)' => Removes(v) /\ work'[v].thread = work[v].thread
    BY <1>14, GoesEffect, NothingTyped DEF CleanupStart, At, Types, Removes, SameJob, Ats
  <2> QED
    BY <2>2, <2>3, <2>4, LookStill DEF Types
<1>15. ASSUME NEW w \in Works, CleanupLook(w) PROVE LookOK'
  <2>1. row' = row /\ placed' = placed
    BY <1>15 DEF CleanupLook, rowVars
  <2>2. SameJob(w) /\ work'[w].remove = (work[w].remove /\ ~Keeps(w))
        /\ \A v \in Works : v # w => work'[v] = work[v]
    BY <1>15, LookEffect DEF Types
  <2>3. SUFFICES ASSUME NEW v \in Works, Removes(v)'
        PROVE  Others(work[v].thread)' \subseteq late'
    BY  DEF LookOK, Removes
  <2>4. CASE v = w
    <3>1. work[w].placed /\ ~Keeps(w) /\ work'[w].thread = work[w].thread
      BY <2>2, <2>3, <2>4 DEF Removes, SameJob
    <3> QED
      BY <2>1, <2>4, <3>1 DEF Keeps, Others, Exists
  <2>5. CASE v # w
    <3>1. Removes(v) /\ work'[v].thread = work[v].thread
      BY <2>2, <2>3, <2>5 DEF Removes
    <3>2. late' = late
      BY <1>15, <3>1 DEF CleanupLook, Removing, Removes
    <3> QED
      BY <2>1, <3>1, <3>2 DEF LookOK, Removes, Others, Exists
  <2> QED
    BY <2>4, <2>5
<1>16. ASSUME NEW w \in Works, CleanupRemove(w) PROVE LookOK'
  <2>1. work[w].thread \in Threads
    BY <1>16, NothingTyped DEF CleanupRemove, At, OwnOK, WorkOwn
  <2>2. \A u \in Threads : row'[u] # "none" => row[u] # "none"
    BY <1>16, <2>1, SetPhaseEffect, NothingTyped
    DEF CleanupRemove, At, Types, RowTypes, Phases, Exists
  <2>3. placed' \subseteq placed /\ late' = late
    BY <1>16 DEF CleanupRemove, At
  <2>4. \A v \in Works : Removes(v)' => Removes(v) /\ work'[v].thread = work[v].thread
    BY <1>16, GoesEffect, EndsEffect, NothingTyped
    DEF CleanupRemove, At, Types, Removes, SameJob, Ats
  <2> QED
    BY <2>2, <2>3, <2>4, LookStill DEF Types
<1>17. ASSUME NEW w \in Works, CleanupRelease(w) PROVE LookOK'
  <2>1. work[w].thread \in Threads
    BY <1>17, NothingTyped DEF CleanupRelease, At, OwnOK, WorkOwn
  <2>2. \A u \in Threads : row'[u] # "none" => row[u] # "none"
    BY <1>17, <2>1, NothingTyped DEF CleanupRelease, At, Types, RowTypes, Phases, Exists
  <2>3. placed' \subseteq placed /\ late' = late
    BY <1>17 DEF CleanupRelease, At
  <2>4. \A v \in Works : Removes(v)' => Removes(v) /\ work'[v].thread = work[v].thread
    BY <1>17, EndsEffect, NothingTyped DEF CleanupRelease, At, Types, Removes, SameJob, Ats
  <2> QED
    BY <2>2, <2>3, <2>4, LookStill DEF Types
<1>18. ASSUME NEW t \in Threads, NEW remove \in BOOLEAN, DeleteClosed(t, remove)
       PROVE LookOK'
  <2>1. \A u \in Threads : row'[u] # "none" => row[u] # "none"
    BY <1>18 DEF DeleteClosed, Types, RowTypes, ActorTypes, Someone, Exists, Phases
  <2>2. placed' \subseteq placed /\ late' = late /\ work' = work
    BY <1>18 DEF DeleteClosed
  <2> QED
    BY <2>1, <2>2, LookStill DEF Types, Removes
<1>19. ASSUME Stop PROVE LookOK'
  <2>1. \A u \in Threads : row'[u] # "none" => row[u] # "none"
    BY <1>19 DEF Stop, Types, RowTypes, Exists
  <2>2. placed' = placed /\ late' = late /\ work' = [w \in Works |-> NoWork]
    BY <1>19 DEF Stop, Down
  <2>3. \A v \in Works : ~Removes(v)'
    BY <2>2, NothingTyped DEF Removes
  <2> QED
    BY <2>1, <2>2, <2>3, LookStill DEF Types
<1>20. ASSUME Crash PROVE LookOK'
  <2>1. \A u \in Threads : row'[u] # "none" => row[u] # "none"
    BY <1>20 DEF Crash, Types, RowTypes, Exists
  <2>2. placed' = placed /\ late' = late /\ work' = [w \in Works |-> NoWork]
    BY <1>20 DEF Crash, Down
  <2>3. \A v \in Works : ~Removes(v)'
    BY <2>2, NothingTyped DEF Removes
  <2> QED
    BY <2>1, <2>2, <2>3, LookStill DEF Types
<1>21. CASE UNCHANGED <<row, placed, late, work>>
  BY <1>21 DEF LookOK, Others, Exists
<1> QED
  BY <1>1, <1>2, <1>3, <1>4, <1>5, <1>6, <1>7, <1>8, <1>9, <1>10, <1>11, <1>12, <1>13,
    <1>14, <1>15, <1>16, <1>17, <1>18, <1>19, <1>20, <1>21
  DEF Next, vars, rowVars, actorVars, Create, GetFound, CreateHook, CreateAdopt, Wake,
    AskCleanup, Boot

\* What holds of a thread nobody hurried survives every step.
LEMMA CalmStep ==
  ASSUME IInv, [Next]_vars
  PROVE  CalmOK'
<1>1. ASSUME NEW t \in Threads, Create(t) PROVE CalmOK'
  <2>1. t \in Threads
    BY <1>1
    DEF RowTypes, ActorTypes, OwnOK, TableOwn, WorkOwn, LockOwn, Someone, Phases, actorVars
  <2>2. SUFFICES ASSUME NEW u \in Threads \ hasty', Calm(u)
        PROVE  Calm(u)'
    BY <1>1 DEF IInv, CalmOK, Create
  <2>3. CASE u # t
    BY <1>1, NothingTyped, <2>1, <2>2, <2>3, CalmElsewhere
    DEF IInv, Create, Types, RowTypes, ActorTypes, OwnOK, TableOwn, WorkOwn, LockOwn,
      Someone, Phases, rowVars, actorVars
  <2>4. CASE u = t
    BY <1>1, NothingTyped, <2>1, <2>2, <2>4
    DEF IInv, Create, Types, RowTypes, ActorTypes, OwnOK, TableOwn, WorkOwn, LockOwn,
      Someone, Phases, rowVars, actorVars, Calm, Quiet
  <2> QED
    BY <2>3, <2>4
<1>2. ASSUME NEW t \in Threads, Prompted(t) PROVE CalmOK'
  <2>1. t \in Threads
    BY <1>2
    DEF RowTypes, ActorTypes, OwnOK, TableOwn, WorkOwn, LockOwn, Someone, Phases, actorVars
  <2>2. SUFFICES ASSUME NEW u \in Threads \ hasty', Calm(u)
        PROVE  Calm(u)'
    BY <1>2 DEF IInv, CalmOK, Prompted
  <2>3. CASE u # t
    BY <1>2, NothingTyped, SetPhaseEffect, <2>1, <2>2, <2>3, CalmElsewhere
    DEF IInv, Prompted, Types, RowTypes, ActorTypes, OwnOK, TableOwn, WorkOwn, LockOwn,
      Someone, Phases, rowVars, actorVars
  <2>4. CASE u = t
    BY <1>2, NothingTyped, SetPhaseEffect, <2>1, <2>2, <2>4
    DEF IInv, Prompted, Types, RowTypes, ActorTypes, OwnOK, TableOwn, WorkOwn, LockOwn,
      Someone, Phases, rowVars, actorVars, Calm, Quiet
  <2> QED
    BY <2>3, <2>4
<1>3. ASSUME NEW t \in Threads, GetFound(t) PROVE CalmOK'
  <2>1. t \in Threads
    BY <1>3
    DEF RowTypes, ActorTypes, OwnOK, TableOwn, WorkOwn, LockOwn, Someone, Phases, actorVars
  <2>2. SUFFICES ASSUME NEW u \in Threads \ hasty', Calm(u)
        PROVE  Calm(u)'
    BY <1>3 DEF IInv, CalmOK, GetFound
  <2>3. CASE u # t
    BY <1>3, NothingTyped, <2>1, <2>2, <2>3, CalmElsewhere
    DEF IInv, GetFound, Types, RowTypes, ActorTypes, OwnOK, TableOwn, WorkOwn, LockOwn,
      Someone, Phases, rowVars, actorVars
  <2>4. CASE u = t
    BY <1>3, NothingTyped, <2>1, <2>2, <2>4
    DEF IInv, GetFound, Types, RowTypes, ActorTypes, OwnOK, TableOwn, WorkOwn, LockOwn,
      Someone, Phases, rowVars, actorVars, Calm, Quiet
  <2> QED
    BY <2>3, <2>4
<1>4. ASSUME NEW t \in Threads, ForceDelete(t) PROVE CalmOK'
  <2>1. t \in Threads
    BY <1>4
    DEF Types, RowTypes, ActorTypes, OwnOK, TableOwn, WorkOwn, LockOwn, Someone, Phases,
      actorVars
  <2>2. SUFFICES ASSUME NEW u \in Threads \ hasty', Calm(u)
        PROVE  Calm(u)'
    BY <1>4 DEF IInv, CalmOK, ForceDelete
  <2>3. CASE u # t
    BY <1>4, NothingTyped, <2>1, <2>2, <2>3, CalmElsewhere
    DEF IInv, ForceDelete, Stopped, Unlisted, Types, RowTypes, ActorTypes, OwnOK, TableOwn,
      WorkOwn, LockOwn, Someone, Phases, rowVars, actorVars
  <2>4. CASE u = t
    <3>1. row[t] = "cleanup_failed" /\ row'[t] = "none" /\ asked' = NoAsk
          /\ UNCHANGED <<creator, work, owner>>
      BY <1>4 DEF ForceDelete, LockFree, IInv, Types, RowTypes
    <3>2. \A w \in Works : work[w].thread # u
      BY <2>2, <2>4, <3>1, NobodyWorks DEF IInv
    <3>3. creator.thread # u
      BY <2>2, <2>4, <3>1 DEF Calm
    <3>4. \A a \in harness' \cup waking' : owner[a] # u
      BY <1>4, <2>2, <2>4, NothingTyped
      DEF ForceDelete, Stopped, Calm, IInv, Types, ActorTypes
    <3> QED
      BY <2>4, <3>1, <3>2, <3>3, <3>4, CalmAlone, NothingTyped
  <2> QED
    BY <2>3, <2>4
<1>5. ASSUME CreateRow PROVE CalmOK'
  <2>1. creator.thread \in Threads
    BY <1>5, NothingTyped
    DEF IInv, CreateRow, Comes, Types, RowTypes, ActorTypes, OwnOK, TableOwn, WorkOwn,
      LockOwn, Someone, Phases, actorVars
  <2>2. SUFFICES ASSUME NEW u \in Threads \ hasty', Calm(u)
        PROVE  Calm(u)'
    BY <1>5 DEF IInv, CalmOK, CreateRow
  <2>3. CASE u # creator.thread
    BY <1>5, NothingTyped, <2>1, <2>2, <2>3, CalmElsewhere
    DEF IInv, CreateRow, Comes, Types, RowTypes, ActorTypes, OwnOK, TableOwn, WorkOwn,
      LockOwn, Someone, Phases, rowVars, actorVars
  <2>4. CASE u = creator.thread
    <3>1. creator.at = "row" /\ row'[u] = "creating" /\ creator' = [creator EXCEPT !.at = "adopt"]
          /\ UNCHANGED <<ended, asked, work, table, owner, alive, harness, waking>>
      BY <1>5, <2>4 DEF CreateRow, actorVars, IInv, Types, RowTypes
    <3>2. creator'.thread = creator.thread /\ creator'.at = "adopt"
      BY <3>1 DEF Types, CreatorTypes, CreatorRec
    <3>3. u \notin ended
      BY <2>4, <3>1 DEF IInv, BornOK
    <3> QED
      BY <2>2, <2>4, <3>1, <3>2, <3>3 DEF Calm, Quiet
  <2> QED
    BY <2>3, <2>4
<1>6. ASSUME CreateHook PROVE CalmOK'
  <2>1. creator.thread \in Threads
    BY <1>6, NothingTyped
    DEF IInv, CreateHook, Types, RowTypes, ActorTypes, OwnOK, TableOwn, WorkOwn, LockOwn,
      Someone, Phases, actorVars
  <2>2. SUFFICES ASSUME NEW u \in Threads \ hasty', Calm(u)
        PROVE  Calm(u)'
    BY <1>6 DEF IInv, CalmOK, CreateHook
  <2>3. CASE u # creator.thread
    BY <1>6, NothingTyped, <2>1, <2>2, <2>3, CalmElsewhere
    DEF IInv, CreateHook, Types, RowTypes, ActorTypes, OwnOK, TableOwn, WorkOwn, LockOwn,
      Someone, Phases, rowVars, actorVars
  <2>4. CASE u = creator.thread
    BY <1>6, NothingTyped, <2>1, <2>2, <2>4
    DEF IInv, CreateHook, Types, RowTypes, ActorTypes, OwnOK, TableOwn, WorkOwn, LockOwn,
      Someone, Phases, rowVars, actorVars, Calm, Quiet
  <2> QED
    BY <2>3, <2>4
<1>7. ASSUME NEW a \in Actors, CreateAdopt(a) PROVE CalmOK'
  <2>1. creator.thread \in Threads
    BY <1>7, NothingTyped
    DEF IInv, CreateAdopt, Fresh, Starts, Types, RowTypes, ActorTypes, OwnOK, TableOwn,
      WorkOwn, LockOwn, Someone, Phases, actorVars
  <2>2. SUFFICES ASSUME NEW u \in Threads \ hasty', Calm(u)
        PROVE  Calm(u)'
    BY <1>7 DEF IInv, CalmOK, CreateAdopt
  <2>3. CASE u # creator.thread
    BY <1>7, NothingTyped, <2>1, <2>2, <2>3, CalmElsewhere
    DEF IInv, CreateAdopt, Fresh, Starts, Types, RowTypes, ActorTypes, OwnOK, TableOwn,
      WorkOwn, LockOwn, Someone, Phases, rowVars, actorVars
  <2>4. CASE u = creator.thread
    BY <1>7, NothingTyped, <2>1, <2>2, <2>4
    DEF IInv, CreateAdopt, Fresh, Starts, Types, RowTypes, ActorTypes, OwnOK, TableOwn,
      WorkOwn, LockOwn, Someone, Phases, rowVars, actorVars, Calm, Quiet
  <2> QED
    BY <2>3, <2>4
<1>8. ASSUME NEW a \in Actors, HarnessExit(a) PROVE CalmOK'
  <2>1. owner[a] \in Threads
    BY <1>8, NothingTyped
    DEF IInv, HarnessExit, Phase, Types, RowTypes, ActorTypes, OwnOK, TableOwn, WorkOwn,
      LockOwn, Someone, Phases, actorVars
  <2>2. SUFFICES ASSUME NEW u \in Threads \ hasty', Calm(u)
        PROVE  Calm(u)'
    BY <1>8 DEF IInv, CalmOK, HarnessExit
  <2>3. CASE u # owner[a]
    BY <1>8, NothingTyped, SetPhaseEffect, <2>1, <2>2, <2>3, CalmElsewhere
    DEF IInv, HarnessExit, Phase, Unlisted, Types, RowTypes, ActorTypes, OwnOK, TableOwn,
      WorkOwn, LockOwn, Someone, Phases, rowVars, actorVars
  <2>4. CASE u = owner[a]
    BY <1>8, NothingTyped, SetPhaseEffect, <2>1, <2>2, <2>4
    DEF IInv, HarnessExit, Phase, Unlisted, Types, RowTypes, ActorTypes, OwnOK, TableOwn,
      WorkOwn, LockOwn, Someone, Phases, rowVars, actorVars, Calm, Quiet
  <2> QED
    BY <2>3, <2>4
<1>9. ASSUME NEW a \in Actors, Wake(a) PROVE CalmOK'
  <2>1. owner[a] \in Threads
    BY <1>9, NothingTyped
    DEF IInv, Wake, CanStart, Types, RowTypes, ActorTypes, OwnOK, TableOwn, WorkOwn,
      LockOwn, Someone, Phases, actorVars
  <2>2. SUFFICES ASSUME NEW u \in Threads \ hasty', Calm(u)
        PROVE  Calm(u)'
    BY <1>9 DEF IInv, CalmOK, Wake
  <2>3. CASE u # owner[a]
    BY <1>9, NothingTyped, <2>1, <2>2, <2>3, CalmElsewhere
    DEF IInv, Wake, CanStart, Types, RowTypes, ActorTypes, OwnOK, TableOwn, WorkOwn,
      LockOwn, Someone, Phases, rowVars, actorVars
  <2>4. CASE u = owner[a]
    BY <1>9, NothingTyped, <2>1, <2>2, <2>4
    DEF IInv, Wake, CanStart, Types, RowTypes, ActorTypes, OwnOK, TableOwn, WorkOwn,
      LockOwn, Someone, Phases, rowVars, actorVars, Calm, Quiet
  <2> QED
    BY <2>3, <2>4
<1>10. ASSUME NEW w \in Works, CreateDone(w) PROVE CalmOK'
  <2>1. creator.thread \in Threads
    BY <1>10, NothingTyped
    DEF IInv, CreateDone, Forgotten, Types, RowTypes, ActorTypes, OwnOK, TableOwn, WorkOwn,
      LockOwn, Someone, Phases, actorVars
  <2>2. SUFFICES ASSUME NEW u \in Threads \ hasty', Calm(u)
        PROVE  Calm(u)'
    BY <1>10 DEF IInv, CalmOK, CreateDone
  <2> DEFINE t == creator.thread
  <2>3. /\ work[w] = NoWork /\ work'[w].kind = "provision" /\ work'[w].thread = t
        /\ work'[w].actor = creator.actor /\ \A v \in Works : v # w => work'[v] = work[v]
    BY <1>10, CreateDoneEffect DEF IInv, NewProvisionFields
  <2>4. /\ creator' = Nobody
        /\ UNCHANGED <<row, ended, asked, owner, alive, harness, waking>>
    BY <1>10 DEF CreateDone, rowVars
  <2>5. \A v \in Threads : table'[v] = IF v = t /\ creator.actor \notin alive /\ table[t] = creator.actor
                                      THEN NoActor ELSE table[v]
    BY <1>10 DEF CreateDone, Forgotten, IInv, Types, ActorTypes
  <2>6. CASE u # t
    BY <2>2, <2>3, <2>4, <2>5, <2>6, CalmElsewhere, NothingTyped DEF IInv, Types, ActorTypes
  <2>7. CASE u = t
    <3>1. creator.at = "check"
      BY <1>10 DEF CreateDone
    <3>2. /\ \A v \in Works : work[v].thread # u
          /\ asked.thread # u /\ Quiet(u) /\ row[u] \in {"creating", "provision_failed"}
          /\ table[u] = creator.actor /\ u \notin ended
      BY <2>2, <2>7, <3>1 DEF Calm
    <3>3. work'[w].actor \in alive' => table'[u] = work'[w].actor
      BY <2>3, <2>4, <2>5, <3>2
    <3> QED
      BY <2>3, <2>4, <2>7, <3>2, <3>3, CalmStarted, NothingTyped DEF Quiet
  <2> QED
    BY <2>6, <2>7
<1>11. ASSUME NEW w \in Works, ProvisionStart(w) PROVE CalmOK'
  <2>1. work[w].thread \in Threads
    BY <1>11, NothingTyped
    DEF IInv, ProvisionStart, At, Types, RowTypes, ActorTypes, OwnOK, TableOwn, WorkOwn,
      LockOwn, Someone, Phases, actorVars
  <2>2. SUFFICES ASSUME NEW u \in Threads \ hasty', Calm(u)
        PROVE  Calm(u)'
    BY <1>11 DEF IInv, CalmOK, ProvisionStart
  <2>3. CASE u # work[w].thread
    BY <1>11, NothingTyped, SetPhaseEffect, GoesEffect, <2>1, <2>2, <2>3, CalmElsewhere
    DEF IInv, ProvisionStart, At, SameJob, Ats, Types, RowTypes, ActorTypes, OwnOK,
      TableOwn, WorkOwn, LockOwn, Someone, Phases, rowVars, actorVars
  <2>4. CASE u = work[w].thread
    BY <1>11, NothingTyped, SetPhaseEffect, GoesEffect, <2>1, <2>2, <2>4
    DEF IInv, ProvisionStart, At, SameJob, Ats, Types, RowTypes, ActorTypes, OwnOK,
      TableOwn, WorkOwn, LockOwn, Someone, Phases, rowVars, actorVars, Calm, Quiet
  <2> QED
    BY <2>3, <2>4
<1>12. ASSUME NEW w \in Works, ProvisionTree(w) PROVE CalmOK'
  <2>1. work[w].thread \in Threads
    BY <1>12, NothingTyped
    DEF IInv, ProvisionTree, At, ProvisionFails, Types, RowTypes, ActorTypes, OwnOK,
      TableOwn, WorkOwn, LockOwn, Someone, Phases, actorVars
  <2>2. SUFFICES ASSUME NEW u \in Threads \ hasty', Calm(u)
        PROVE  Calm(u)'
    BY <1>12 DEF IInv, CalmOK, ProvisionTree
  <2>3. CASE u # work[w].thread
    BY <1>12, NothingTyped, SetPhaseEffect, GoesEffect, EndsEffect, <2>1, <2>2, <2>3,
      CalmElsewhere
    DEF IInv, ProvisionTree, At, ProvisionFails, SameJob, Ats, Types, RowTypes, ActorTypes,
      OwnOK, TableOwn, WorkOwn, LockOwn, Someone, Phases, rowVars, actorVars
  <2>4. CASE u = work[w].thread
    BY <1>12, NothingTyped, SetPhaseEffect, GoesEffect, EndsEffect, <2>1, <2>2, <2>4
    DEF IInv, ProvisionTree, At, ProvisionFails, SameJob, Ats, Types, RowTypes, ActorTypes,
      OwnOK, TableOwn, WorkOwn, LockOwn, Someone, Phases, rowVars, actorVars, Calm, Quiet
  <2> QED
    BY <2>3, <2>4
<1>13. ASSUME NEW w \in Works, ProvisionRecord(w) PROVE CalmOK'
  <2>1. work[w].thread \in Threads
    BY <1>13, NothingTyped
    DEF IInv, ProvisionRecord, At, ProvisionFails, Comes, Types, RowTypes, ActorTypes,
      OwnOK, TableOwn, WorkOwn, LockOwn, Someone, Phases, actorVars
  <2>2. SUFFICES ASSUME NEW u \in Threads \ hasty', Calm(u)
        PROVE  Calm(u)'
    BY <1>13 DEF IInv, CalmOK, ProvisionRecord
  <2>3. CASE u # work[w].thread
    BY <1>13, NothingTyped, SetPhaseEffect, GoesEffect, EndsEffect, <2>1, <2>2, <2>3,
      CalmElsewhere
    DEF IInv, ProvisionRecord, At, ProvisionFails, Comes, SameJob, Ats, Types, RowTypes,
      ActorTypes, OwnOK, TableOwn, WorkOwn, LockOwn, Someone, Phases, rowVars, actorVars
  <2>4. CASE u = work[w].thread
    BY <1>13, NothingTyped, SetPhaseEffect, GoesEffect, EndsEffect, <2>1, <2>2, <2>4
    DEF IInv, ProvisionRecord, At, ProvisionFails, Comes, SameJob, Ats, Types, RowTypes,
      ActorTypes, OwnOK, TableOwn, WorkOwn, LockOwn, Someone, Phases, rowVars, actorVars,
      Calm, Quiet
  <2> QED
    BY <2>3, <2>4
<1>14. ASSUME NEW w \in Works, ProvisionActivate(w) PROVE CalmOK'
  <2>1. work[w].thread \in Threads
    BY <1>14, NothingTyped
    DEF IInv, ProvisionActivate, At, ProvisionFails, CanStart, Types, RowTypes, ActorTypes,
      OwnOK, TableOwn, WorkOwn, LockOwn, Someone, Phases, actorVars
  <2>2. SUFFICES ASSUME NEW u \in Threads \ hasty', Calm(u)
        PROVE  Calm(u)'
    BY <1>14 DEF IInv, CalmOK, ProvisionActivate
  <2>3. CASE u # work[w].thread
    BY <1>14, NothingTyped, SetPhaseEffect, GoesEffect, EndsEffect, <2>1, <2>2, <2>3,
      CalmElsewhere
    DEF IInv, ProvisionActivate, At, ProvisionFails, CanStart, SameJob, Ats, Types,
      RowTypes, ActorTypes, OwnOK, TableOwn, WorkOwn, LockOwn, Someone, Phases, rowVars,
      actorVars
  <2>4. CASE u = work[w].thread
    BY <1>14, NothingTyped, SetPhaseEffect, GoesEffect, EndsEffect, <2>1, <2>2, <2>4
    DEF IInv, ProvisionActivate, At, ProvisionFails, CanStart, SameJob, Ats, Types,
      RowTypes, ActorTypes, OwnOK, TableOwn, WorkOwn, LockOwn, Someone, Phases, rowVars,
      actorVars, Calm, Quiet
  <2> QED
    BY <2>3, <2>4
<1>15. ASSUME NEW w \in Works, ProvisionReport(w) PROVE CalmOK'
  <2>1. work[w].thread \in Threads
    BY <1>15, NothingTyped
    DEF IInv, ProvisionReport, At, Types, RowTypes, ActorTypes, OwnOK, TableOwn, WorkOwn,
      LockOwn, Someone, Phases, actorVars
  <2>2. SUFFICES ASSUME NEW u \in Threads \ hasty', Calm(u)
        PROVE  Calm(u)'
    BY <1>15 DEF IInv, CalmOK, ProvisionReport
  <2>3. CASE u # work[w].thread
    BY <1>15, NothingTyped, SetPhaseEffect, EndsEffect, <2>1, <2>2, <2>3, CalmElsewhere
    DEF IInv, ProvisionReport, At, SameJob, Ats, Types, RowTypes, ActorTypes, OwnOK,
      TableOwn, WorkOwn, LockOwn, Someone, Phases, rowVars, actorVars
  <2>4. CASE u = work[w].thread
    BY <1>15, NothingTyped, SetPhaseEffect, EndsEffect, <2>1, <2>2, <2>4
    DEF IInv, ProvisionReport, At, SameJob, Ats, Types, RowTypes, ActorTypes, OwnOK,
      TableOwn, WorkOwn, LockOwn, Someone, Phases, rowVars, actorVars, Calm, Quiet
  <2> QED
    BY <2>3, <2>4
<1>16. ASSUME NEW w \in Works, CleanupStart(w) PROVE CalmOK'
  <2>1. work[w].thread \in Threads
    BY <1>16, NothingTyped
    DEF IInv, CleanupStart, At, Types, RowTypes, ActorTypes, OwnOK, TableOwn, WorkOwn,
      LockOwn, Someone, Phases, actorVars
  <2>2. SUFFICES ASSUME NEW u \in Threads \ hasty', Calm(u)
        PROVE  Calm(u)'
    BY <1>16 DEF IInv, CalmOK, CleanupStart
  <2>3. CASE u # work[w].thread
    BY <1>16, NothingTyped, SetPhaseEffect, GoesEffect, <2>1, <2>2, <2>3, CalmElsewhere
    DEF IInv, CleanupStart, At, SameJob, Ats, Types, RowTypes, ActorTypes, OwnOK, TableOwn,
      WorkOwn, LockOwn, Someone, Phases, rowVars, actorVars
  <2>4. CASE u = work[w].thread
    BY <1>16, NothingTyped, SetPhaseEffect, GoesEffect, <2>1, <2>2, <2>4
    DEF IInv, CleanupStart, At, SameJob, Ats, Types, RowTypes, ActorTypes, OwnOK, TableOwn,
      WorkOwn, LockOwn, Someone, Phases, rowVars, actorVars, Calm, Quiet
  <2> QED
    BY <2>3, <2>4
<1>17. ASSUME NEW w \in Works, CleanupLook(w) PROVE CalmOK'
  <2>1. SUFFICES ASSUME NEW u \in Threads \ hasty', Calm(u)
        PROVE  Calm(u)'
    BY <1>17 DEF IInv, CalmOK, CleanupLook
  <2>2. SameJob(w) /\ \A v \in Works : v # w => work'[v] = work[v]
    BY <1>17, LookEffect DEF IInv, Types
  <2>3. UNCHANGED <<row, ended, creator, asked, table, owner, alive, harness, waking>>
    BY <1>17 DEF CleanupLook, rowVars, actorVars
  <2> QED
    BY <2>1, <2>2, <2>3, CalmElsewhere DEF SameJob, IInv, Types, ActorTypes
<1>18. ASSUME NEW w \in Works, CleanupRemove(w) PROVE CalmOK'
  <2>1. work[w].thread \in Threads
    BY <1>18, NothingTyped
    DEF IInv, CleanupRemove, At, Types, RowTypes, ActorTypes, OwnOK, TableOwn, WorkOwn,
      LockOwn, Someone, Phases, actorVars
  <2>2. SUFFICES ASSUME NEW u \in Threads \ hasty', Calm(u)
        PROVE  Calm(u)'
    BY <1>18 DEF IInv, CalmOK, CleanupRemove
  <2>3. CASE u # work[w].thread
    BY <1>18, NothingTyped, SetPhaseEffect, GoesEffect, EndsEffect, <2>1, <2>2, <2>3,
      CalmElsewhere
    DEF IInv, CleanupRemove, At, SameJob, Ats, Types, RowTypes, ActorTypes, OwnOK, TableOwn,
      WorkOwn, LockOwn, Someone, Phases, rowVars, actorVars
  <2>4. CASE u = work[w].thread
    BY <1>18, NothingTyped, SetPhaseEffect, GoesEffect, EndsEffect, <2>1, <2>2, <2>4
    DEF IInv, CleanupRemove, At, SameJob, Ats, Types, RowTypes, ActorTypes, OwnOK, TableOwn,
      WorkOwn, LockOwn, Someone, Phases, rowVars, actorVars, Calm, Quiet
  <2> QED
    BY <2>3, <2>4
<1>19. ASSUME NEW w \in Works, CleanupRelease(w) PROVE CalmOK'
  <2>1. work[w].thread \in Threads
    BY <1>19, NothingTyped
    DEF IInv, CleanupRelease, At, Types, RowTypes, ActorTypes, OwnOK, TableOwn, WorkOwn,
      LockOwn, Someone, Phases, actorVars
  <2>2. SUFFICES ASSUME NEW u \in Threads \ hasty', Calm(u)
        PROVE  Calm(u)'
    BY <1>19 DEF IInv, CalmOK, CleanupRelease
  <2>3. CASE u # work[w].thread
    BY <1>19, NothingTyped, EndsEffect, <2>1, <2>2, <2>3, CalmElsewhere
    DEF IInv, CleanupRelease, At, Unlisted, SameJob, Ats, Types, RowTypes, ActorTypes,
      OwnOK, TableOwn, WorkOwn, LockOwn, Someone, Phases, rowVars, actorVars
  <2>4. CASE u = work[w].thread
    BY <1>19, NothingTyped, EndsEffect, <2>1, <2>2, <2>4
    DEF IInv, CleanupRelease, At, Unlisted, SameJob, Ats, Types, RowTypes, ActorTypes,
      OwnOK, TableOwn, WorkOwn, LockOwn, Someone, Phases, rowVars, actorVars, Calm, Quiet
  <2> QED
    BY <2>3, <2>4
<1>20. ASSUME NEW t \in Threads, NEW w \in Works, RetryProvision(t, w) PROVE CalmOK'
  <2>1. SUFFICES ASSUME NEW u \in Threads \ hasty', Calm(u)
        PROVE  Calm(u)'
    BY <1>20 DEF IInv, CalmOK, RetryProvision, Asks
  <2>2. /\ work[w] = NoWork /\ work'[w].kind = "provision" /\ work'[w].thread = t
        /\ work'[w].actor = table[t] /\ \A v \in Works : v # w => work'[v] = work[v]
    BY <1>20, RetryEffect DEF IInv, NewProvisionFields
  <2>3. /\ asked = NoAsk /\ row[t] = "provision_failed" /\ row'[t] = "provisioning"
        /\ (\A v \in Threads : v # t => row'[v] = row[v])
        /\ UNCHANGED <<ended, creator, asked, table, owner, alive, harness, waking>>
    BY <1>20, SetPhaseEffect
    DEF RetryProvision, LockFree, actorVars, IInv, Types, RowTypes, Phases
  <2>4. CASE u # t
    BY <2>1, <2>2, <2>3, <2>4, CalmElsewhere, NothingTyped DEF IInv, Types, ActorTypes
  <2>5. CASE u = t
    <3>1. ~Preparing(t)
      BY <1>20, <2>1, <2>5 DEF RetryProvision, Asks
    <3>2. creator.thread # u /\ \A v \in Works : work[v].thread # u
      BY <2>1, <2>3, <2>5, <3>1, Jobs, NothingTyped DEF Preparing, Workers, Calm, IInv
    <3> QED
      BY <2>1, <2>2, <2>3, <2>5, <3>2, NothingTyped DEF Calm
  <2> QED
    BY <2>4, <2>5
<1>21. ASSUME NEW t \in Threads, NEW a \in Actors, View(t, a) PROVE CalmOK'
  <2>1. t \in Threads
    BY <1>21
    DEF Restored, Fresh, Types, RowTypes, ActorTypes, OwnOK, TableOwn, WorkOwn, LockOwn,
      Someone, Phases, actorVars
  <2>2. SUFFICES ASSUME NEW u \in Threads \ hasty', Calm(u)
        PROVE  Calm(u)'
    BY <1>21 DEF IInv, CalmOK, View
  <2>3. CASE u # t
    BY <1>21, NothingTyped, <2>1, <2>2, <2>3, CalmElsewhere
    DEF IInv, View, Starts, Restored, Fresh, Types, RowTypes, ActorTypes, OwnOK, TableOwn,
      WorkOwn, LockOwn, Someone, Phases, rowVars, actorVars
  <2>4. CASE u = t
    BY <1>21, NothingTyped, <2>1, <2>2, <2>4
    DEF IInv, View, Starts, Restored, Fresh, Types, RowTypes, ActorTypes, OwnOK, TableOwn,
      WorkOwn, LockOwn, Someone, Phases, rowVars, actorVars, Calm, Quiet
  <2> QED
    BY <2>3, <2>4
<1>22. ASSUME NEW t \in Threads, NEW purge \in BOOLEAN, NEW remove \in BOOLEAN, AskCleanup(t, purge, remove)
       PROVE CalmOK'
  <2>1. t \in Threads
    BY <1>22
    DEF MayClean, Types, RowTypes, ActorTypes, OwnOK, TableOwn, WorkOwn, LockOwn, Someone,
      Phases, actorVars
  <2>2. SUFFICES ASSUME NEW u \in Threads \ hasty', Calm(u)
        PROVE  Calm(u)'
    BY <1>22 DEF IInv, CalmOK, AskCleanup, Asks
  <2>3. CASE u # t
    BY <1>22, NothingTyped, <2>1, <2>2, <2>3, CalmElsewhere
    DEF IInv, AskCleanup, Asks, MayClean, Types, RowTypes, ActorTypes, OwnOK, TableOwn,
      WorkOwn, LockOwn, Someone, Phases, rowVars, actorVars
  <2>4. CASE u = t
    <3>1. /\ asked = NoAsk /\ row[t] \notin {"none", "closed", "cleaning"} /\ asked'.thread = t
          /\ UNCHANGED <<row, ended, creator, work, table, owner, alive, harness, waking>>
      BY <1>22 DEF AskCleanup, LockFree, MayClean, Exists, rowVars, actorVars
    <3>2. ~Preparing(t)
      BY <1>22, <2>2, <2>4 DEF AskCleanup, Asks
    <3>3. creator.thread # u /\ \A w \in Works : work[w].thread # u
      BY <2>2, <2>4, <3>1, <3>2, Jobs, NothingTyped DEF Preparing, Workers, Calm, IInv
    <3> QED
      BY <2>2, <2>4, <3>1, <3>3 DEF Calm
  <2> QED
    BY <2>3, <2>4
<1>23. ASSUME NEW a \in Actors, NEW w \in Works, BeginCleanup(a, w) PROVE CalmOK'
  <2> DEFINE t == asked.thread
  <2>1. SUFFICES ASSUME NEW u \in Threads \ hasty', Calm(u)
        PROVE  Calm(u)'
    BY <1>23 DEF IInv, CalmOK, BeginCleanup
  <2>2. /\ t \in Threads /\ owner[a] = "none" /\ owner'[a] = t
        /\ \A b \in Actors : b # a => owner'[b] = owner[b]
    BY <1>23, BeginCleanupEffect DEF IInv
  <2>3. /\ work[w] = NoWork /\ work'[w].kind = "cleanup" /\ work'[w].thread = t
        /\ work'[w].actor = a /\ \A v \in Works : v # w => work'[v] = work[v]
    BY <1>23, BeginCleanupEffect DEF IInv, NewCleanupFields
  <2>4. /\ asked' = NoAsk /\ UNCHANGED <<ended, creator>>
        /\ alive' = (alive \ Stopped(t)) \cup {a}
        /\ harness' = harness \ Stopped(t) /\ waking' = waking \ Stopped(t)
    BY <1>23 DEF BeginCleanup
  <2>5. \A v \in Threads : v # t => row'[v] = row[v] /\ table'[v] = table[v]
    BY <1>23, <2>2, SetPhaseEffect
    DEF BeginCleanup, IInv, Types, RowTypes, ActorTypes, Phases
  <2>6. \A b \in harness \cup waking \cup alive : b \in Actors /\ b # a
    BY <2>2 DEF IInv, Types, ActorTypes
  <2>7. \A b \in Stopped(t) : b # NoActor /\ owner[b] = t
    BY <2>2 DEF Stopped, IInv, OwnOK, TableOwn
  <2>8. CASE u # t
    <3>1. \A b \in Actors : owner[b] = u => (b \in alive' <=> b \in alive)
      BY <2>2, <2>4, <2>7, <2>8, NothingTyped
    <3>2. \A b \in Actors : b \in harness' \cup waking' /\ owner'[b] = u =>
            b \in harness \cup waking /\ owner[b] = u
      BY <2>2, <2>4, <2>6
    <3>3. \A b \in harness' \cup waking' : b \in Actors
      BY <2>4, <2>6
    <3> QED
      BY <2>1, <2>3, <2>4, <2>5, <2>8, <3>1, <3>2, <3>3, CalmElsewhere, NothingTyped
      DEF IInv, Types
  <2>9. CASE u = t
    <3>1. /\ \A v \in Works : work[v].thread # u
          /\ row[u] \notin {"none", "closed"} /\ creator.thread # u /\ u \notin ended
      BY <2>1, <2>9 DEF Calm
    <3>2. row'[u] = "cleaning" /\ table'[u] = a
      BY <1>23, <2>2, <2>9, <3>1, SetPhaseEffect
      DEF BeginCleanup, IInv, Types, RowTypes, ActorTypes, Phases
    <3>3. \A b \in harness' \cup waking' : owner'[b] # u
      BY <2>1, <2>2, <2>4, <2>6, <2>9, NothingTyped
      DEF Calm, Stopped, IInv, Types, ActorTypes
    <3> QED
      BY <2>1, <2>3, <2>4, <2>9, <3>1, <3>2, <3>3, CalmStarted, NothingTyped DEF Quiet
  <2> QED
    BY <2>8, <2>9
<1>24. ASSUME NEW t \in Threads, NEW remove \in BOOLEAN, DeleteClosed(t, remove)
       PROVE CalmOK'
  <2>1. t \in Threads
    BY <1>24
    DEF RowTypes, ActorTypes, OwnOK, TableOwn, WorkOwn, LockOwn, Someone, Phases, actorVars
  <2>2. SUFFICES ASSUME NEW u \in Threads \ hasty', Calm(u)
        PROVE  Calm(u)'
    BY <1>24 DEF IInv, CalmOK, DeleteClosed
  <2>3. CASE u # t
    BY <1>24, NothingTyped, <2>1, <2>2, <2>3, CalmElsewhere
    DEF IInv, DeleteClosed, Types, RowTypes, ActorTypes, OwnOK, TableOwn, WorkOwn, LockOwn,
      Someone, Phases, rowVars, actorVars
  <2>4. CASE u = t
    BY <1>24, NothingTyped, <2>1, <2>2, <2>4
    DEF IInv, DeleteClosed, Types, RowTypes, ActorTypes, OwnOK, TableOwn, WorkOwn, LockOwn,
      Someone, Phases, rowVars, actorVars, Calm, Quiet
  <2> QED
    BY <2>3, <2>4
<1>25. ASSUME Stop PROVE CalmOK'
  <2>1. SUFFICES ASSUME NEW u \in Threads \ hasty', Calm(u)
        PROVE  Calm(u)'
    BY <1>25 DEF IInv, CalmOK, Stop, Down
  <2>2. u \in ended' => row'[u] \in {"closed", "none"}
    BY <1>25, <2>1 DEF Stop, Down, Phase, Exists, IInv, Types, RowTypes, Calm
  <2>3. /\ \A w \in Works : work'[w].thread # u
        /\ creator'.thread # u /\ asked'.thread # u
        /\ harness' \cup waking' = {}
    BY <1>25, NothingTyped DEF Stop, Down
  <2> QED
    BY <2>2, <2>3, CalmAlone
<1>26. ASSUME Crash PROVE CalmOK'
  <2>1. SUFFICES ASSUME NEW u \in Threads \ hasty', Calm(u)
        PROVE  Calm(u)'
    BY <1>26 DEF IInv, CalmOK, Crash, Down
  <2>2. u \in ended' => row'[u] \in {"closed", "none"}
    BY <1>26, <2>1 DEF Crash, Down, Phase, Exists, IInv, Types, RowTypes, Calm
  <2>3. /\ \A w \in Works : work'[w].thread # u
        /\ creator'.thread # u /\ asked'.thread # u
        /\ harness' \cup waking' = {}
    BY <1>26, NothingTyped DEF Crash, Down
  <2> QED
    BY <2>2, <2>3, CalmAlone
<1>27. CASE UNCHANGED <<row, ended, hasty, table, owner, alive, harness, waking, creator, asked, work>>
  BY <1>27 DEF IInv, CalmOK, Calm, Quiet
<1> QED
  BY <1>1, <1>2, <1>3, <1>4, <1>5, <1>6, <1>7, <1>8, <1>9, <1>10, <1>11, <1>12, <1>13,
    <1>14, <1>15, <1>16, <1>17, <1>18, <1>19, <1>20, <1>21, <1>22, <1>23, <1>24, <1>25,
    <1>26, <1>27
  DEF Next, vars, rowVars, actorVars, Boot

LEMMA BornStill ==
  ASSUME Types, OwnOK, BornOK, \A u \in Threads : row'[u] = "none" <=> row[u] = "none",
         UNCHANGED <<ended, creator, asked, owner>>
  PROVE  BornOK'
  BY NothingTyped DEF BornOK, OwnOK, LockOwn

\* Threads with a past, and those without.
LEMMA BornStep ==
  ASSUME Types, OwnOK, BornOK, [Next]_vars
  PROVE  BornOK'
<1>1. ASSUME NEW t \in Threads, Create(t) PROVE BornOK'
  <2>1. /\ creator' = [thread |-> t, at |-> "row", actor |-> NoActor] /\ row[t] = "none"
        /\ (\A a \in Actors : owner[a] # t) /\ UNCHANGED <<row, ended, asked, owner>>
    BY <1>1 DEF Create, rowVars, actorVars
  <2>2. creator'.thread = t
    BY <2>1
  <2> QED
    BY <2>1, <2>2 DEF BornOK
<1>2. ASSUME CreateRow PROVE BornOK'
  <2>1. creator'.at = "adopt" /\ UNCHANGED <<ended, asked, owner>>
    BY <1>2 DEF CreateRow, actorVars, Types, CreatorTypes, CreatorRec
  <2>2. \A u \in Threads : row[u] # "none" => row'[u] # "none"
    BY <1>2 DEF CreateRow, Types, RowTypes
  <2> QED
    BY <2>1, <2>2 DEF BornOK, OwnOK, LockOwn
<1>3. ASSUME NEW a \in Actors, CreateAdopt(a) PROVE BornOK'
  BY <1>3, NothingTyped
  DEF CreateAdopt, Fresh, Starts, Types, RowTypes, ActorTypes, CreatorTypes, CreatorRec,
    AskRec, OwnOK, BornOK, Phases, rowVars
<1>4. ASSUME NEW t \in Threads, NEW purge \in BOOLEAN, NEW remove \in BOOLEAN, AskCleanup(t, purge, remove)
      PROVE BornOK'
  <2>1. asked' = [thread |-> t, purge |-> purge, remove |-> remove, placed |-> t \in placed]
        /\ row[t] # "none" /\ UNCHANGED <<row, ended, creator, owner>>
    BY <1>4 DEF AskCleanup, MayClean, Exists, rowVars, actorVars
  <2>2. asked'.thread = t
    BY <2>1
  <2> QED
    BY <2>1, <2>2 DEF BornOK
<1>5. ASSUME NEW t \in Threads, Prompted(t) PROVE BornOK'
  <2>1. \A u \in Threads : row'[u] = "none" <=> row[u] = "none"
    BY <1>5, SetPhaseEffect, NothingTyped DEF Prompted, Types, RowTypes, Phases
  <2>2. UNCHANGED <<ended, creator, asked, owner>>
    BY <1>5 DEF Prompted, rowVars, actorVars
  <2> QED
    BY <2>1, <2>2, BornStill
<1>6. ASSUME NEW t \in Threads, ForceDelete(t) PROVE BornOK'
  BY <1>6, NothingTyped
  DEF ForceDelete, Stopped, Types, RowTypes, ActorTypes, CreatorTypes, CreatorRec, AskRec,
    OwnOK, BornOK, Phases, LockFree
<1>7. ASSUME NEW a \in Actors, HarnessExit(a) PROVE BornOK'
  <2>1. \A u \in Threads : row'[u] = "none" <=> row[u] = "none"
    BY <1>7, SetPhaseEffect, NothingTyped
    DEF HarnessExit, Phase, Types, RowTypes, Phases, ActorTypes, Someone
  <2>2. UNCHANGED <<ended, creator, asked, owner>>
    BY <1>7 DEF HarnessExit, rowVars, actorVars
  <2> QED
    BY <2>1, <2>2, BornStill
<1>8. ASSUME NEW w \in Works, ProvisionStart(w) PROVE BornOK'
  <2>1. \A u \in Threads : row'[u] = "none" <=> row[u] = "none"
    BY <1>8, SetPhaseEffect, NothingTyped
    DEF ProvisionStart, At, Types, RowTypes, Phases, OwnOK, WorkOwn
  <2>2. UNCHANGED <<ended, creator, asked, owner>>
    BY <1>8 DEF ProvisionStart, rowVars, actorVars
  <2> QED
    BY <2>1, <2>2, BornStill
<1>9. ASSUME NEW w \in Works, ProvisionTree(w) PROVE BornOK'
  <2>1. \A u \in Threads : row'[u] = "none" <=> row[u] = "none"
    BY <1>9, SetPhaseEffect, NothingTyped
    DEF ProvisionTree, At, ProvisionFails, Types, RowTypes, Phases, OwnOK, WorkOwn
  <2>2. UNCHANGED <<ended, creator, asked, owner>>
    BY <1>9 DEF ProvisionTree, rowVars, actorVars
  <2> QED
    BY <2>1, <2>2, BornStill
<1>10. ASSUME NEW w \in Works, ProvisionRecord(w) PROVE BornOK'
  <2>1. \A u \in Threads : row'[u] = "none" <=> row[u] = "none"
    BY <1>10, SetPhaseEffect, NothingTyped
    DEF ProvisionRecord, At, ProvisionFails, Comes, Types, RowTypes, Phases, OwnOK, WorkOwn
  <2>2. UNCHANGED <<ended, creator, asked, owner>>
    BY <1>10 DEF ProvisionRecord, rowVars, actorVars
  <2> QED
    BY <2>1, <2>2, BornStill
<1>11. ASSUME NEW w \in Works, ProvisionActivate(w) PROVE BornOK'
  <2>1. \A u \in Threads : row'[u] = "none" <=> row[u] = "none"
    BY <1>11, SetPhaseEffect, NothingTyped
    DEF ProvisionActivate, At, ProvisionFails, CanStart, Types, RowTypes, Phases, OwnOK,
      WorkOwn
  <2>2. UNCHANGED <<ended, creator, asked, owner>>
    BY <1>11 DEF ProvisionActivate, rowVars, actorVars
  <2> QED
    BY <2>1, <2>2, BornStill
<1>12. ASSUME NEW w \in Works, ProvisionReport(w) PROVE BornOK'
  <2>1. \A u \in Threads : row'[u] = "none" <=> row[u] = "none"
    BY <1>12, SetPhaseEffect, NothingTyped
    DEF ProvisionReport, At, Types, RowTypes, Phases, OwnOK, WorkOwn
  <2>2. UNCHANGED <<ended, creator, asked, owner>>
    BY <1>12 DEF ProvisionReport, rowVars, actorVars
  <2> QED
    BY <2>1, <2>2, BornStill
<1>13. ASSUME NEW t \in Threads, NEW w \in Works, RetryProvision(t, w) PROVE BornOK'
  <2>1. \A u \in Threads : row'[u] = "none" <=> row[u] = "none"
    BY <1>13, SetPhaseEffect, NothingTyped DEF RetryProvision, Asks, Types, RowTypes, Phases
  <2>2. UNCHANGED <<ended, creator, asked, owner>>
    BY <1>13 DEF RetryProvision, rowVars, actorVars
  <2> QED
    BY <2>1, <2>2, BornStill
<1>14. ASSUME NEW t \in Threads, NEW a \in Actors, View(t, a) PROVE BornOK'
  BY <1>14, NothingTyped
  DEF View, Starts, Restored, Fresh, Types, RowTypes, ActorTypes, CreatorTypes, CreatorRec,
    AskRec, OwnOK, BornOK, Phases, LockFree, Exists
<1>15. ASSUME NEW a \in Actors, NEW w \in Works, BeginCleanup(a, w) PROVE BornOK'
  BY <1>15, NothingTyped, SetPhaseEffect
  DEF BeginCleanup, Fresh, Starts, Stopped, Types, RowTypes, ActorTypes, CreatorTypes,
    CreatorRec, AskRec, OwnOK, BornOK, Phases, LockOwn
<1>16. ASSUME NEW w \in Works, CleanupStart(w) PROVE BornOK'
  <2>1. \A u \in Threads : row'[u] = "none" <=> row[u] = "none"
    BY <1>16, SetPhaseEffect, NothingTyped
    DEF CleanupStart, At, Types, RowTypes, Phases, OwnOK, WorkOwn
  <2>2. UNCHANGED <<ended, creator, asked, owner>>
    BY <1>16 DEF CleanupStart, rowVars, actorVars
  <2> QED
    BY <2>1, <2>2, BornStill
<1>17. ASSUME NEW w \in Works, CleanupRemove(w) PROVE BornOK'
  <2>1. \A u \in Threads : row'[u] = "none" <=> row[u] = "none"
    BY <1>17, SetPhaseEffect, NothingTyped
    DEF CleanupRemove, At, Types, RowTypes, Phases, OwnOK, WorkOwn
  <2>2. UNCHANGED <<ended, creator, asked, owner>>
    BY <1>17 DEF CleanupRemove, rowVars, actorVars
  <2> QED
    BY <2>1, <2>2, BornStill
<1>18. ASSUME NEW w \in Works, CleanupRelease(w) PROVE BornOK'
  BY <1>18, NothingTyped
  DEF CleanupRelease, At, Types, RowTypes, ActorTypes, CreatorTypes, CreatorRec, AskRec,
    OwnOK, BornOK, Phases, WorkOwn, LockFree
<1>19. ASSUME NEW t \in Threads, NEW remove \in BOOLEAN, DeleteClosed(t, remove)
       PROVE BornOK'
  <2>1. asked = NoAsk /\ \A u \in Threads : row[u] = "none" => row'[u] = "none"
    BY <1>19 DEF DeleteClosed, LockFree, Types, RowTypes
  <2>2. UNCHANGED <<ended, creator, asked, owner>>
    BY <1>19 DEF DeleteClosed, actorVars
  <2> QED
    BY <2>1, <2>2, NothingTyped DEF OwnOK, LockOwn, BornOK
<1>20. ASSUME Stop PROVE BornOK'
  BY <1>20, NothingTyped
  DEF Stop, Down, Phase, Types, RowTypes, ActorTypes, CreatorTypes, CreatorRec, AskRec,
    OwnOK, BornOK, Phases
<1>21. ASSUME Crash PROVE BornOK'
  BY <1>21, NothingTyped
  DEF Crash, Down, Types, RowTypes, ActorTypes, CreatorTypes, CreatorRec, AskRec, OwnOK,
    BornOK, Phases
<1>22. ASSUME CreateHook PROVE BornOK'
  BY <1>22, NothingTyped
  DEF CreateHook, Types, RowTypes, ActorTypes, CreatorTypes, CreatorRec, AskRec, OwnOK,
    BornOK, Phases, rowVars
<1>23. ASSUME NEW w \in Works, CreateDone(w) PROVE BornOK'
  BY <1>23, NothingTyped
  DEF CreateDone, Forgotten, Types, RowTypes, ActorTypes, CreatorTypes, CreatorRec, AskRec,
    OwnOK, BornOK, Phases, rowVars
<1>24. CASE UNCHANGED <<row, ended, owner, creator, asked>>
  BY <1>24 DEF BornOK
<1> QED
  BY <1>1, <1>2, <1>3, <1>4, <1>5, <1>6, <1>7, <1>8, <1>9, <1>10, <1>11, <1>12, <1>13,
    <1>14, <1>15, <1>16, <1>17, <1>18, <1>19, <1>20, <1>21, <1>22, <1>23, <1>24
  DEF Next, vars, rowVars, actorVars, GetFound, Wake, CleanupLook, Boot

-----------------------------------------------------------------------------
(* The inductive invariant holds of every state the program reaches.        *)

LEMMA InitInvariant == Init => IInv
<1> SUFFICES ASSUME Init PROVE IInv
  OBVIOUS
<1>1. RowTypes /\ ActorTypes
  BY NothingTyped DEF Init, RowTypes, ActorTypes, Phases
<1>2. CreatorTypes /\ WorkTypes
  BY NothingTyped DEF Init, CreatorTypes, WorkTypes
<1>3. OwnOK
  BY NothingTyped DEF Init, OwnOK, TableOwn, WorkOwn, LockOwn
<1>4. HookOK /\ ClosedOK /\ BornOK
  BY NothingTyped DEF Init, HookOK, ClosedOK, BornOK
<1>5. CalmOK
  BY NothingTyped DEF Init, CalmOK, Calm, Quiet
<1>6. LookOK
  BY NothingTyped DEF Init, LookOK
<1> QED
  BY <1>1, <1>2, <1>3, <1>4, <1>5, <1>6 DEF IInv, Types

LEMMA StepInvariant == IInv /\ [Next]_vars => IInv'
  BY TypesStep, OwnStep, HookStep, CalmStep, ClosedStep, BornStep, LookStep DEF IInv

LEMMA Invariant == Spec => []IInv
  BY InitInvariant, StepInvariant, PTL DEF Spec

-----------------------------------------------------------------------------
(* The theorems.                                                            *)

\* Every variable keeps its type.
THEOREM TypeCorrect == Spec => []TypeOK
<1>1. IInv => TypeOK
  <2> SUFFICES ASSUME IInv PROVE TypeOK
    OBVIOUS
  <2>1. RowTypes /\ ActorTypes /\ CreatorTypes /\ WorkTypes
    BY  DEF IInv, Types
  <2>2. UNION {late, hasty} \subseteq Threads
    BY <2>1 DEF RowTypes
  <2>3. UNION {alive, harness, hooked, waking} \subseteq {a \in Actors : owner[a] # "none"}
    BY <2>1 DEF ActorTypes
  <2> QED
    BY <2>1, <2>2, <2>3
    DEF TypeOK, RowTypes, ActorTypes, CreatorTypes, WorkTypes, CreatorRec, AskRec, WorkRec
<1> QED
  BY <1>1, Invariant, PTL

\* A teardown (lifecycle.go, cleanup) has its workspace to itself: no other
\* goroutine works on the thread, none of its harnesses runs, unless somebody
\* asked for the workspace while it was being prepared.
THEOREM TeardownAlone == Spec => []TeardownIsAlone
<1>1. IInv => OneWorker
  <2> SUFFICES ASSUME IInv, NEW t \in Threads \ hasty PROVE Cardinality(Workers(t)) <= 1
    BY  DEF OneWorker
  <2>1. \A v, w \in Workers(t) : v = w
    BY  DEF IInv, CalmOK, Calm, Workers
  <2>2. CASE Workers(t) = {}
    BY <2>2, FS_EmptySet
  <2>3. ASSUME NEW w \in Works, Workers(t) = {w} PROVE Cardinality(Workers(t)) <= 1
    <3>1. Cardinality({w}) = 1
      BY FS_Singleton
    <3> QED
      BY <2>3, <3>1
  <2> QED
    BY <2>1, <2>2, <2>3 DEF Workers
<1>2. IInv => QuietTeardown
  <2> SUFFICES ASSUME IInv, NEW w \in Works, work[w].kind = "cleanup",
                      NEW a \in harness, owner[a] = work[w].thread
               PROVE  owner[a] \in hasty
    BY  DEF QuietTeardown
  <2>1. work[w].thread \in Threads
    BY NothingTyped DEF IInv, OwnOK, WorkOwn
  <2> QED
    BY <2>1 DEF IInv, CalmOK, Calm, Quiet
<1> QED
  BY <1>1, <1>2, Invariant, PTL DEF TeardownIsAlone

\* An actor that has ended is not in the manager's table, unless adopt has still
\* to look (manager.go, adopt).
THEOREM DeadForgotten == Spec => []DeadIsForgotten
<1>1. IInv => DeadIsForgotten
  BY  DEF IInv, HookOK, DeadIsForgotten
<1> QED
  BY <1>1, Invariant, PTL

\* Closed is final: no view, wake, late end or restart reopens a closed thread.
THEOREM ClosedStays == Spec => ClosedIsFinal
<1>1. IInv /\ [Next]_vars => [\A t \in Threads \ hasty :
        row[t] = "closed" => row'[t] \in {"closed", "none"}]_vars
  <2> SUFFICES ASSUME IInv, Next, NEW t \in Threads \ hasty, row[t] = "closed"
               PROVE  row'[t] \in {"closed", "none"}
    OBVIOUS
  <2>1. /\ Calm(t) /\ row \in [Threads -> Phases] /\ t \in ended
        /\ \A w \in Works : work[w].thread # t
    BY NobodyWorks DEF IInv, CalmOK, ClosedOK, Types, RowTypes
  <2>2. ASSUME CreateRow PROVE row'[t] \in {"closed", "none"}
    BY <2>1, <2>2 DEF CreateRow, Comes, Phases, Calm
  <2>3. ASSUME NEW u \in Threads, Prompted(u) PROVE row'[t] \in {"closed", "none"}
    BY <2>1, <2>3, SetPhaseEffect DEF Prompted, Phases
  <2>4. ASSUME NEW u \in Threads, ForceDelete(u) PROVE row'[t] \in {"closed", "none"}
    BY <2>1, <2>4 DEF ForceDelete, Stopped, Phases
  <2>5. ASSUME NEW a \in Actors, HarnessExit(a) PROVE row'[t] \in {"closed", "none"}
    BY <2>1, <2>5, SetPhaseEffect, NothingTyped
    DEF HarnessExit, Phase, Phases, IInv, Types, ActorTypes, Someone
  <2>6. ASSUME NEW w \in Works, ProvisionStart(w) PROVE row'[t] \in {"closed", "none"}
    BY <2>1, <2>6, SetPhaseEffect, NothingTyped
    DEF ProvisionStart, At, Phases, IInv, OwnOK, WorkOwn
  <2>7. ASSUME NEW w \in Works, ProvisionTree(w) PROVE row'[t] \in {"closed", "none"}
    BY <2>1, <2>7, SetPhaseEffect, NothingTyped
    DEF ProvisionTree, At, ProvisionFails, Phases, IInv, OwnOK, WorkOwn
  <2>8. ASSUME NEW w \in Works, ProvisionRecord(w) PROVE row'[t] \in {"closed", "none"}
    BY <2>1, <2>8, SetPhaseEffect, NothingTyped
    DEF ProvisionRecord, At, ProvisionFails, Comes, Phases, IInv, OwnOK, WorkOwn
  <2>9. ASSUME NEW w \in Works, ProvisionActivate(w) PROVE row'[t] \in {"closed", "none"}
    BY <2>1, <2>9, SetPhaseEffect, NothingTyped
    DEF ProvisionActivate, At, ProvisionFails, CanStart, Phases, IInv, OwnOK, WorkOwn
  <2>10. ASSUME NEW w \in Works, ProvisionReport(w) PROVE row'[t] \in {"closed", "none"}
    BY <2>1, <2>10, SetPhaseEffect, NothingTyped
    DEF ProvisionReport, At, Phases, IInv, OwnOK, WorkOwn
  <2>11. ASSUME NEW u \in Threads, NEW w \in Works, RetryProvision(u, w)
         PROVE row'[t] \in {"closed", "none"}
    BY <2>1, <2>11, SetPhaseEffect DEF RetryProvision, Phases
  <2>12. ASSUME NEW u \in Threads, NEW a \in Actors, View(u, a)
         PROVE row'[t] \in {"closed", "none"}
    BY <2>1, <2>12 DEF View, Starts, Restored, Fresh, Phases
  <2>13. ASSUME NEW a \in Actors, NEW w \in Works, BeginCleanup(a, w)
         PROVE row'[t] \in {"closed", "none"}
    BY <2>1, <2>13, SetPhaseEffect, BeginCleanupEffect
    DEF BeginCleanup, Fresh, Starts, Stopped, Phases, Calm, IInv
  <2>14. ASSUME NEW w \in Works, CleanupStart(w) PROVE row'[t] \in {"closed", "none"}
    BY <2>1, <2>14, SetPhaseEffect, NothingTyped
    DEF CleanupStart, At, Phases, IInv, OwnOK, WorkOwn
  <2>15. ASSUME NEW w \in Works, CleanupRemove(w) PROVE row'[t] \in {"closed", "none"}
    BY <2>1, <2>15, SetPhaseEffect, NothingTyped
    DEF CleanupRemove, At, Phases, IInv, OwnOK, WorkOwn
  <2>16. ASSUME NEW w \in Works, CleanupRelease(w) PROVE row'[t] \in {"closed", "none"}
    BY <2>1, <2>16, NothingTyped DEF CleanupRelease, At, Phases, IInv, OwnOK, WorkOwn
  <2>17. ASSUME NEW u \in Threads, NEW remove \in BOOLEAN, DeleteClosed(u, remove)
         PROVE row'[t] \in {"closed", "none"}
    BY <2>1, <2>17 DEF DeleteClosed, Phases
  <2>18. ASSUME Stop PROVE row'[t] \in {"closed", "none"}
    BY <2>1, <2>18 DEF Stop, Phase, Phases
  <2>19. ASSUME Crash PROVE row'[t] \in {"closed", "none"}
    BY <2>1, <2>19 DEF Crash, Phases
  <2>20. CASE UNCHANGED row
    BY <2>1, <2>20
  <2> QED
    BY <2>2, <2>3, <2>4, <2>5, <2>6, <2>7, <2>8, <2>9, <2>10, <2>11, <2>12, <2>13, <2>14,
      <2>15, <2>16, <2>17, <2>18, <2>19, <2>20
    DEF Next, rowVars, actorVars, Create, GetFound, CreateHook, CreateAdopt, Wake,
      CreateDone, CleanupLook, AskCleanup, Boot
<1> QED
  BY <1>1, Invariant, PTL DEF Spec, ClosedIsFinal

\* The checkout is not removed under a thread that was in it when the teardown
\* last looked (lifecycle.go, cleanup; manager.go, Delete and ForceDelete).
THEOREM OthersStay == Spec => OthersKept
<1> DEFINE Kept == tree /\ ~tree' =>
       \E t \in Threads :
         /\ Others(t) \subseteq late
         /\ \/ Exists(t) /\ row'[t] = "none"
            \/ \E w \in Workers(t) : work[w].at = "remove" /\ work'[w].at = "release"
<1>1. IInv /\ [Next]_vars => [Kept]_vars
  <2> SUFFICES ASSUME IInv, Next, tree, ~tree' PROVE Kept
    OBVIOUS
  <2>1. ASSUME NEW w \in Works, CleanupRemove(w) PROVE Kept
    <3>1. /\ work[w].at = "remove" /\ work[w].kind = "cleanup" /\ Goes(w, "release")
          /\ work[w].remove /\ work[w].placed
      BY <2>1 DEF CleanupRemove, At
    <3>2. work[w].thread \in Threads
      BY <3>1, NothingTyped DEF IInv, OwnOK, WorkOwn
    <3>3. work'[w].at = "release"
      BY <3>1, GoesEffect DEF IInv, Types, Ats
    <3> QED
      BY <3>1, <3>2, <3>3 DEF IInv, LookOK, Workers
  <2>2. ASSUME NEW t \in Threads, NEW remove \in BOOLEAN, DeleteClosed(t, remove) PROVE Kept
    BY <2>2 DEF DeleteClosed, IInv, Types, RowTypes, Exists
  <2>3. ASSUME NEW t \in Threads, ForceDelete(t) PROVE Kept
    BY <2>3 DEF ForceDelete, IInv, Types, RowTypes, Exists
  <2>4. CASE UNCHANGED tree
    BY <2>4
  <2> QED
    BY <2>1, <2>2, <2>3, <2>4
    DEF Next, rowVars, actorVars, Down, Create, Prompted, GetFound, CreateRow, CreateHook,
      CreateAdopt, HarnessExit, Wake, CreateDone, ProvisionStart, ProvisionTree,
      ProvisionRecord, ProvisionActivate, ProvisionReport, CleanupStart, CleanupLook,
      CleanupRelease, RetryProvision, View, AskCleanup, BeginCleanup, Stop, Crash, Boot
<1> QED
  BY <1>1, Invariant, PTL DEF Spec, OthersKept

=============================================================================
