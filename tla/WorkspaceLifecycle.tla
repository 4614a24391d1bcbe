------------------------- MODULE WorkspaceLifecycle -------------------------
(***************************************************************************)
(* Threads that share one git checkout: managed threads have omniplex make  *)
(* it, borrowed ones attach to it.  Creating, preparing, tearing down and    *)
(* deleting them, the manager's table of live actors, and the goroutines    *)
(* that prepare and tear down outside the manager's lifecycle lock.         *)
(*                                                                         *)
(* internal/thread/manager.go (CreateProject .. ForceDelete, get, adopt),   *)
(* internal/thread/lifecycle.go (provision, cleanup, removeGitWorktree),    *)
(* internal/thread/actor.go (StartPending, RestorePending, shutdown).       *)
(*                                                                         *)
(* The lifecycle lock makes one step of what is done under it, except where *)
(* a goroutine that does not take it can see the middle.                    *)
(***************************************************************************)
EXTENDS Naturals, FiniteSets

CONSTANTS Managed, Borrowed,  \* thread ids, by workspace mode
          MaxActors, MaxWork,  \* bounds on actors and on goroutines started
          MaxTrouble  \* bound on server stops, crashes and threads asked for
                      \* while they are prepared, together

Threads == Managed \cup Borrowed
Actors  == 1 .. MaxActors
Works   == 1 .. MaxWork
NoActor == 0

ASSUME WorkspaceConstants ==
  /\ Managed \cap Borrowed = {} /\ "none" \notin Threads
  /\ MaxActors \in Nat /\ MaxWork \in Nat /\ MaxTrouble \in Nat

VARIABLES
  row,       \* threads.phase, "none" for a thread that has no row
  placed,    \* threads whose row names the checkout as its directory
  ended,     \* threads with thread.closed in their log
  tree,      \* the checkout is on disk
  table,     \* Manager.actors
  owner,     \* the thread of every actor made so far
  alive,     \* actors whose loop runs
  harness,   \* actors with a harness process
  hooked,    \* actors with onExit set
  waking,    \* actors a Get is about to activate
  creator,   \* the CreateProject that holds the leases lock
  asked,     \* the Cleanup or Delete that holds the lifecycle lock
  work,      \* provision and cleanup goroutines
  up, stops,
  hasty,     \* history: threads asked for while they were being prepared
  late       \* history: threads in the checkout since a teardown last looked

rowVars   == <<row, placed, ended>>
actorVars == <<table, owner, alive, harness, hooked, waking>>
vars == <<rowVars, tree, actorVars, creator, asked, work, up, stops, hasty, late>>

Phases == {"none", "creating", "provisioning", "provision_failed", "ready",
           "idle", "cleaning", "cleanup_failed", "closed"}
Nobody  == [thread |-> "none", at |-> "none", actor |-> NoActor]
NoAsk   == [thread |-> "none", purge |-> FALSE, remove |-> FALSE, placed |-> FALSE]
NoWork  == [kind |-> "none", thread |-> "none", actor |-> NoActor, at |-> "none",
            purge |-> FALSE, remove |-> FALSE, placed |-> FALSE]
Someone == Threads \cup {"none"}

TypeOK ==
  /\ row \in [Threads -> Phases] /\ placed \subseteq Threads /\ ended \subseteq Threads
  /\ tree \in BOOLEAN /\ up \in BOOLEAN /\ stops \in Nat /\ UNION {late, hasty} \subseteq Threads
  /\ table \in [Threads -> Actors \cup {NoActor}]
  /\ owner \in [Actors -> Someone]
  /\ UNION {alive, harness, hooked, waking} \subseteq {a \in Actors : owner[a] # "none"}
  /\ harness \subseteq alive
  /\ creator \in [thread : Someone, at : {"none", "row", "adopt", "hook", "check"},
                  actor : Actors \cup {NoActor}]
  /\ asked \in [thread : Someone, purge : BOOLEAN, remove : BOOLEAN, placed : BOOLEAN]
  /\ work \in [Works -> [kind : {"none", "provision", "cleanup"}, thread : Someone,
                         actor : Actors \cup {NoActor},
                         at : {"none", "start", "tree", "record", "activate", "report",
                               "look", "remove", "release"},
                         purge : BOOLEAN, remove : BOOLEAN, placed : BOOLEAN]]

Init ==
  /\ row = [t \in Threads |-> "none"] /\ placed = {} /\ ended = {}
  /\ tree = FALSE /\ up = TRUE /\ stops = 0 /\ late = {} /\ hasty = {}
  /\ table = [t \in Threads |-> NoActor] /\ owner = [a \in Actors |-> "none"]
  /\ alive = {} /\ harness = {} /\ hooked = {} /\ waking = {}
  /\ creator = Nobody /\ asked = NoAsk
  /\ work = [w \in Works |-> NoWork]

-----------------------------------------------------------------------------
(* Helpers.                                                                 *)

Exists(t) == row[t] # "none"

\* SetPhase is an UPDATE: it does nothing to a thread that is gone.
SetPhase(t, phase) ==
  row' = [row EXCEPT ![t] = IF Exists(t) THEN phase ELSE "none"]

Fresh(a) == owner[a] = "none" /\ \A b \in Actors : b < a => owner[b] # "none"

\* A new actor's loop starts.
Starts(a, t) == owner' = [owner EXCEPT ![a] = t]

\* otherThreadIn: a closed thread counts, one without a row does not.
Others(t) == {u \in placed \ {t} : Exists(u)}

\* cleaningThreadIn.
Cleaning == {u \in placed : row[u] = "cleaning"}

Removing == \E w \in Works : work[w].at = "remove" /\ work[w].remove
Comes(t) == late' = IF Removing THEN late \cup {t} ELSE late

Workers(t) == {w \in Works : work[w].thread = t}
Preparing(t) == creator.thread = t \/ \E w \in Workers(t) : work[w].kind = "provision"

Trouble == stops + Cardinality(hasty) < MaxTrouble

\* A request about a workspace that something is still preparing.
Asks(t) == IF Preparing(t)
           THEN Trouble /\ hasty' = hasty \cup {t}
           ELSE UNCHANGED hasty

Goes(w, step) == work' = [work EXCEPT ![w].at = step]
Ends(w) == work' = [work EXCEPT ![w] = NoWork]

\* The next goroutine takes the first free slot.
FreeWork(w) == work[w] = NoWork /\ \A v \in Works : v < w => work[v] # NoWork

LockFree == up /\ asked = NoAsk

-----------------------------------------------------------------------------
(* CreateProject, under the leases lock only.                               *)

Create(t) ==
  /\ up /\ creator = Nobody /\ row[t] = "none" /\ \A a \in Actors : owner[a] # t
  /\ t \in Borrowed => tree /\ Cleaning = {}
  /\ creator' = [thread |-> t, at |-> "row", actor |-> NoActor]
  /\ UNCHANGED <<rowVars, tree, actorVars, asked, work, up, stops, hasty, late>>

CreateRow ==
  LET t == creator.thread
  IN  /\ creator.at = "row"
      /\ row' = [row EXCEPT ![t] = "creating"]
      /\ placed' = IF t \in Borrowed THEN placed \cup {t} ELSE placed
      /\ Comes(t)
      /\ creator' = [creator EXCEPT !.at = "adopt"]
      /\ UNCHANGED <<ended, tree, actorVars, asked, work, up, stops, hasty>>

\* StartPending, and adopt's three steps: the table, the exit hook, and the
\* look at whether the actor has ended meanwhile.
CreateAdopt(a) ==
  LET t == creator.thread
  IN  /\ creator.at = "adopt" /\ Fresh(a)
      /\ Starts(a, t) /\ alive' = alive \cup {a}
      /\ table' = [table EXCEPT ![t] = a]
      /\ creator' = [creator EXCEPT !.at = "hook", !.actor = a]
      /\ UNCHANGED <<rowVars, tree, harness, hooked, waking, asked, work, up, stops, hasty, late>>

CreateHook ==
  /\ creator.at = "hook"
  /\ hooked' = hooked \cup {creator.actor}
  /\ creator' = [creator EXCEPT !.at = "check"]
  /\ UNCHANGED <<rowVars, tree, table, owner, alive, harness, waking, asked, work,
                 up, stops, hasty, late>>

\* Fault: adopt does not look.
ForgottenNever(t, a) == table
Forgotten(t, a) == IF a \notin alive /\ table[t] = a
                   THEN [table EXCEPT ![t] = NoActor] ELSE table

NewProvision(t, a) ==
  [NoWork EXCEPT !.kind = "provision", !.thread = t, !.actor = a, !.at = "start"]

CreateDone(w) ==
  /\ creator.at = "check" /\ FreeWork(w)
  /\ table' = Forgotten(creator.thread, creator.actor)
  /\ work' = [work EXCEPT ![w] = NewProvision(creator.thread, creator.actor)]
  /\ creator' = Nobody
  /\ UNCHANGED <<rowVars, tree, owner, alive, harness, hooked, waking, asked, up, stops, hasty, late>>

-----------------------------------------------------------------------------
(* provision, under no lock.                                                *)

At(w, kind, step) == work[w].kind = kind /\ work[w].at = step

\* An actor that has ended answers nothing, and one whose log is closed starts
\* nothing.
CanStart(a) == a \in alive /\ owner[a] \notin ended

ProvisionFails(w) == SetPhase(work[w].thread, "provision_failed") /\ Ends(w)

ProvisionStart(w) ==
  /\ At(w, "provision", "start")
  /\ SetPhase(work[w].thread, "provisioning")
  /\ Goes(w, IF work[w].thread \in Managed THEN "tree" ELSE "record")
  /\ UNCHANGED <<placed, ended, tree, actorVars, creator, asked, up, stops, hasty, late>>

\* The hook, or createWorktree: a checkout that is there is taken as it is.
ProvisionTree(w) ==
  /\ At(w, "provision", "tree")
  /\ \/ tree' = TRUE /\ Goes(w, "record") /\ UNCHANGED row
     \/ ProvisionFails(w) /\ UNCHANGED tree
  /\ UNCHANGED <<placed, ended, actorVars, creator, asked, up, stops, hasty, late>>

\* The result has to be a directory; UpdateWorkspace writes the phase too.
ProvisionRecord(w) ==
  LET t == work[w].thread
  IN  /\ At(w, "provision", "record")
      /\ \/ /\ tree
            /\ SetPhase(t, "provisioning")
            /\ placed' = IF Exists(t) THEN placed \cup {t} ELSE placed
            /\ Goes(w, "activate") /\ Comes(t)
         \/ ~tree /\ ProvisionFails(w) /\ UNCHANGED <<placed, late>>
      /\ UNCHANGED <<ended, tree, actorVars, creator, asked, up, stops, hasty>>

ProvisionActivate(w) ==
  LET a == work[w].actor
  IN  /\ At(w, "provision", "activate")
      /\ \/ /\ a \in alive
            /\ harness' = IF CanStart(a) THEN harness \cup {a} ELSE harness
            /\ Goes(w, "report") /\ UNCHANGED row
         \/ ProvisionFails(w) /\ UNCHANGED harness
      /\ UNCHANGED <<placed, ended, tree, table, owner, alive, hooked, waking, creator,
                     asked, up, stops, hasty, late>>

ProvisionReport(w) ==
  /\ At(w, "provision", "report")
  /\ SetPhase(work[w].thread, "ready")
  /\ Ends(w)
  /\ UNCHANGED <<placed, ended, tree, actorVars, creator, asked, up, stops, hasty, late>>

\* RetryProvision finds the actor before it takes the lock.
RetryProvision(t, w) ==
  /\ LockFree /\ row[t] = "provision_failed" /\ table[t] # NoActor /\ FreeWork(w)
  /\ Asks(t)
  /\ SetPhase(t, "provisioning")
  /\ work' = [work EXCEPT ![w] = NewProvision(t, table[t])]
  /\ UNCHANGED <<placed, ended, tree, actorVars, creator, asked, up, stops, late>>

-----------------------------------------------------------------------------
(* An actor's end: shutdown writes a phase, whatever the row said, and the   *)
(* hook takes the actor out of the table if it is still the one there.      *)

\* Fault: only a close that was asked for is remembered.
PhaseAsked(t, hard) == IF hard THEN "closed" ELSE "idle"
Phase(t, hard) == IF hard \/ t \in ended THEN "closed" ELSE "idle"

\* What A leaves behind when its actors end.
Unlisted(A) == [t \in Threads |->
  IF table[t] \in A \cap hooked THEN NoActor ELSE table[t]]

HarnessExit(a) ==
  /\ up /\ a \in harness
  /\ SetPhase(owner[a], Phase(owner[a], FALSE))
  /\ alive' = alive \ {a} /\ harness' = harness \ {a} /\ waking' = waking \ {a}
  /\ table' = Unlisted({a})
  /\ UNCHANGED <<placed, ended, tree, owner, hooked, creator, asked, work, up, stops, hasty, late>>

\* A first turn's events move a ready thread on.
Prompted(t) ==
  /\ up /\ row[t] = "ready" /\ table[t] \in harness
  /\ SetPhase(t, "idle")
  /\ UNCHANGED <<placed, ended, tree, actorVars, creator, asked, work, up, stops, hasty, late>>

\* get: a thread without an actor gets one; work nobody is doing has failed.
Restored(t) ==
  CASE row[t] \in {"creating", "provisioning"} -> "provision_failed"
    [] row[t] = "cleaning" -> "cleanup_failed"
    [] OTHER -> row[t]

View(t, a) ==
  /\ LockFree /\ Exists(t) /\ table[t] = NoActor /\ Fresh(a)
  /\ Starts(a, t) /\ alive' = alive \cup {a} /\ hooked' = hooked \cup {a}
  /\ table' = [table EXCEPT ![t] = a]
  /\ row' = [row EXCEPT ![t] = Restored(t)]
  /\ ended' = IF row[t] = "closed" THEN ended \cup {t} ELSE ended
  /\ UNCHANGED <<placed, tree, harness, waking, creator, asked, work, up, stops, hasty, late>>

\* Get reads the row under the lock and activates after it.
GetFound(t) ==
  /\ LockFree /\ table[t] # NoActor /\ row[t] = "idle"
  /\ waking' = waking \cup {table[t]}
  /\ UNCHANGED <<rowVars, tree, table, owner, alive, harness, hooked, creator, asked,
                 work, up, stops, hasty, late>>

Wake(a) ==
  /\ a \in waking
  /\ waking' = waking \ {a}
  /\ harness' = IF CanStart(a) THEN harness \cup {a} ELSE harness
  /\ UNCHANGED <<rowVars, tree, table, owner, alive, hooked, creator, asked, work, up,
                 stops, hasty, late>>

-----------------------------------------------------------------------------
(* Cleanup and Delete.                                                      *)

\* The row is read, and what it says decides.  Fault: a teardown that runs
\* does not stop another.
MayCleanAgain(t) == Exists(t) /\ row[t] # "closed"
MayClean(t) == Exists(t) /\ row[t] \notin {"closed", "cleaning"}

AskCleanup(t, purge, remove) ==
  /\ LockFree /\ MayClean(t)
  /\ Asks(t)
  /\ purge /\ remove => Others(t) = {}
  /\ ~purge => remove = (t \in Managed)
  /\ asked' = [thread |-> t, purge |-> purge, remove |-> remove, placed |-> t \in placed]
  /\ UNCHANGED <<rowVars, tree, actorVars, creator, work, up, stops, late>>

\* The harness goes first, then the phase, then an actor without a process.
\* Fault: the harness is left running.
StoppedNone(t) == {}
Stopped(t) == {table[t]} \ {NoActor}

BeginCleanup(a, w) ==
  LET t == asked.thread
  IN  /\ asked # NoAsk /\ Fresh(a) /\ FreeWork(w)
      /\ alive' = (alive \ Stopped(t)) \cup {a}
      /\ harness' = harness \ Stopped(t) /\ waking' = waking \ Stopped(t)
      /\ SetPhase(t, "cleaning")
      /\ Starts(a, t) /\ hooked' = hooked \cup {a}
      /\ table' = [table EXCEPT ![t] = a]
      /\ work' = [work EXCEPT ![w] =
           [NoWork EXCEPT !.kind = "cleanup", !.thread = t, !.actor = a, !.at = "start",
                          !.purge = asked.purge, !.remove = asked.remove,
                          !.placed = asked.placed]]
      /\ asked' = NoAsk
      /\ UNCHANGED <<placed, ended, tree, creator, up, stops, hasty, late>>

CleanupStart(w) ==
  /\ At(w, "cleanup", "start")
  /\ SetPhase(work[w].thread, "cleaning")
  /\ Goes(w, "look")
  /\ UNCHANGED <<placed, ended, tree, actorVars, creator, asked, up, stops, hasty, late>>

\* Who else is in the checkout is asked again, as late as it can be.
\* Fault: it is not.
KeepsNever(w) == FALSE
Keeps(w) == work[w].placed /\ Others(work[w].thread) # {}

CleanupLook(w) ==
  /\ At(w, "cleanup", "look")
  /\ work' = [work EXCEPT ![w].at = "remove", ![w].remove = @ /\ ~Keeps(w)]
  /\ late' = IF Removing THEN late ELSE {}
  /\ UNCHANGED <<rowVars, tree, actorVars, creator, asked, up, stops, hasty>>

\* The hook or removeGitWorktree: the project's own root is refused.
CleanupRemove(w) ==
  LET t == work[w].thread
  IN  /\ At(w, "cleanup", "remove")
      /\ \/ ~work[w].remove /\ Goes(w, "release") /\ UNCHANGED <<row, tree>>
         \/ work[w].remove /\ work[w].placed /\ tree' = FALSE
            /\ Goes(w, "release") /\ UNCHANGED row
         \/ work[w].remove /\ SetPhase(t, "cleanup_failed") /\ Ends(w) /\ UNCHANGED tree
      /\ UNCHANGED <<placed, ended, actorVars, creator, asked, up, stops, hasty, late>>

\* Closed, and deleted if it was a deletion, in one critical section.
CleanupRelease(w) ==
  LET t == work[w].thread
      a == work[w].actor
      gone == {a} \cap alive
  IN  /\ At(w, "cleanup", "release") /\ LockFree
      /\ row' = [row EXCEPT ![t] = IF work[w].purge \/ ~Exists(t) THEN "none"
                                   ELSE IF gone # {} THEN "closed" ELSE @]
      /\ placed' = IF work[w].purge THEN placed \ {t} ELSE placed
      /\ ended' = IF gone # {} THEN ended \cup {t} ELSE ended
      /\ alive' = alive \ gone /\ harness' = harness \ gone /\ waking' = waking \ gone
      /\ table' = Unlisted(gone)
      /\ Ends(w)
      /\ UNCHANGED <<tree, owner, hooked, creator, asked, up, stops, hasty, late>>

\* Delete of a closed thread and ForceDelete do it all under the lock; the
\* actor a closed thread is viewed through stays in the table.
DeleteClosed(t, remove) ==
  /\ LockFree /\ row[t] = "closed"
  /\ remove => Others(t) = {}
  /\ tree' = (tree /\ ~(remove /\ t \in placed))
  /\ row' = [row EXCEPT ![t] = "none"] /\ placed' = placed \ {t}
  /\ UNCHANGED <<ended, actorVars, creator, asked, work, up, stops, hasty, late>>

ForceDelete(t) ==
  /\ LockFree /\ row[t] = "cleanup_failed"
  /\ t \in Managed => ~(t \in placed /\ Others(t) # {})
  /\ tree' = (tree /\ ~(t \in Managed \cap placed))
  /\ row' = [row EXCEPT ![t] = "none"] /\ placed' = placed \ {t}
  /\ alive' = alive \ Stopped(t) /\ harness' = harness \ Stopped(t)
  /\ waking' = waking \ Stopped(t)
  /\ table' = Unlisted(Stopped(t))
  /\ UNCHANGED <<ended, owner, hooked, creator, asked, work, up, stops, hasty, late>>

-----------------------------------------------------------------------------
(* The server.                                                              *)

Down ==
  /\ up' = FALSE /\ stops' = stops + 1
  /\ table' = [t \in Threads |-> NoActor]
  /\ alive' = {} /\ harness' = {} /\ waking' = {}
  /\ creator' = Nobody /\ asked' = NoAsk /\ work' = [w \in Works |-> NoWork]
  /\ UNCHANGED <<placed, ended, tree, owner, hooked, hasty, late>>

\* Shutdown disposes every actor in the table.
Stop ==
  /\ LockFree /\ Trouble
  /\ row' = [t \in Threads |-> IF table[t] \in alive /\ Exists(t) THEN Phase(t, FALSE)
                               ELSE row[t]]
  /\ Down

Crash == up /\ Trouble /\ UNCHANGED row /\ Down

Boot ==
  /\ ~up /\ up' = TRUE
  /\ UNCHANGED <<rowVars, tree, actorVars, creator, asked, work, stops, hasty, late>>

-----------------------------------------------------------------------------
Next ==
  \/ \E t \in Threads : Create(t) \/ Prompted(t) \/ GetFound(t) \/ ForceDelete(t)
  \/ CreateRow \/ CreateHook
  \/ \E a \in Actors : CreateAdopt(a) \/ HarnessExit(a) \/ Wake(a)
  \/ \E w \in Works : CreateDone(w) \/ ProvisionStart(w) \/ ProvisionTree(w)
       \/ ProvisionRecord(w) \/ ProvisionActivate(w) \/ ProvisionReport(w)
       \/ CleanupStart(w) \/ CleanupLook(w) \/ CleanupRemove(w) \/ CleanupRelease(w)
  \/ \E t \in Threads, w \in Works : RetryProvision(t, w)
  \/ \E t \in Threads, a \in Actors : View(t, a)
  \/ \E t \in Threads, purge, remove \in BOOLEAN : AskCleanup(t, purge, remove)
  \/ \E a \in Actors, w \in Works : BeginCleanup(a, w)
  \/ \E t \in Threads, remove \in BOOLEAN : DeleteClosed(t, remove)
  \/ Stop \/ Crash \/ Boot

Spec == Init /\ [][Next]_vars

-----------------------------------------------------------------------------
(* Properties.                                                              *)

\* One goroutine at a time works on a workspace, as long as nobody asks for it
\* while it is being prepared (nothing in the server makes them wait).
OneWorker == \A t \in Threads \ hasty : Cardinality(Workers(t)) <= 1

\* While a checkout is being removed no harness of its thread runs, and none
\* can start (Cleanup: "Stop the harness first").
QuietTeardown ==
  \A w \in Works : work[w].kind = "cleanup" =>
    \A a \in harness : owner[a] # work[w].thread \/ owner[a] \in hasty

\* A teardown has its workspace to itself: no other goroutine, no harness.
TeardownIsAlone == OneWorker /\ QuietTeardown

\* A closed thread is never anything else again but deleted: not through a
\* restart, a view or an actor that ends late.
ClosedIsFinal ==
  [][\A t \in Threads \ hasty :
       row[t] = "closed" => row'[t] \in {"closed", "none"}]_vars

\* An actor that has ended is not in the table, unless its registration is
\* still under way.
DeadIsForgotten ==
  \A t \in Threads : table[t] # NoActor =>
    table[t] \in alive \/ creator.actor = table[t]

\* The checkout is never removed under a thread that was there when the
\* teardown last looked, whoever asks for what while it is prepared.
OthersKept ==
  [][tree /\ ~tree' =>
       \E t \in Threads :
         /\ Others(t) \subseteq late
         /\ \/ Exists(t) /\ row'[t] = "none"
            \/ \E w \in Workers(t) : work[w].at = "remove" /\ work'[w].at = "release"]_vars

\* lifecycle.go: "A thread that moved in while this one was shutting down keeps
\* its files."
MovedInKeeps ==
  [][tree /\ ~tree' => \A t \in Threads : t \in placed /\ Exists(t) => Others(t) = {}]_vars
=============================================================================
