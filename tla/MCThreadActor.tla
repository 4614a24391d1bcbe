--------------------------- MODULE MCThreadActor ---------------------------
(* Instances of ThreadActor for TLC: what each run lets happen.            *)
EXTENDS ThreadActor, TLC

PromptSymmetry == Permutations(Prompts)

\* A thread from the end of its provisioning, with a harness that takes
\* steers, refuses prompts, resumes work on its own and dies; humans who
\* queue, take back, continue and cancel; and a server that dies between any
\* two writes.
Steering == {"create", "steer", "refuse", "self", "die", "dequeue", "cancel",
             "continue", "crash", "torn"}

\* A plain harness; the server stops and crashes, but never between an event
\* and the row write that follows it.
Restarting == {"cancel", "die", "stop", "crash", "close"}

\* What the liveness run allows.
Living == {"create", "self", "stop", "crash"}

\* One set for each disagreement between the code and what is said of it.
SteerThenCancel == {"steer", "cancel"}
TwoCrashes      == {"crash"}
StoppedCreating == {"create", "stop"}
=============================================================================
