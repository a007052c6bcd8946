--------------------------- MODULE WorkflowPipeline ---------------------------
(***************************************************************************)
(* What the workflow engine promises: a run is opened, its steps begin      *)
(* group after group while it is open, each ends with a result, and the run *)
(* ends once.                                                               *)
(***************************************************************************)
EXTENDS Integers

CONSTANTS Runs, Steps, RunOf, Group

VARIABLES
  run,       \* status of each run
  mode,      \* does a failed step stop the run?
  begun,     \* steps that have begun
  result     \* result of each step

vars == <<run, mode, begun, result>>

Init ==
  /\ run = [r \in Runs |-> "absent"]
  /\ mode \in [Runs -> {"stop", "continue"}]
  /\ begun = {}
  /\ result = [s \in Steps |-> "open"]

Earlier(s) == {q \in Steps : RunOf[q] = RunOf[s] /\ Group[q] < Group[s]}

\* Runs open and end; a run that completes has all its results, and they are
\* good ones if a failure stops it.
RunMoves(r) ==
  \/ run'[r] = run[r]
  \/ run[r] = "absent" /\ run'[r] = "running"
  \/ run[r] = "running" /\ run'[r] \in {"failed", "canceled"}
  \/ /\ run[r] = "running" /\ run'[r] = "completed"
     /\ \A s \in {q \in Steps : RunOf[q] = r} :
          result'[s] = "completed" \/ (mode[r] = "continue" /\ result'[s] = "failed")

\* A result is final, and only a step that has begun completes.
ResultMoves(s) ==
  \/ result'[s] = result[s]
  \/ result[s] = "open" /\ result'[s] = "failed"
  \/ result[s] = "open" /\ result'[s] = "completed" /\ s \in begun

\* A step begins in an open run, after the groups before it, which must have
\* completed if a failure stops the run.
MayBegin(s) ==
  /\ run[RunOf[s]] = "running"
  /\ \A q \in Earlier(s) :
       result'[q] = "completed" \/ (mode[RunOf[s]] = "continue" /\ result'[q] = "failed")

Next ==
  /\ run' \in [Runs -> {"absent", "running", "completed", "failed", "canceled"}]
  /\ result' \in [Steps -> {"open", "completed", "failed"}]
  /\ begun \subseteq begun' /\ begun' \subseteq Steps
  /\ mode' = mode
  /\ \A r \in Runs : RunMoves(r)
  /\ \A s \in Steps : ResultMoves(s)
  /\ \A s \in begun' \ begun : MayBegin(s)

Spec == Init /\ [][Next]_vars
=============================================================================
