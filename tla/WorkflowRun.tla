----------------------------- MODULE WorkflowRun -----------------------------
(***************************************************************************)
(* The workflow engine (src/services/workflow_execution.py): runs of        *)
(* multi-step pipelines, advanced by one pump that wakes every 3 seconds,   *)
(* started and canceled by requests, each over a database session of its    *)
(* own.  A session loads rows once, changes its copies, and a commit writes *)
(* the columns it has changed over whatever the rows hold by then.  Many    *)
(* commits happen inside: every task or child run a group starts commits    *)
(* all that the session has changed so far.                                 *)
(*                                                                          *)
(* The task broker is abstract here: a task is open until it ends.          *)
(***************************************************************************)
EXTENDS Integers, Sequences, FiniteSets

CONSTANTS
  Runs, Steps,       \* runs that may come to exist, and their step runs
  RunOf,             \* the run of a step
  Group,             \* the step group of a step, numbered from 0
  Child,             \* the run a step starts as its sub-workflow, or NoRun
  Depth,             \* nesting depth of a run, 0 for those a user starts
  NoRun, NoStep,
  Pump,              \* the worker that pumps
  Callers,           \* workers that serve requests
  Cancelable,        \* the steps that users cancel one by one
  PumpLimit,         \* runs per pass of the pump
  Overlap,           \* may sessions overlap?
  MaxFailures,       \* bound: exceptions, lost connections and restarts
  MaxStarts          \* bound: times a step is started, to see a second one

ASSUME RunsAssumption ==
  /\ NoRun \notin Runs
  /\ NoStep \notin Steps
  /\ RunOf \in [Steps -> Runs]
  /\ Group \in [Steps -> Nat]
  /\ Child \in [Steps -> Runs \cup {NoRun}]
  /\ Depth \in [Runs -> Nat]
  /\ Cancelable \subseteq Steps
  /\ Pump \notin Callers
  /\ Overlap \in BOOLEAN
  /\ {PumpLimit, MaxFailures, MaxStarts} \subseteq Nat

\* Every start of a sub-workflow creates a run of its own, one level deeper.
ASSUME NestingAssumption ==
  \A s \in Steps : Child[s] # NoRun =>
    /\ Depth[Child[s]] > Depth[RunOf[s]]
    /\ \A q \in Steps : Child[q] = Child[s] => q = s

VARIABLES
  db,        \* committed rows: status and group of runs, status of steps
  mode,      \* failure_mode in the snapshot of a run
  task,      \* the task of a step, as the broker has it
  starts,    \* history: how often a task or child run was started for a step
  worker,    \* sessions, see Worker
  failures   \* exceptions, lost connections and restarts so far

vars == <<db, mode, task, starts, worker, failures>>

Workers == Callers \cup {Pump}
Over == {"completed", "failed"}
RunStatuses == {"absent", "running", "completed", "failed", "canceled"}
Rows == [status : [Runs -> RunStatuses],
         group : [Runs -> Nat],
         step : [Steps -> {"pending", "running"} \cup Over]]

\* A call in progress: what it does, for which run, the steps it has yet to
\* visit, and the step of the parent run that waits for it.
Call == [op : {"dispatch", "cancel", "save"}, run : Runs, left : SUBSET Steps,
         for : Steps \cup {NoStep}]
\* A session: the runs its pump has yet to visit, its calls (innermost first),
\* the rows as it has read or committed them, and its copies of them.
Worker == [busy : {"idle", "pump", "request"}, queue : SUBSET Runs, calls : Seq(Call),
           seen : Rows, mine : Rows]

Empty == [status |-> [r \in Runs |-> "absent"],
          group |-> [r \in Runs |-> 0],
          step |-> [s \in Steps |-> "pending"]]
Idle == [busy |-> "idle", queue |-> {}, calls |-> <<>>, seen |-> Empty, mine |-> Empty]

Init ==
  /\ db = Empty
  /\ mode \in [Runs -> {"stop", "continue"}]
  /\ task = [s \in Steps |-> "none"]
  /\ starts = [s \in Steps |-> 0]
  /\ worker = [w \in Workers |-> Idle]
  /\ failures = 0

-----------------------------------------------------------------------------
(* Rows, sessions and calls *)

StepsOf(r) == {s \in Steps : RunOf[s] = r}
GroupSteps(r, g) == {s \in StepsOf(r) : Group[s] = g}

\* The rows `view` with those of the runs in Q as the database has them.
Load(view, Q) ==
  [status |-> [r \in Runs |-> IF r \in Q THEN db.status[r] ELSE view.status[r]],
   group |-> [r \in Runs |-> IF r \in Q THEN db.group[r] ELSE view.group[r]],
   step |-> [s \in Steps |-> IF RunOf[s] \in Q THEN db.step[s] ELSE view.step[s]]]

\* The rows `view` with a new run r and its pending steps.
Created(view, r) ==
  [status |-> [view.status EXCEPT ![r] = "running"],
   group |-> [view.group EXCEPT ![r] = 0],
   step |-> [s \in Steps |-> IF RunOf[s] = r THEN "pending" ELSE view.step[s]]]

\* An UPDATE sets the columns the session has changed, and no others.
Written(old, new, current) ==
  [x \in DOMAIN current |-> IF new[x] # old[x] THEN new[x] ELSE current[x]]
Committed(w) ==
  LET old == worker[w].seen
      new == worker[w].mine
  IN [status |-> Written(old.status, new.status, db.status),
      group |-> Written(old.group, new.group, db.group),
      step |-> Written(old.step, new.step, db.step)]

Admitted(w) ==
  /\ worker[w] = Idle
  /\ Overlap \/ \A v \in Workers : worker[v] = Idle

InCall(w, op) == worker[w].calls # <<>> /\ Head(worker[w].calls).op = op
Now(w) == Head(worker[w].calls)
CallOn(op, r, S, s) == [op |-> op, run |-> r, left |-> S, for |-> s]

\* Session w goes on with the copies `rows` and the calls `calls`, without a
\* commit or after one.
Continue(w, rows, calls) ==
  worker' = [worker EXCEPT ![w].mine = rows, ![w].calls = calls]
CommitAndContinue(w, rows, calls) ==
  worker' = [worker EXCEPT ![w].seen = worker[w].mine,
                           ![w].mine = rows, ![w].calls = calls]

\* The calls of w with step s of the innermost one visited.
Visited(w, s) == [worker[w].calls EXCEPT ![1].left = @ \ {s}]
Mark(rows, s, status) == [rows EXCEPT !.step[s] = status]

-----------------------------------------------------------------------------
(* execute_workflow and _dispatch_step_group *)

\* A request (or the scheduler) starts run r: the run and all its steps are
\* committed before group 0 is dispatched.
Execute(w, r) ==
  /\ Admitted(w)
  /\ db.status[r] = "absent" /\ Depth[r] = 0
  /\ db' = Created(db, r)
  /\ worker' = [worker EXCEPT ![w] =
       [busy |-> "request", queue |-> {},
        calls |-> <<CallOn("dispatch", r, GroupSteps(r, 0), NoStep)>>,
        seen |-> Created(Empty, r), mine |-> Created(Empty, r)]]
  /\ UNCHANGED <<mode, task, starts, failures>>

\* create_task commits the task, and with it all the session has changed; the
\* step is marked running only in memory.
DispatchTask(w) ==
  /\ InCall(w, "dispatch")
  /\ \E s \in Now(w).left :
       /\ Child[s] = NoRun
       /\ starts[s] < MaxStarts
       /\ db' = Committed(w)
       /\ task' = [task EXCEPT ![s] = "open"]
       /\ starts' = [starts EXCEPT ![s] = @ + 1]
       /\ CommitAndContinue(w, Mark(worker[w].mine, s, "running"), Visited(w, s))
  /\ UNCHANGED <<mode, failures>>

\* Mutant of StartChild: the sub-workflow runs in a session of its own, so that
\* its commits leave out what this session has changed.
StartChildAlone(w) ==
  /\ InCall(w, "dispatch")
  /\ \E s \in Now(w).left :
       LET c == Child[s] IN
       /\ c # NoRun
       /\ starts[s] < MaxStarts
       /\ db' = Created(db, c)
       /\ starts' = [starts EXCEPT ![s] = @ + 1]
       /\ worker' = [worker EXCEPT
            ![w].seen = Created(worker[w].seen, c),
            ![w].mine = Created(worker[w].mine, c),
            ![w].calls = <<CallOn("dispatch", c, GroupSteps(c, 0), s)>> \o Visited(w, s)]
  /\ UNCHANGED <<mode, task, failures>>

\* The step's sub-workflow is executed within the call: its run is committed
\* (with all the session has changed) and its group 0 dispatched first.
StartChild(w) ==
  /\ InCall(w, "dispatch")
  /\ \E s \in Now(w).left :
       LET c == Child[s] IN
       /\ c # NoRun
       /\ starts[s] < MaxStarts
       /\ db' = Created(Committed(w), c)
       /\ starts' = [starts EXCEPT ![s] = @ + 1]
       /\ worker' = [worker EXCEPT
            ![w].seen = Created(worker[w].mine, c),
            ![w].mine = Created(worker[w].mine, c),
            ![w].calls = <<CallOn("dispatch", c, GroupSteps(c, 0), s)>> \o Visited(w, s)]
  /\ UNCHANGED <<mode, task, failures>>

\* The step cannot be started: the broker refuses the task, before or after a
\* commit of its own, or the sub-workflow is gone.
DispatchFails(w) ==
  /\ InCall(w, "dispatch")
  /\ \E s \in Now(w).left :
       LET rows == Mark(worker[w].mine, s, "failed") IN
       \/ Continue(w, rows, Visited(w, s)) /\ UNCHANGED db
       \/ /\ Child[s] = NoRun
          /\ db' = Committed(w)
          /\ CommitAndContinue(w, rows, Visited(w, s))
  /\ UNCHANGED <<mode, task, starts, failures>>

\* A call that has visited its steps commits.  If a step of the parent run
\* waits for it, that step is now marked running, in memory; a request whose
\* last call returns is over.
Return(w) ==
  /\ worker[w].calls # <<>> /\ Now(w).left = {}
  /\ db' = Committed(w)
  /\ IF worker[w].busy = "request" /\ Len(worker[w].calls) = 1
     THEN worker' = [worker EXCEPT ![w] = Idle]
     ELSE CommitAndContinue(w,
            IF Now(w).for = NoStep THEN worker[w].mine
            ELSE Mark(worker[w].mine, Now(w).for, "running"),
            Tail(worker[w].calls))
  /\ UNCHANGED <<mode, task, starts, failures>>

-----------------------------------------------------------------------------
(* pump_running_workflows *)

\* One pass: the deepest running runs are loaded, with their steps.
PumpBegin ==
  /\ Admitted(Pump)
  /\ LET running == {r \in Runs : db.status[r] = "running"} IN
     \E Q \in SUBSET running :
       /\ Q # {}
       /\ Cardinality(Q) <= PumpLimit
       /\ Q = running \/ Cardinality(Q) = PumpLimit
       /\ \A q \in Q, r \in running \ Q : Depth[q] >= Depth[r]
       /\ worker' = [worker EXCEPT ![Pump] =
            [busy |-> "pump", queue |-> Q, calls |-> <<>>,
             seen |-> Load(Empty, Q), mine |-> Load(Empty, Q)]]
  /\ UNCHANGED <<db, mode, task, starts, failures>>

\* Run r is the next of the pass; children come before their parents.
Turn(r) ==
  /\ worker[Pump].busy = "pump" /\ worker[Pump].calls = <<>>
  /\ r \in worker[Pump].queue
  /\ \A q \in worker[Pump].queue : Depth[q] <= Depth[r]

\* The pump leaves run r with `rows` and goes on with `calls`.
Pumped(r, rows, calls) ==
  /\ worker' = [worker EXCEPT ![Pump].queue = @ \ {r}, ![Pump].mine = rows, ![Pump].calls = calls]
  /\ UNCHANGED <<db, mode, task, starts, failures>>

\* Mutant of PumpLate: only a run with a running step can time out.
PumpLateRunning(r) ==
  /\ Turn(r)
  /\ LET rows == worker[Pump].mine IN
     /\ \E s \in StepsOf(r) : rows.step[s] = "running"
     /\ Pumped(r, [rows EXCEPT !.status[r] = "failed",
                               !.step = [s \in Steps |-> IF RunOf[s] = r /\ rows.step[s] = "running"
                                                         THEN "failed" ELSE rows.step[s]]], <<>>)

\* The run is older than its timeout: it fails, with its running steps, but
\* neither their tasks nor their child runs.
PumpLate(r) ==
  /\ Turn(r)
  /\ LET rows == worker[Pump].mine IN
     Pumped(r, [rows EXCEPT !.status[r] = "failed",
                            !.step = [s \in Steps |-> IF RunOf[s] = r /\ rows.step[s] = "running"
                                                      THEN "failed" ELSE rows.step[s]]], <<>>)

Current(r) == GroupSteps(r, worker[Pump].mine.group[r])

\* A workflow whose groups do not start at 0 has nothing to wait for.
PumpEmpty(r) ==
  /\ Turn(r) /\ Current(r) = {}
  /\ Pumped(r, [worker[Pump].mine EXCEPT !.status[r] = "failed"], <<>>)

\* What a running step has come to: its task in the database, or its child run,
\* which the session does not read again if it has it.
Outcome(s) ==
  LET c == Child[s]
      seen == worker[Pump].mine.status[c]
      end == IF c = NoRun THEN task[s]
             ELSE IF seen # "absent" THEN seen ELSE db.status[c]
  IN CASE end = "completed" -> "completed"
       [] end \in {"failed", "canceled"} -> "failed"
       [] OTHER -> "running"

\* The steps of the current group of r after the step timeouts (which strike
\* the steps in `late`) and the look at tasks and child runs.
Synced(r, late) ==
  [s \in Steps |->
     IF s \notin Current(r) \/ worker[Pump].mine.step[s] # "running"
     THEN worker[Pump].mine.step[s]
     ELSE IF s \in late THEN "failed" ELSE Outcome(s)]

\* Mutant of Ended: a step that was never dispatched holds nobody up.
EndedOrPending(S, step) == \A s \in S : step[s] # "running"

\* all_terminal: all steps of a group have ended.
Ended(S, step) == \A s \in S : step[s] \in Over

\* Some step of the group has yet to end.
PumpWait(r) ==
  /\ Turn(r)
  /\ \E late \in SUBSET Current(r) :
       LET step == Synced(r, late) IN
       /\ ~Ended(Current(r), step)
       /\ Pumped(r, [worker[Pump].mine EXCEPT !.step = step], <<>>)

LaterGroups(r) == {Group[s] : s \in {q \in StepsOf(r) : Group[q] > worker[Pump].mine.group[r]}}

\* The group has ended.  A failure stops the run unless its mode is "continue";
\* the last group completes it; otherwise all steps of the next are dispatched.
PumpGroupEnded(r) ==
  /\ Turn(r) /\ Current(r) # {}
  /\ \E late \in SUBSET Current(r) :
       LET step == Synced(r, late)
           rows == [worker[Pump].mine EXCEPT !.step = step]
           failed == \E s \in Current(r) : step[s] = "failed"
       IN /\ Ended(Current(r), step)
          /\ \/ /\ failed /\ mode[r] = "stop"
                /\ Pumped(r, [rows EXCEPT !.status[r] = "failed"], <<>>)
             \/ /\ ~failed \/ mode[r] = "continue"
                /\ LaterGroups(r) = {}
                /\ Pumped(r, [rows EXCEPT !.status[r] = "completed"], <<>>)
             \/ /\ ~failed \/ mode[r] = "continue"
                /\ \E g \in LaterGroups(r) :
                     /\ \A h \in LaterGroups(r) : g <= h
                     /\ Pumped(r, [rows EXCEPT !.group[r] = g],
                               <<CallOn("dispatch", r, GroupSteps(r, g), NoStep)>>)

\* The pass is over: what no dispatch has committed is committed now.
PumpEnd ==
  /\ worker[Pump].busy = "pump" /\ worker[Pump].calls = <<>> /\ worker[Pump].queue = {}
  /\ db' = Committed(Pump)
  /\ worker' = [worker EXCEPT ![Pump] = Idle]
  /\ UNCHANGED <<mode, task, starts, failures>>

-----------------------------------------------------------------------------
(* cancel_run and cancel_step_run *)

\* Copies of a canceled run, and the steps that cancel_run visits.
Canceled(rows, r) == [rows EXCEPT !.status[r] = "canceled"]
OpenSteps(rows, r) == {s \in StepsOf(r) : rows.step[s] \in {"pending", "running"}}

CancelRequest(w, r) ==
  /\ Admitted(w)
  /\ db.status[r] = "running"
  /\ LET view == Load(Empty, {r}) IN
     worker' = [worker EXCEPT ![w] =
       [busy |-> "request", queue |-> {},
        calls |-> <<CallOn("cancel", r, OpenSteps(view, r), NoStep)>>,
        seen |-> view, mine |-> Canceled(view, r)]]
  /\ UNCHANGED <<db, mode, task, starts, failures>>

\* The next step fails.  If it has a child run, that run is canceled first,
\* with a commit of everything; if the child is not running the request ends
\* with an error and loses what is not committed.
CancelStep(w) ==
  /\ InCall(w, "cancel")
  /\ \E s \in Now(w).left :
       LET c == IF worker[w].mine.step[s] = "running" THEN Child[s] ELSE NoRun
           rows == Mark(worker[w].mine, s, "failed")
       IN /\ \A q \in Now(w).left : Group[s] <= Group[q]
          /\ \/ c = NoRun /\ Continue(w, rows, Visited(w, s))
             \/ /\ c # NoRun /\ db.status[c] = "running"
                /\ worker' = [worker EXCEPT
                     ![w].seen = Load(worker[w].seen, {c}),
                     ![w].mine = Canceled(Load(rows, {c}), c),
                     ![w].calls = <<CallOn("cancel", c, OpenSteps(db, c), NoStep)>> \o Visited(w, s)]
             \/ /\ c # NoRun /\ db.status[c] # "running"
                /\ worker' = [worker EXCEPT ![w] = Idle]
  /\ UNCHANGED <<db, mode, task, starts, failures>>

\* Mutant of CancelStepRequest: the step gets the status of a canceled run.
CancelStepCanceled(w, s) ==
  /\ Admitted(w)
  /\ s \in Cancelable
  /\ db.status[RunOf[s]] = "running"
  /\ s \in OpenSteps(db, RunOf[s])
  /\ LET view == Load(Empty, {RunOf[s]}) IN
     worker' = [worker EXCEPT ![w] =
       [busy |-> "request", queue |-> {},
        calls |-> <<CallOn("save", RunOf[s], {}, NoStep)>>,
        seen |-> view, mine |-> Mark(view, s, "canceled")]]
  /\ UNCHANGED <<db, mode, task, starts, failures>>

\* A user cancels one step, pending or running; its task or child run goes on.
CancelStepRequest(w, s) ==
  /\ Admitted(w)
  /\ s \in Cancelable
  /\ db.status[RunOf[s]] = "running"
  /\ s \in OpenSteps(db, RunOf[s])
  /\ LET view == Load(Empty, {RunOf[s]}) IN
     worker' = [worker EXCEPT ![w] =
       [busy |-> "request", queue |-> {},
        calls |-> <<CallOn("save", RunOf[s], {}, NoStep)>>,
        seen |-> view, mine |-> Mark(view, s, "failed")]]
  /\ UNCHANGED <<db, mode, task, starts, failures>>

-----------------------------------------------------------------------------
(* Failures, restarts and the world *)

\* The message for an agent cannot be built (an output that is too long): the
\* exception leaves the dispatch.  A parent's step then counts as failed, the
\* pump fails the run and goes on, and a request ends.
DispatchRaises(w) ==
  /\ failures < MaxFailures
  /\ InCall(w, "dispatch")
  /\ \E s \in Now(w).left : Child[s] = NoRun
  /\ LET rows == worker[w].mine IN
     \/ /\ Now(w).for # NoStep
        /\ Continue(w, Mark(rows, Now(w).for, "failed"), Tail(worker[w].calls))
     \/ /\ Now(w).for = NoStep /\ worker[w].busy = "pump"
        /\ Continue(w, [rows EXCEPT !.status[Now(w).run] = "failed"], <<>>)
     \/ /\ Now(w).for = NoStep /\ worker[w].busy = "request"
        /\ worker' = [worker EXCEPT ![w] = Idle]
  /\ failures' = failures + 1
  /\ UNCHANGED <<db, mode, task, starts>>

\* The session loses its connection: nothing of it can be committed any more.
Disconnect(w) ==
  /\ failures < MaxFailures
  /\ worker[w] # Idle
  /\ worker' = [worker EXCEPT ![w] = Idle]
  /\ failures' = failures + 1
  /\ UNCHANGED <<db, mode, task, starts>>

\* The process restarts.  recover_stale_runs fails what was running; if it
\* raises, it is skipped.
Restart ==
  /\ failures < MaxFailures
  /\ worker' = [w \in Workers |-> Idle]
  /\ LET stale == {r \in Runs : db.status[r] = "running"}
         recovered ==
           [db EXCEPT !.status = [r \in Runs |-> IF r \in stale THEN "failed" ELSE db.status[r]],
                      !.step = [s \in Steps |-> IF RunOf[s] \in stale /\ db.step[s] = "running"
                                                THEN "failed" ELSE db.step[s]]]
     IN db' \in {db, recovered}
  /\ failures' = failures + 1
  /\ UNCHANGED <<mode, task, starts>>

\* The task of a step ends, by its agent or by its user.
TaskEnds(s) ==
  /\ task[s] = "open"
  /\ \E end \in {"completed", "failed", "canceled"} : task' = [task EXCEPT ![s] = end]
  /\ UNCHANGED <<db, mode, starts, worker, failures>>

-----------------------------------------------------------------------------
Request(w) ==
  \/ \E r \in Runs : Execute(w, r) \/ CancelRequest(w, r)
  \/ \E s \in Steps : CancelStepRequest(w, s)
Proceed(w) ==
  DispatchTask(w) \/ StartChild(w) \/ DispatchFails(w) \/ Return(w) \/ CancelStep(w)
PumpTurn(r) == PumpLate(r) \/ PumpEmpty(r) \/ PumpWait(r) \/ PumpGroupEnded(r)
Fault == Restart \/ \E w \in Workers : DispatchRaises(w) \/ Disconnect(w)

Next ==
  \/ \E w \in Callers : Request(w)
  \/ \E w \in Workers : Proceed(w)
  \/ PumpBegin \/ PumpEnd \/ \E r \in Runs : PumpTurn(r)
  \/ \E s \in Steps : TaskEnds(s)
  \/ Fault

Spec == Init /\ [][Next]_vars

\* The event loop resumes every session, the pump loop never stops, and a run
\* that is pumped again and again is at last older than its timeout.
FairSpec ==
  /\ Spec
  /\ \A w \in Workers : WF_vars(Proceed(w))
  /\ WF_vars(PumpBegin) /\ WF_vars(PumpEnd) /\ WF_vars(\E r \in Runs : PumpTurn(r))
  /\ \A r \in Runs : SF_vars(PumpLate(r))

-----------------------------------------------------------------------------
(* Properties *)

TypeOK ==
  /\ db \in Rows
  /\ mode \in [Runs -> {"stop", "continue"}]
  /\ task \in [Steps -> {"none", "open", "completed", "failed", "canceled"}]
  /\ starts \in [Steps -> 0..MaxStarts]
  /\ worker \in [Workers -> Worker]
  /\ failures \in 0..MaxFailures

\* No step gets two tasks or two child runs, whatever fails between starting a
\* step and recording it, and whoever dispatches.
StartedOnce == \A s \in Steps : starts[s] <= 1

\* A step is started only after all steps of earlier groups have ended for good
\* in the database, also where the pump decides on rows it read before.
GroupsInOrder ==
  [][\A s, q \in Steps :
       starts'[s] # starts[s] /\ RunOf[q] = RunOf[s] /\ Group[q] < Group[s]
       => db'.step[q] \in Over]_vars

\* No run stays open forever: not when its tasks never end, when a failure loses
\* part of a dispatch, or when its rows are overwritten.
RunEnds == \A r \in Runs : db.status[r] = "running" ~> db.status[r] # "running"

\* What the engine promises when its sessions do not overlap.
Pipeline == INSTANCE WorkflowPipeline WITH
  run <- db.status,
  begun <- {s \in Steps : starts[s] > 0},
  result <- [s \in Steps |-> IF db.step[s] \in Over THEN db.step[s] ELSE "open"]

\* Runs end once, steps start only in open runs and in the order of their groups,
\* results are final, and a completed run has completed its steps.
KeepsPipeline == Pipeline!Spec
=============================================================================
