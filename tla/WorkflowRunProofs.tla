------------------------- MODULE WorkflowRunProofs -------------------------
(***************************************************************************)
(* For any workflows, callers and faults, and sessions that overlap at     *)
(* will:                                                                   *)
(*                                                                         *)
(*   - the rows, sessions and calls are what the model says (TypeOK);      *)
(*   - a step is started at most once (StartedOnce).  A step that some     *)
(*     call has yet to dispatch was never started (CallFits), and no two   *)
(*     calls are to dispatch it (DispatchedByOne): a request dispatches    *)
(*     what it has just created, and the pump a group later than that of   *)
(*     the database (Begun), because nobody else moves a run to its next   *)
(*     group (SessionFits);                                                *)
(*   - steps start in the order of their groups, where none is canceled by *)
(*     itself (GroupsInOrder).                                             *)
(***************************************************************************)
EXTENDS WorkflowRun, TLAPS

Tasks == [Steps -> {"none", "open", "completed", "failed", "canceled"}]
Counts == [Steps -> 0..MaxStarts]

\* What call i of session o of worker w is to dispatch was not started: it is
\* in the first group of its run, or in that to which the pump has moved it.
CallFits(o, w, i, n) ==
    LET c == o.calls[i] IN
    /\ o.mine.status[c.run] # "absent"
    /\ w = Pump => c.op = "dispatch"
    /\ c.op = "dispatch" => \A s \in c.left :
         /\ RunOf[s] = c.run /\ n[s] = 0
         /\ \/ Group[s] = 0
            \/ w = Pump /\ i = Len(o.calls) /\ Group[s] = o.mine.group[c.run]

\* A session has rows of runs that exist, and only the pump changes groups; it
\* knows the group that the database has.
RowsFit(o, w, rows) ==
    \A r \in Runs :
      /\ o.mine.status[r] # "absent" => rows.status[r] # "absent"
      /\ o.mine.status[r] = "absent" =>
           o.seen.status[r] = "absent" /\ o.mine.group[r] = o.seen.group[r]
      /\ w # Pump => o.mine.group[r] = o.seen.group[r]
      /\ w = Pump /\ o.mine.status[r] # "absent" =>
           o.seen.group[r] = rows.group[r] /\ rows.group[r] <= o.mine.group[r]
      /\ r \in o.queue => o.mine.status[r] # "absent" /\ o.mine.group[r] = o.seen.group[r]

SessionFits(o, w, rows, n) ==
    /\ RowsFit(o, w, rows)
    /\ w = Pump => o.busy # "request"
    /\ w # Pump => o.busy # "pump" /\ o.queue = {}
    /\ \A i \in 1..Len(o.calls) : CallFits(o, w, i, n)

Dispatches(calls, i, s) == i \in 1..Len(calls) /\ calls[i].op = "dispatch" /\ s \in calls[i].left
DispatchedByOne(sessions) ==
    \A v, w \in Workers, i, j \in Nat, s \in Steps :
      Dispatches(sessions[v].calls, i, s) /\ Dispatches(sessions[w].calls, j, s) => v = w /\ i = j

\* A started step is in a group that its run has reached; a sub-workflow whose
\* step was not started does not exist.
Begun(rows, n) ==
    \A s \in Steps :
      /\ n[s] > 0 => n[s] = 1 /\ rows.status[RunOf[s]] # "absent" /\ Group[s] <= rows.group[RunOf[s]]
      /\ n[s] = 0 /\ Child[s] # NoRun => rows.status[Child[s]] = "absent"

StartsInv ==
    /\ \A w \in Workers : SessionFits(worker[w], w, db, starts)
    /\ DispatchedByOne(worker)
    /\ Begun(db, starts)

-----------------------------------------------------------------------------
(* Stacks of calls: a call on top, the top one gone, a step visited. *)
LEMMA PushedCall ==
    ASSUME NEW calls \in Seq(Call), NEW c \in Call
    PROVE  /\ <<c>> \o calls \in Seq(Call)
           /\ Len(<<c>> \o calls) = Len(calls) + 1
           /\ (<<c>> \o calls)[1] = c
           /\ \A i \in 1..Len(calls) : (<<c>> \o calls)[i + 1] = calls[i]
  OBVIOUS

LEMMA PoppedCall ==
    ASSUME NEW calls \in Seq(Call), calls # <<>>
    PROVE  /\ Tail(calls) \in Seq(Call)
           /\ Len(Tail(calls)) = Len(calls) - 1
           /\ Len(calls) \in Nat \ {0}
           /\ calls[1] \in Call /\ Head(calls) = calls[1]
           /\ \A i \in 1..Len(Tail(calls)) : Tail(calls)[i] = calls[i + 1]
  OBVIOUS

LEMMA ReplacedCall ==
    ASSUME NEW calls \in Seq(Call), calls # <<>>, NEW c \in Call
    PROVE  LET new == [calls EXCEPT ![1] = c] IN
           /\ new \in Seq(Call) /\ Len(new) = Len(calls)
           /\ new[1] = c /\ \A i \in 2..Len(calls) : new[i] = calls[i]
<1>1. 1 \in 1..Len(calls) /\ DOMAIN calls = 1..Len(calls) /\ Len(calls) \in Nat
  BY PoppedCall
<1> DEFINE new == [calls EXCEPT ![1] = c]
<1>2. new \in [1..Len(calls) -> Call] /\ DOMAIN new = 1..Len(calls)
  BY <1>1
<1>3. new \in Seq(Call) /\ Len(new) = Len(calls)
  BY <1>1, <1>2
<1>4. new[1] = c /\ \A i \in 2..Len(calls) : new[i] = calls[i]
  BY <1>1
<1> QED BY <1>3, <1>4

LEMMA VisitedCall ==
    ASSUME NEW calls \in Seq(Call), calls # <<>>, NEW s
    PROVE  LET visited == [calls EXCEPT ![1].left = @ \ {s}] IN
           /\ visited \in Seq(Call)
           /\ Len(visited) = Len(calls)
           /\ visited[1] = [calls[1] EXCEPT !.left = @ \ {s}]
           /\ \A i \in 2..Len(calls) : visited[i] = calls[i]
<1>1. calls[1] \in Call /\ 1 \in 1..Len(calls)
  BY PoppedCall
<1>2. [calls[1] EXCEPT !.left = @ \ {s}] \in Call
  BY <1>1 DEF Call
<1>3. [calls EXCEPT ![1].left = @ \ {s}] = [calls EXCEPT ![1] = [calls[1] EXCEPT !.left = @ \ {s}]]
  OBVIOUS
<1> QED BY ONLY <1>2, <1>3, ReplacedCall, calls \in Seq(Call), calls # <<>>

(* The session of w goes on as the record o says. *)
Becomes(w, o) == worker' = [worker EXCEPT ![w] = o]
Session(busy, queue, calls, seen, mine) ==
    [busy |-> busy, queue |-> queue, calls |-> calls, seen |-> seen, mine |-> mine]

LEMMA ContinueBecomes ==
    ASSUME NEW w \in Workers, worker \in [Workers -> Worker], NEW rows, NEW calls
    PROVE  LET o == worker[w] IN
           /\ Continue(w, rows, calls) => Becomes(w, Session(o.busy, o.queue, calls, o.seen, rows))
           /\ CommitAndContinue(w, rows, calls) =>
                Becomes(w, Session(o.busy, o.queue, calls, o.mine, rows))
  BY DEF Continue, CommitAndContinue, Becomes, Session, Worker

LEMMA TurnedRecord ==
    ASSUME NEW o \in Worker, NEW queue, NEW rows, NEW calls
    PROVE  [[[o EXCEPT !.queue = queue] EXCEPT !.mine = rows] EXCEPT !.calls = calls]
           = Session(o.busy, queue, calls, o.seen, rows)
<1>1. PICK o1 : o1 = [o EXCEPT !.queue = queue]
  OBVIOUS
<1>2. o1 = Session(o.busy, queue, o.calls, o.seen, o.mine)
  BY <1>1 DEF Session, Worker
<1>3. PICK o2 : o2 = [o1 EXCEPT !.mine = rows]
  OBVIOUS
<1>4. o2 = Session(o.busy, queue, o.calls, o.seen, rows)
  BY <1>2, <1>3 DEF Session
<1>5. [o2 EXCEPT !.calls = calls] = Session(o.busy, queue, calls, o.seen, rows)
  BY <1>4 DEF Session
<1> QED BY <1>1, <1>3, <1>5

LEMMA PushedBecomes ==
    ASSUME NEW w \in Workers, worker \in [Workers -> Worker], NEW seen, NEW rows, NEW calls,
           worker' = [worker EXCEPT ![w].seen = seen, ![w].mine = rows, ![w].calls = calls]
    PROVE  Becomes(w, Session(worker[w].busy, worker[w].queue, calls, seen, rows))
<1>1. PICK o \in Worker : o = worker[w]
  OBVIOUS
<1>2. PICK o1 : o1 = [o EXCEPT !.seen = seen]
  OBVIOUS
<1>3. o1 = Session(o.busy, o.queue, o.calls, seen, o.mine)
  BY <1>2 DEF Session, Worker
<1>4. PICK o2 : o2 = [o1 EXCEPT !.mine = rows]
  OBVIOUS
<1>5. o2 = Session(o.busy, o.queue, o.calls, seen, rows)
  BY <1>3, <1>4 DEF Session
<1>6. [o2 EXCEPT !.calls = calls] = Session(o.busy, o.queue, calls, seen, rows)
  BY <1>5 DEF Session
<1>7. worker' = [worker EXCEPT ![w] = [o2 EXCEPT !.calls = calls]]
  BY <1>1, <1>2, <1>4
<1> QED BY <1>1, <1>6, <1>7 DEF Becomes

LEMMA PumpedBecomes ==
    ASSUME worker \in [Workers -> Worker], NEW r, NEW rows, NEW calls, Pumped(r, rows, calls)
    PROVE  LET o == worker[Pump] IN
           Becomes(Pump, Session(o.busy, o.queue \ {r}, calls, o.seen, rows))
<1>1. Pump \in Workers
  BY DEF Workers
<1>2. worker[Pump] \in Worker
  BY <1>1
<1>3. worker' = [worker EXCEPT ![Pump] = [[[worker[Pump] EXCEPT !.queue = @ \ {r}]
                                  EXCEPT !.mine = rows] EXCEPT !.calls = calls]]
  BY <1>1 DEF Pumped
<1> DEFINE queue == worker[Pump].queue \ {r}
<1>4. [[[worker[Pump] EXCEPT !.queue = queue] EXCEPT !.mine = rows] EXCEPT !.calls = calls]
      = Session(worker[Pump].busy, queue, calls, worker[Pump].seen, rows)
  BY <1>2, TurnedRecord
<1> QED BY <1>3, <1>4 DEF Becomes

-----------------------------------------------------------------------------
(* What the operators on rows return. *)
Statuses == {"pending", "running"} \cup Over

LEMMA EmptyOK == Empty \in Rows
  BY DEF Empty, Rows, RunStatuses

LEMMA IdleOK == Idle \in Worker /\ Idle.calls = <<>> /\ Idle.seen = Empty /\ Idle.mine = Empty
<1>1. <<>> \in Seq(Call)
  OBVIOUS
<1> QED BY <1>1, EmptyOK DEF Idle, Worker

LEMMA CreatedOK ==
    ASSUME NEW view \in Rows, NEW r \in Runs
    PROVE  Created(view, r) \in Rows
  BY DEF Created, Rows, RunStatuses

LEMMA LoadOK ==
    ASSUME db \in Rows, NEW view \in Rows, NEW Q, RunsAssumption
    PROVE  Load(view, Q) \in Rows
  BY DEF Load, Rows, RunsAssumption

LEMMA MarkOK ==
    ASSUME NEW rows \in Rows, NEW s \in Steps, NEW status \in Statuses
    PROVE  Mark(rows, s, status) \in Rows
  BY DEF Mark, Rows, Statuses

LEMMA StatusOK ==
    ASSUME NEW rows \in Rows, NEW r \in Runs, NEW status \in RunStatuses
    PROVE  [rows EXCEPT !.status[r] = status] \in Rows
  BY DEF Rows

LEMMA StepsOK ==
    ASSUME NEW rows \in Rows, NEW step \in [Steps -> Statuses]
    PROVE  [rows EXCEPT !.step = step] \in Rows
  BY DEF Rows, Statuses

LEMMA GroupOK ==
    ASSUME NEW rows \in Rows, NEW r \in Runs, NEW g \in Nat
    PROVE  [rows EXCEPT !.group[r] = g] \in Rows
  BY DEF Rows

LEMMA CommittedOK ==
    ASSUME db \in Rows, worker \in [Workers -> Worker], NEW w \in Workers
    PROVE  Committed(w) \in Rows
<1>1. worker[w].seen \in Rows /\ worker[w].mine \in Rows
  BY DEF Worker
<1>2. Committed(w).status \in [Runs -> RunStatuses]
  BY <1>1 DEF Committed, Written, Rows
<1>3. Committed(w).group \in [Runs -> Nat]
  BY <1>1 DEF Committed, Written, Rows
<1>4. Committed(w).step \in [Steps -> Statuses]
  BY <1>1 DEF Committed, Written, Rows, Statuses
<1> QED BY <1>2, <1>3, <1>4 DEF Committed, Rows, Statuses

LEMMA CallOK ==
    ASSUME NEW op \in {"dispatch", "cancel", "save"}, NEW r \in Runs, NEW S \in SUBSET Steps,
           NEW s \in Steps \cup {NoStep}
    PROVE  CallOn(op, r, S, s) \in Call
  BY DEF CallOn, Call

LEMMA GroupStepsOK == \A r, g : GroupSteps(r, g) \subseteq Steps /\ StepsOf(r) \subseteq Steps
  BY DEF GroupSteps, StepsOf

LEMMA SyncedOK ==
    ASSUME worker \in [Workers -> Worker], NEW r, NEW late
    PROVE  Synced(r, late) \in [Steps -> Statuses]
<1>1. \A s : Outcome(s) \in Statuses
  BY DEF Outcome, Statuses, Over
<1>2. worker[Pump].mine.step \in [Steps -> Statuses]
  BY DEF Worker, Rows, Statuses, Workers
<1> QED BY <1>1, <1>2 DEF Synced, Statuses, Over

LEMMA BecomesOK ==
    ASSUME worker \in [Workers -> Worker], NEW w \in Workers, NEW o \in Worker, Becomes(w, o)
    PROVE  worker' \in [Workers -> Worker]
  BY DEF Becomes

LEMMA SessionOK ==
    ASSUME NEW busy \in {"idle", "pump", "request"}, NEW queue \in SUBSET Runs,
           NEW calls \in Seq(Call), NEW seen \in Rows, NEW mine \in Rows
    PROVE  Session(busy, queue, calls, seen, mine) \in Worker
  BY DEF Session, Worker

LEMMA NowOK ==
    ASSUME worker \in [Workers -> Worker], NEW w \in Workers, worker[w].calls # <<>>
    PROVE  /\ Now(w) \in Call /\ Now(w) = worker[w].calls[1]
           /\ Now(w).run \in Runs /\ Now(w).left \subseteq Steps /\ Now(w).for \in Steps \cup {NoStep}
           /\ \A s : Visited(w, s) \in Seq(Call)
           /\ Tail(worker[w].calls) \in Seq(Call)
<1>1. worker[w].calls \in Seq(Call)
  BY DEF Worker
<1>2. Now(w) \in Call /\ Now(w) = worker[w].calls[1] /\ Tail(worker[w].calls) \in Seq(Call)
  BY <1>1, PoppedCall DEF Now
<1>3. \A s : Visited(w, s) \in Seq(Call)
  BY <1>1, VisitedCall DEF Visited
<1> QED BY <1>2, <1>3 DEF Call

-----------------------------------------------------------------------------
(* The rows, the sessions and the calls keep their types. *)
LEMMA TypeInit == ASSUME RunsAssumption, Init PROVE TypeOK
<1>1. worker \in [Workers -> Worker]
  BY IdleOK DEF Init
<1>2. starts \in [Steps -> 0..MaxStarts] /\ failures \in 0..MaxFailures
  BY DEF Init, RunsAssumption
<1> QED BY <1>1, <1>2, EmptyOK DEF Init, TypeOK

LEMMA RequestTypes ==
    ASSUME RunsAssumption, TypeOK, NEW w \in Workers, Request(w)
    PROVE  TypeOK'
<1>1. CASE \E r \in Runs : Execute(w, r)
  <2>1. PICK r \in Runs : Execute(w, r)
    BY <1>1
  <2>2. Created(db, r) \in Rows /\ Created(Empty, r) \in Rows
    BY CreatedOK, EmptyOK DEF TypeOK
  <2>3. <<CallOn("dispatch", r, GroupSteps(r, 0), NoStep)>> \in Seq(Call)
    BY CallOK, GroupStepsOK
  <2> DEFINE o == Session("request", {}, <<CallOn("dispatch", r, GroupSteps(r, 0), NoStep)>>,
                          Created(Empty, r), Created(Empty, r))
  <2>4. o \in Worker
    BY <2>2, <2>3, SessionOK
  <2>5. Becomes(w, o)
    BY <2>1 DEF Execute, Becomes, Session
  <2>6. worker' \in [Workers -> Worker]
    BY <2>4, <2>5, BecomesOK DEF TypeOK
  <2> QED BY <2>1, <2>2, <2>6 DEF Execute, TypeOK
<1>2. CASE \E r \in Runs : CancelRequest(w, r)
  <2>1. PICK r \in Runs : CancelRequest(w, r)
    BY <1>2
  <2> DEFINE view == Load(Empty, {r})
             o == Session("request", {}, <<CallOn("cancel", r, OpenSteps(view, r), NoStep)>>,
                          view, Canceled(view, r))
  <2>2. view \in Rows
    BY LoadOK, EmptyOK DEF TypeOK
  <2>3. Canceled(view, r) \in Rows
    BY <2>2, StatusOK DEF Canceled, RunStatuses
  <2>4. OpenSteps(view, r) \subseteq Steps
    BY GroupStepsOK DEF OpenSteps
  <2>a. CallOn("cancel", r, OpenSteps(view, r), NoStep) \in Call
    BY ONLY <2>4, r \in Runs, CallOK
  <2>5. <<CallOn("cancel", r, OpenSteps(view, r), NoStep)>> \in Seq(Call)
    BY ONLY <2>a
  <2>6. o \in Worker
    BY <2>2, <2>3, <2>5, SessionOK
  <2>7. Becomes(w, o)
    BY <2>1 DEF CancelRequest, Becomes, Session
  <2>8. worker' \in [Workers -> Worker]
    BY <2>6, <2>7, BecomesOK DEF TypeOK
  <2> QED BY <2>1, <2>8 DEF CancelRequest, TypeOK
<1>3. CASE \E s \in Steps : CancelStepRequest(w, s)
  <2>1. PICK s \in Steps : CancelStepRequest(w, s)
    BY <1>3
  <2> DEFINE view == Load(Empty, {RunOf[s]})
             o == Session("request", {}, <<CallOn("save", RunOf[s], {}, NoStep)>>,
                          view, Mark(view, s, "failed"))
  <2>2. view \in Rows /\ RunOf[s] \in Runs
    BY LoadOK, EmptyOK DEF TypeOK, RunsAssumption
  <2>3. Mark(view, s, "failed") \in Rows
    BY <2>2, MarkOK DEF Statuses, Over
  <2>4. <<CallOn("save", RunOf[s], {}, NoStep)>> \in Seq(Call)
    BY <2>2, CallOK
  <2>5. o \in Worker
    BY <2>2, <2>3, <2>4, SessionOK
  <2>6. Becomes(w, o)
    BY <2>1 DEF CancelStepRequest, Becomes, Session
  <2>7. worker' \in [Workers -> Worker]
    BY <2>5, <2>6, BecomesOK DEF TypeOK
  <2> QED BY <2>1, <2>7 DEF CancelStepRequest, TypeOK
<1> QED BY <1>1, <1>2, <1>3 DEF Request

(* A session that goes on has types if its new rows and calls have. *)
LEMMA GoesOnOK ==
    ASSUME worker \in [Workers -> Worker], NEW w \in Workers, NEW rows \in Rows,
           NEW calls \in Seq(Call), Continue(w, rows, calls) \/ CommitAndContinue(w, rows, calls)
    PROVE  worker' \in [Workers -> Worker]
<1> DEFINE o == worker[w]
<1>1. /\ o.busy \in {"idle", "pump", "request"} /\ o.queue \in SUBSET Runs
      /\ o.seen \in Rows /\ o.mine \in Rows
  BY DEF Worker
<1>2. /\ Session(o.busy, o.queue, calls, o.seen, rows) \in Worker
      /\ Session(o.busy, o.queue, calls, o.mine, rows) \in Worker
  BY <1>1, SessionOK
<1> QED BY <1>2, ContinueBecomes, BecomesOK

LEMMA PushesOK ==
    ASSUME worker \in [Workers -> Worker], NEW w \in Workers, NEW seen \in Rows, NEW rows \in Rows,
           NEW calls \in Seq(Call),
           worker' = [worker EXCEPT ![w].seen = seen, ![w].mine = rows, ![w].calls = calls]
    PROVE  worker' \in [Workers -> Worker]
<1>1. worker[w].busy \in {"idle", "pump", "request"} /\ worker[w].queue \in SUBSET Runs
  BY DEF Worker
<1>2. Session(worker[w].busy, worker[w].queue, calls, seen, rows) \in Worker
  BY <1>1, SessionOK
<1> QED BY <1>2, PushedBecomes, BecomesOK

LEMMA EndsOK ==
    ASSUME worker \in [Workers -> Worker], NEW w \in Workers, worker' = [worker EXCEPT ![w] = Idle]
    PROVE  worker' \in [Workers -> Worker]
  BY IdleOK

LEMMA ProceedTypes ==
    ASSUME RunsAssumption, TypeOK, NEW w \in Workers, Proceed(w)
    PROVE  TypeOK'
<1> DEFINE o == worker[w]
<1>1. /\ worker \in [Workers -> Worker] /\ db \in Rows
      /\ o.mine \in Rows /\ o.seen \in Rows
      /\ Committed(w) \in Rows
  BY CommittedOK DEF TypeOK, Worker
<1>2. o.calls # <<>>
  BY DEF Proceed, DispatchTask, StartChild, DispatchFails, Return, CancelStep, InCall
<1>3. /\ Now(w).run \in Runs /\ Now(w).left \subseteq Steps /\ Now(w).for \in Steps \cup {NoStep}
      /\ \A s : Visited(w, s) \in Seq(Call)
      /\ Tail(o.calls) \in Seq(Call)
  BY <1>1, <1>2, NowOK
<1>4. \A s \in Steps : Mark(o.mine, s, "running") \in Rows /\ Mark(o.mine, s, "failed") \in Rows
  BY <1>1, MarkOK DEF Statuses, Over
<1>5. CASE DispatchTask(w)
  <2>1. PICK s \in Now(w).left :
             /\ starts[s] < MaxStarts /\ task' = [task EXCEPT ![s] = "open"]
             /\ starts' = [starts EXCEPT ![s] = @ + 1]
             /\ CommitAndContinue(w, Mark(o.mine, s, "running"), Visited(w, s))
    BY <1>5 DEF DispatchTask
  <2>2. s \in Steps /\ worker' \in [Workers -> Worker]
    BY <1>1, <1>3, <1>4, <2>1, GoesOnOK
  <2>3. starts' \in [Steps -> 0..MaxStarts]
    BY <2>1, <2>2 DEF TypeOK, RunsAssumption
  <2>4. task' \in [Steps -> {"none", "open", "completed", "failed", "canceled"}]
    BY <2>1, <2>2 DEF TypeOK
  <2> QED BY <1>1, <1>5, <2>2, <2>3, <2>4 DEF DispatchTask, TypeOK
<1>6. CASE StartChild(w)
  <2>1. PICK s \in Now(w).left :
             /\ Child[s] # NoRun /\ starts[s] < MaxStarts
             /\ db' = Created(Committed(w), Child[s])
             /\ starts' = [starts EXCEPT ![s] = @ + 1]
             /\ worker' = [worker EXCEPT
                  ![w].seen = Created(o.mine, Child[s]), ![w].mine = Created(o.mine, Child[s]),
                  ![w].calls = <<CallOn("dispatch", Child[s], GroupSteps(Child[s], 0), s)>>
                               \o Visited(w, s)]
    BY <1>6 DEF StartChild
  <2>2. s \in Steps /\ Child[s] \in Runs
    BY <1>3, <2>1 DEF RunsAssumption
  <2>3. db' \in Rows /\ Created(o.mine, Child[s]) \in Rows
    BY <1>1, <2>1, <2>2, CreatedOK
  <2>4. CallOn("dispatch", Child[s], GroupSteps(Child[s], 0), s) \in Call
    BY <2>2, CallOK, GroupStepsOK
  <2>5. <<CallOn("dispatch", Child[s], GroupSteps(Child[s], 0), s)>> \o Visited(w, s) \in Seq(Call)
    BY <1>3, <2>4
  <2>6. worker' \in [Workers -> Worker]
    BY ONLY <1>1, <2>1, <2>3, <2>5, w \in Workers, PushesOK
  <2>7. starts' \in [Steps -> 0..MaxStarts]
    BY <2>1, <2>2 DEF TypeOK, RunsAssumption
  <2> QED BY <1>6, <2>3, <2>6, <2>7 DEF StartChild, TypeOK
<1>7. CASE DispatchFails(w)
  <2>1. PICK s \in Now(w).left :
             \/ Continue(w, Mark(o.mine, s, "failed"), Visited(w, s)) /\ UNCHANGED db
             \/ /\ db' = Committed(w)
                /\ CommitAndContinue(w, Mark(o.mine, s, "failed"), Visited(w, s))
    BY <1>7 DEF DispatchFails
  <2>2. s \in Steps /\ worker' \in [Workers -> Worker]
    BY <1>1, <1>3, <1>4, <2>1, GoesOnOK
  <2> QED BY <1>1, <1>7, <2>1, <2>2 DEF DispatchFails, TypeOK
<1>8. CASE Return(w)
  <2>1. worker' \in [Workers -> Worker]
    BY <1>1, <1>3, <1>4, <1>8, GoesOnOK, EndsOK DEF Return
  <2> QED BY <1>1, <1>8, <2>1 DEF Return, TypeOK
<1>9. CASE CancelStep(w)
  <2>1. PICK s \in Now(w).left, c \in Runs \cup {NoRun} :
          LET rows == Mark(o.mine, s, "failed") IN
             \/ c = NoRun /\ Continue(w, rows, Visited(w, s))
             \/ /\ c # NoRun /\ db.status[c] = "running"
                /\ worker' = [worker EXCEPT
                     ![w].seen = Load(o.seen, {c}),
                     ![w].mine = Canceled(Load(rows, {c}), c),
                     ![w].calls = <<CallOn("cancel", c, OpenSteps(db, c), NoStep)>> \o Visited(w, s)]
             \/ worker' = [worker EXCEPT ![w] = Idle]
    <3>1. PICK s \in Now(w).left :
          LET c == IF o.mine.step[s] = "running" THEN Child[s] ELSE NoRun
              rows == Mark(o.mine, s, "failed") IN
             \/ c = NoRun /\ Continue(w, rows, Visited(w, s))
             \/ /\ c # NoRun /\ db.status[c] = "running"
                /\ worker' = [worker EXCEPT
                     ![w].seen = Load(o.seen, {c}),
                     ![w].mine = Canceled(Load(rows, {c}), c),
                     ![w].calls = <<CallOn("cancel", c, OpenSteps(db, c), NoStep)>> \o Visited(w, s)]
             \/ worker' = [worker EXCEPT ![w] = Idle]
      BY <1>9 DEF CancelStep
    <3>2. (IF o.mine.step[s] = "running" THEN Child[s] ELSE NoRun) \in Runs \cup {NoRun}
      BY <1>3 DEF RunsAssumption
    <3> QED BY <3>1, <3>2
  <2>2. s \in Steps /\ Mark(o.mine, s, "failed") \in Rows
    BY <1>3, <1>4
  <2>3. CASE c = NoRun /\ Continue(w, Mark(o.mine, s, "failed"), Visited(w, s))
    BY <1>1, <1>3, <1>9, <2>2, <2>3, GoesOnOK DEF CancelStep, TypeOK
  <2>4. CASE worker' = [worker EXCEPT ![w] = Idle]
    BY <1>1, <1>9, <2>4, EndsOK DEF CancelStep, TypeOK
  <2>5. CASE /\ c # NoRun
             /\ worker' = [worker EXCEPT
                  ![w].seen = Load(o.seen, {c}),
                  ![w].mine = Canceled(Load(Mark(o.mine, s, "failed"), {c}), c),
                  ![w].calls = <<CallOn("cancel", c, OpenSteps(db, c), NoStep)>> \o Visited(w, s)]
    <3>1. c \in Runs
      BY <2>5
    <3>2. Load(o.seen, {c}) \in Rows /\ Load(Mark(o.mine, s, "failed"), {c}) \in Rows
      BY <1>1, <2>2, LoadOK
    <3>3. Canceled(Load(Mark(o.mine, s, "failed"), {c}), c) \in Rows
      BY <3>1, <3>2, StatusOK DEF Canceled, RunStatuses
    <3>4. CallOn("cancel", c, OpenSteps(db, c), NoStep) \in Call
      BY <3>1, CallOK, GroupStepsOK DEF OpenSteps
    <3>5. <<CallOn("cancel", c, OpenSteps(db, c), NoStep)>> \o Visited(w, s) \in Seq(Call)
      BY <1>3, <3>4
    <3>6. worker' \in [Workers -> Worker]
      BY ONLY <1>1, <2>5, <3>2, <3>3, <3>5, w \in Workers, PushesOK
    <3> QED BY <1>9, <3>6 DEF CancelStep, TypeOK
  <2> QED BY <2>1, <2>3, <2>4, <2>5
<1> QED BY <1>5, <1>6, <1>7, <1>8, <1>9 DEF Proceed

LEMMA PumpedTypes ==
    ASSUME TypeOK, NEW r, NEW rows \in Rows, NEW calls \in Seq(Call), Pumped(r, rows, calls)
    PROVE  TypeOK'
<1>1. Pump \in Workers /\ worker \in [Workers -> Worker]
  BY DEF Workers, TypeOK
<1> DEFINE o == worker[Pump]
<1>2. o.busy \in {"idle", "pump", "request"} /\ o.queue \in SUBSET Runs /\ o.seen \in Rows
  BY <1>1 DEF Worker
<1>3. Session(o.busy, o.queue \ {r}, calls, o.seen, rows) \in Worker
  BY <1>2, SessionOK
<1>4. worker' \in [Workers -> Worker]
  BY <1>1, <1>3, PumpedBecomes, BecomesOK
<1> QED BY <1>4 DEF Pumped, TypeOK

LEMMA LateRows ==
    ASSUME NEW rows \in Rows, NEW r \in Runs
    PROVE  [rows EXCEPT !.status[r] = "failed",
                        !.step = [s \in Steps |-> IF RunOf[s] = r /\ rows.step[s] = "running"
                                                  THEN "failed" ELSE rows.step[s]]] \in Rows
  BY DEF Rows, Over, RunStatuses

LEMMA PumpTypes ==
    ASSUME RunsAssumption, TypeOK, PumpBegin \/ PumpEnd \/ \E r \in Runs : PumpTurn(r)
    PROVE  TypeOK'
<1>1. Pump \in Workers /\ worker \in [Workers -> Worker] /\ db \in Rows
  BY DEF Workers, TypeOK
<1>2. worker[Pump].mine \in Rows /\ Committed(Pump) \in Rows
  BY <1>1, CommittedOK DEF Worker
<1>3. CASE PumpBegin
  <2>1. PICK Q \in SUBSET {r \in Runs : db.status[r] = "running"} :
             Becomes(Pump, Session("pump", Q, <<>>, Load(Empty, Q), Load(Empty, Q)))
    BY <1>3 DEF PumpBegin, Becomes, Session
  <2>2. <<>> \in Seq(Call) /\ Q \in SUBSET Runs /\ Load(Empty, Q) \in Rows
    BY <1>1, EmptyOK, LoadOK
  <2>3. Session("pump", Q, <<>>, Load(Empty, Q), Load(Empty, Q)) \in Worker
    BY <2>2, SessionOK
  <2>4. worker' \in [Workers -> Worker]
    BY <1>1, <2>1, <2>3, BecomesOK
  <2> QED BY <1>3, <2>4 DEF PumpBegin, TypeOK
<1>4. CASE PumpEnd
  BY <1>1, <1>2, <1>4, EndsOK DEF PumpEnd, TypeOK
<1>5. ASSUME NEW r \in Runs, PumpTurn(r)
      PROVE  TypeOK'
  <2>1. \A late : Synced(r, late) \in [Steps -> Statuses]
    BY <1>1, SyncedOK
  <2>2. \A late : [worker[Pump].mine EXCEPT !.step = Synced(r, late)] \in Rows
    BY <1>2, <2>1, StepsOK
  <2>3. <<>> \in Seq(Call)
    OBVIOUS
  <2>4. CASE PumpLate(r)
    BY <1>2, <2>3, <2>4, LateRows, PumpedTypes DEF PumpLate
  <2>5. CASE PumpEmpty(r)
    BY <1>2, <2>3, <2>5, StatusOK, PumpedTypes DEF PumpEmpty, RunStatuses
  <2>6. CASE PumpWait(r)
    BY <2>2, <2>3, <2>6, PumpedTypes DEF PumpWait
  <2>7. CASE PumpGroupEnded(r)
    <3>1. PICK late :
          LET rows == [worker[Pump].mine EXCEPT !.step = Synced(r, late)] IN
          \/ Pumped(r, [rows EXCEPT !.status[r] = "failed"], <<>>)
          \/ Pumped(r, [rows EXCEPT !.status[r] = "completed"], <<>>)
          \/ \E g \in LaterGroups(r) : Pumped(r, [rows EXCEPT !.group[r] = g],
                                              <<CallOn("dispatch", r, GroupSteps(r, g), NoStep)>>)
      BY <2>7 DEF PumpGroupEnded
    <3> DEFINE rows == [worker[Pump].mine EXCEPT !.step = Synced(r, late)]
    <3>2. rows \in Rows
      BY <2>2
    <3> HIDE DEF rows
    <3>3. CASE Pumped(r, [rows EXCEPT !.status[r] = "failed"], <<>>)
      BY <2>3, <3>2, <3>3, StatusOK, PumpedTypes DEF RunStatuses
    <3>4. CASE Pumped(r, [rows EXCEPT !.status[r] = "completed"], <<>>)
      BY <2>3, <3>2, <3>4, StatusOK, PumpedTypes DEF RunStatuses
    <3>5. ASSUME NEW g \in LaterGroups(r),
                 Pumped(r, [rows EXCEPT !.group[r] = g],
                        <<CallOn("dispatch", r, GroupSteps(r, g), NoStep)>>)
          PROVE  TypeOK'
      <4>1. g \in Nat
        BY <3>5 DEF LaterGroups, StepsOf, RunsAssumption
      <4>2. <<CallOn("dispatch", r, GroupSteps(r, g), NoStep)>> \in Seq(Call)
        BY CallOK, GroupStepsOK
      <4> QED BY <3>2, <3>5, <4>1, <4>2, GroupOK, PumpedTypes
    <3> QED BY <3>1, <3>3, <3>4, <3>5 DEF rows
  <2> QED BY <1>5, <2>4, <2>5, <2>6, <2>7 DEF PumpTurn
<1> QED BY <1>3, <1>4, <1>5

LEMMA FaultTypes == ASSUME RunsAssumption, TypeOK, Fault PROVE TypeOK'
<1>1. worker \in [Workers -> Worker] /\ db \in Rows
  BY DEF TypeOK
<1>2. failures < MaxFailures => failures + 1 \in 0..MaxFailures
  BY DEF TypeOK, RunsAssumption
<1>3. CASE Restart
  <2>1. worker' \in [Workers -> Worker]
    BY <1>3, IdleOK DEF Restart
  <2>2. db' \in Rows
    <3> DEFINE stale == {r \in Runs : db.status[r] = "running"}
               status == [r \in Runs |-> IF r \in stale THEN "failed" ELSE db.status[r]]
               step == [s \in Steps |-> IF RunOf[s] \in stale /\ db.step[s] = "running"
                                        THEN "failed" ELSE db.step[s]]
    <3>1. status \in [Runs -> RunStatuses]
      BY <1>1 DEF Rows, RunStatuses
    <3>2. step \in [Steps -> {"pending", "running"} \cup Over]
      BY <1>1 DEF Rows, Over
    <3>3. db' \in {db, [db EXCEPT !.status = status, !.step = step]}
      BY <1>3 DEF Restart
    <3> HIDE DEF status, step
    <3> QED BY <1>1, <3>1, <3>2, <3>3 DEF Rows
  <2> QED BY <1>2, <1>3, <2>1, <2>2 DEF Restart, TypeOK
<1>4. ASSUME NEW w \in Workers, DispatchRaises(w)
      PROVE  TypeOK'
  <2>1. worker[w].calls # <<>>
    BY <1>4 DEF DispatchRaises, InCall
  <2>2. /\ Now(w).run \in Runs /\ Now(w).for \in Steps \cup {NoStep}
        /\ Tail(worker[w].calls) \in Seq(Call) /\ <<>> \in Seq(Call)
        /\ worker[w].mine \in Rows
    BY <1>1, <2>1, NowOK DEF Worker
  <2>3. /\ \A s \in Steps : Mark(worker[w].mine, s, "failed") \in Rows
        /\ [worker[w].mine EXCEPT !.status[Now(w).run] = "failed"] \in Rows
    BY <2>2, MarkOK, StatusOK DEF Statuses, Over, RunStatuses
  <2>4. worker' \in [Workers -> Worker]
    BY <1>1, <1>4, <2>2, <2>3, GoesOnOK, EndsOK DEF DispatchRaises
  <2> QED BY <1>2, <1>4, <2>4 DEF DispatchRaises, TypeOK
<1>5. ASSUME NEW w \in Workers, Disconnect(w)
      PROVE  TypeOK'
  BY <1>1, <1>2, <1>5, EndsOK DEF Disconnect, TypeOK
<1> QED BY <1>3, <1>4, <1>5 DEF Fault

LEMMA TypeStep == ASSUME RunsAssumption, TypeOK, [Next]_vars PROVE TypeOK'
<1>1. ASSUME NEW w \in Callers, Request(w) PROVE TypeOK'
  BY <1>1, RequestTypes DEF Workers
<1>2. ASSUME NEW w \in Workers, Proceed(w) PROVE TypeOK'
  BY <1>2, ProceedTypes
<1>3. CASE PumpBegin \/ PumpEnd \/ \E r \in Runs : PumpTurn(r)
  BY <1>3, PumpTypes
<1>4. ASSUME NEW s \in Steps, TaskEnds(s) PROVE TypeOK'
  BY <1>4 DEF TaskEnds, TypeOK
<1>5. CASE Fault
  BY <1>5, FaultTypes
<1>6. CASE UNCHANGED vars
  BY <1>6 DEF vars, TypeOK
<1> QED BY <1>1, <1>2, <1>3, <1>4, <1>5, <1>6 DEF Next

\* Whatever is interrupted, the rows, the sessions with their stacks of calls
\* and the tasks keep their types (workflow_execution.py, models/workflow.py).
THEOREM RowsStayTyped == ASSUME RunsAssumption PROVE Spec => []TypeOK
<1>1. Init => TypeOK
  BY TypeInit
<1>2. TypeOK /\ [Next]_vars => TypeOK'
  BY TypeStep
<1> QED BY <1>1, <1>2, PTL DEF Spec

-----------------------------------------------------------------------------
(* No step is started twice: what each kind of step does to sessions. *)

\* Rows of the same runs in the same groups.
SameRuns(old, new) ==
    \A r \in Runs : /\ old.status[r] = "absent" <=> new.status[r] = "absent"
                    /\ old.group[r] = new.group[r]

\* The calls `new` are the bottom of the stack `old`, with less to dispatch.
Inherits(new, old) ==
    /\ Len(new) <= Len(old)
    /\ \A i \in 1..Len(new) :
         LET c == new[i]
             d == old[i + (Len(old) - Len(new))]
         IN c.op = d.op /\ c.run = d.run /\ c.left \subseteq d.left

LEMMA InheritsVisited ==
    ASSUME NEW calls \in Seq(Call), calls # <<>>, NEW s
    PROVE  Inherits([calls EXCEPT ![1].left = @ \ {s}], calls)
<1> DEFINE new == [calls EXCEPT ![1].left = @ \ {s}]
<1>1. /\ Len(new) = Len(calls) /\ Len(calls) \in Nat /\ calls[1] \in Call
      /\ new[1] = [calls[1] EXCEPT !.left = @ \ {s}]
      /\ \A i \in 2..Len(calls) : new[i] = calls[i]
  BY VisitedCall, PoppedCall
<1>2. new[1].op = calls[1].op /\ new[1].run = calls[1].run /\ new[1].left \subseteq calls[1].left
  BY <1>1 DEF Call
<1> HIDE DEF new
<1>3. \A i \in 1..Len(new) : /\ i + (Len(calls) - Len(new)) = i
                             /\ i = 1 \/ i \in 2..Len(calls)
  BY <1>1
<1>4. ASSUME NEW i \in 1..Len(new)
      PROVE  LET c == new[i]
                 d == calls[i + (Len(calls) - Len(new))]
             IN c.op = d.op /\ c.run = d.run /\ c.left \subseteq d.left
  <2>1. CASE i = 1
    BY <1>2, <1>3, <2>1
  <2>2. CASE i \in 2..Len(calls)
    BY <1>1, <1>3, <2>2
  <2> QED BY <1>3, <2>1, <2>2
<1>5. Inherits(new, calls)
  BY <1>1, <1>4 DEF Inherits
<1> QED BY <1>5 DEF new

LEMMA InheritsTail ==
    ASSUME NEW calls \in Seq(Call), calls # <<>>
    PROVE  Inherits(Tail(calls), calls)
<1>1. \A i \in 1..Len(Tail(calls)) : /\ i + (Len(calls) - Len(Tail(calls))) = i + 1
                                     /\ Tail(calls)[i] = calls[i + 1]
  BY PoppedCall
<1>2. Len(Tail(calls)) <= Len(calls)
  BY PoppedCall
<1> QED BY <1>1, <1>2 DEF Inherits

LEMMA InheritsNone == \A calls \in Seq(Call) : Inherits(<<>>, calls)
  BY DEF Inherits

LEMMA InheritedDispatches ==
    ASSUME NEW old \in Seq(Call), NEW new \in Seq(Call), Inherits(new, old), NEW i, NEW s,
           Dispatches(new, i, s)
    PROVE  Dispatches(old, i + (Len(old) - Len(new)), s)
  BY DEF Inherits, Dispatches

(* A session that goes on with rows of the same runs, before or after a commit. *)
LEMMA CommittedMoves ==
    ASSUME TypeOK, NEW w \in Workers, RowsFit(worker[w], w, db)
    PROVE  \A r \in Runs :
             /\ Committed(w).status[r] = "absent" <=> db.status[r] = "absent"
             /\ Committed(w).group[r] = IF w = Pump /\ worker[w].mine.status[r] # "absent"
                                        THEN worker[w].mine.group[r] ELSE db.group[r]
             /\ db.group[r] <= Committed(w).group[r]
<1>1. db \in Rows /\ worker[w].mine \in Rows /\ worker[w].seen \in Rows
  BY DEF TypeOK, Worker
<1> SUFFICES ASSUME NEW r \in Runs
             PROVE  /\ Committed(w).status[r] = "absent" <=> db.status[r] = "absent"
                    /\ Committed(w).group[r] = IF w = Pump /\ worker[w].mine.status[r] # "absent"
                                               THEN worker[w].mine.group[r] ELSE db.group[r]
                    /\ db.group[r] <= Committed(w).group[r]
  OBVIOUS
<1>2. Committed(w).status[r] = IF worker[w].mine.status[r] # worker[w].seen.status[r]
                               THEN worker[w].mine.status[r] ELSE db.status[r]
  BY <1>1 DEF Committed, Written, Rows
<1>3. Committed(w).group[r] = IF worker[w].mine.group[r] # worker[w].seen.group[r]
                              THEN worker[w].mine.group[r] ELSE db.group[r]
  BY <1>1 DEF Committed, Written, Rows
<1>4. db.group[r] \in Nat
  BY <1>1 DEF Rows
<1> QED BY <1>2, <1>3, <1>4 DEF RowsFit

LEMMA RowsGoOn ==
    ASSUME TypeOK, NEW w \in Workers, RowsFit(worker[w], w, db),
           NEW rows, SameRuns(worker[w].mine, rows),
           NEW busy, NEW calls, NEW queue \in SUBSET worker[w].queue
    PROVE  /\ RowsFit(Session(busy, queue, calls, worker[w].seen, rows), w, db)
           /\ RowsFit(Session(busy, queue, calls, worker[w].mine, rows), w, Committed(w))
<1>1. db \in Rows /\ worker[w].mine \in Rows /\ worker[w].seen \in Rows
  BY DEF TypeOK, Worker
<1>2. RowsFit(Session(busy, queue, calls, worker[w].seen, rows), w, db)
  BY DEF RowsFit, Session, SameRuns
<1>3. \A r \in Runs : worker[w].mine.group[r] \in Nat
  BY <1>1 DEF Rows
<1>4. RowsFit(Session(busy, queue, calls, worker[w].mine, rows), w, Committed(w))
  BY <1>3, CommittedMoves DEF RowsFit, Session, SameRuns
<1> QED BY <1>2, <1>4

LEMMA CallsGoOn ==
    ASSUME TypeOK, NEW w \in Workers, NEW n, NEW m,
           \A i \in 1..Len(worker[w].calls) : CallFits(worker[w], w, i, n),
           NEW rows, SameRuns(worker[w].mine, rows), NEW busy, NEW queue, NEW seen,
           NEW calls \in Seq(Call), Inherits(calls, worker[w].calls),
           \A i, s : Dispatches(calls, i, s) => m[s] = n[s]
    PROVE  \A i \in 1..Len(calls) : CallFits(Session(busy, queue, calls, seen, rows), w, i, m)
<1> SUFFICES ASSUME NEW i \in 1..Len(calls)
             PROVE  CallFits(Session(busy, queue, calls, seen, rows), w, i, m)
  OBVIOUS
<1> DEFINE old == worker[w].calls
           j == i + (Len(old) - Len(calls))
<1>0. old \in Seq(Call)
  BY DEF TypeOK, Worker
<1>1. Len(old) \in Nat /\ Len(calls) \in Nat /\ calls[i] \in Call /\ Len(calls) <= Len(old)
  BY <1>0 DEF Inherits
<1>2. j \in 1..Len(old) /\ (i = Len(calls) <=> j = Len(old))
  BY ONLY <1>1, i \in 1..Len(calls)
<1>3. /\ calls[i].op = old[j].op /\ calls[i].run = old[j].run /\ calls[i].left \subseteq old[j].left
  BY DEF Inherits
<1>4. calls[i].run \in Runs /\ calls[i].left \subseteq Steps
  BY <1>1 DEF Call
<1>5. CallFits(worker[w], w, j, n)
  BY <1>2
<1>6. \A s \in calls[i].left : calls[i].op = "dispatch" => m[s] = n[s]
  BY DEF Dispatches
<1> HIDE DEF j
<1> QED BY <1>2, <1>3, <1>4, <1>5, <1>6 DEF CallFits, Session, SameRuns

\* What a step of w may do to the rows, as the other sessions see it.
Grows(w) ==
    \A r \in Runs : db.status[r] # "absent" =>
      db'.status[r] # "absent" /\ (w # Pump => db'.group[r] = db.group[r])

\* Nobody is to dispatch a step of the run that the calls in `calls` dispatch
\* beyond those that the stack of w dispatches now.
LEMMA SessionMoves ==
    ASSUME RunsAssumption, TypeOK, StartsInv, NEW w \in Workers, NEW o \in Worker, Becomes(w, o),
           Grows(w), SessionFits(o, w, db', starts'), Begun(db', starts'),
           \A s : starts'[s] # starts[s] => \E i : Dispatches(worker[w].calls, i, s),
           \A i, j \in Nat, s \in Steps : Dispatches(o.calls, i, s) /\ Dispatches(o.calls, j, s) => i = j,
           \A i, s : Dispatches(o.calls, i, s) =>
             \/ \E j : Dispatches(worker[w].calls, j, s)
             \/ \A v \in Workers, j \in Nat : ~Dispatches(worker[v].calls, j, s)
    PROVE  StartsInv'
<1>1. worker' = [worker EXCEPT ![w] = o] /\ worker \in [Workers -> Worker]
  BY DEF Becomes, TypeOK
<1>2. worker'[w] = o /\ \A v \in Workers \ {w} : worker'[v] = worker[v]
  BY <1>1
<1>3. ASSUME NEW v \in Workers
      PROVE  SessionFits(worker'[v], v, db', starts')
  <2>1. CASE v = w
    BY <1>2, <2>1
  <2>2. CASE v # w
    <3>1. worker'[v] = worker[v] /\ worker[v] \in Worker /\ SessionFits(worker[v], v, db, starts)
      BY <1>1, <1>2, <2>2 DEF StartsInv
    <3>2. RowsFit(worker[v], v, db')
      BY <2>2, <3>1 DEF SessionFits, RowsFit, Grows
    <3>3. ASSUME NEW i \in 1..Len(worker[v].calls)
          PROVE  CallFits(worker[v], v, i, starts')
      <4>1. worker[v].calls[i] \in Call
        BY <3>1 DEF Worker
      <4>2. CallFits(worker[v], v, i, starts)
        BY <3>1 DEF SessionFits
      <4>3. ASSUME NEW s \in worker[v].calls[i].left, worker[v].calls[i].op = "dispatch"
            PROVE  starts'[s] = starts[s]
        <5>1. s \in Steps /\ Dispatches(worker[v].calls, i, s)
          BY <4>1, <4>3 DEF Dispatches, Call
        <5>2. \A j : ~Dispatches(worker[w].calls, j, s)
          BY <2>2, <5>1 DEF StartsInv, DispatchedByOne, Dispatches
        <5> QED BY <5>2
      <4> QED BY <4>1, <4>2, <4>3 DEF CallFits
    <3> QED BY <3>1, <3>2, <3>3 DEF SessionFits
  <2> QED BY <2>1, <2>2
<1>4. DispatchedByOne(worker')
  <2> SUFFICES ASSUME NEW u \in Workers, NEW v \in Workers, NEW i \in Nat, NEW j \in Nat,
                      NEW s \in Steps, Dispatches(worker'[u].calls, i, s),
                      Dispatches(worker'[v].calls, j, s)
               PROVE  u = v /\ i = j
    BY DEF DispatchedByOne
  <2>1. \A x, y \in Workers, a, b \in Nat :
          Dispatches(worker[x].calls, a, s) /\ Dispatches(worker[y].calls, b, s) => x = y /\ a = b
    BY DEF StartsInv, DispatchedByOne
  <2>2. \A a : Dispatches(worker[w].calls, a, s) => a \in Nat
    BY DEF Dispatches
  <2>3. CASE u = w /\ v = w
    BY <1>2, <2>3
  <2>4. CASE u = w /\ v # w
    BY <1>2, <2>1, <2>2, <2>4
  <2>5. CASE u # w /\ v = w
    BY <1>2, <2>1, <2>2, <2>5
  <2>6. CASE u # w /\ v # w
    BY <1>2, <2>1, <2>6
  <2> QED BY <2>3, <2>4, <2>5, <2>6
<1> QED BY <1>3, <1>4 DEF StartsInv

(* Sessions that start nothing: they go on, with a commit or without, or end. *)
LEMMA BegunCommitted ==
    ASSUME TypeOK, NEW w \in Workers, RowsFit(worker[w], w, db), Begun(db, starts), RunsAssumption
    PROVE  Begun(Committed(w), starts)
<1>1. \A r \in Runs : db.group[r] \in Nat
  BY DEF TypeOK, Rows
<1>2. \A r \in Runs : Committed(w).group[r] \in Nat
  BY CommittedOK DEF TypeOK, Rows
<1>3. \A s \in Steps : RunOf[s] \in Runs /\ Group[s] \in Nat /\ Child[s] \in Runs \cup {NoRun}
  BY DEF RunsAssumption
<1> QED BY <1>1, <1>2, <1>3, CommittedMoves DEF Begun

LEMMA GoesOn ==
    ASSUME RunsAssumption, TypeOK, TypeOK', StartsInv, NEW w \in Workers, UNCHANGED starts,
           NEW rows, SameRuns(worker[w].mine, rows),
           NEW calls \in Seq(Call), Inherits(calls, worker[w].calls),
           NEW queue \in SUBSET worker[w].queue,
           LET o == worker[w] IN
           \/ Becomes(w, Session(o.busy, queue, calls, o.seen, rows)) /\ db' = db
           \/ Becomes(w, Session(o.busy, queue, calls, o.mine, rows)) /\ db' = Committed(w)
    PROVE  StartsInv'
<1> DEFINE o == worker[w]
<1>1. SessionFits(o, w, db, starts) /\ o \in Worker
  BY DEF StartsInv, TypeOK
<1>2. PICK seen : /\ Becomes(w, Session(o.busy, queue, calls, seen, rows))
                  /\ \/ seen = o.seen /\ db' = db
                     \/ seen = o.mine /\ db' = Committed(w)
  OBVIOUS
<1> DEFINE next == Session(o.busy, queue, calls, seen, rows)
<1>3. /\ next = worker'[w] /\ next \in Worker
  BY <1>2 DEF Becomes, TypeOK
<1>4. Grows(w)
  BY <1>1, <1>2, CommittedMoves DEF Grows, SessionFits
<1>5. RowsFit(next, w, db')
  <2>1. /\ RowsFit(Session(o.busy, queue, calls, o.seen, rows), w, db)
        /\ RowsFit(Session(o.busy, queue, calls, o.mine, rows), w, Committed(w))
    BY <1>1, RowsGoOn DEF SessionFits
  <2> QED BY <1>2, <2>1
<1>6. \A i \in 1..Len(calls) : CallFits(next, w, i, starts')
  BY <1>1, CallsGoOn DEF SessionFits
<1>7. /\ next.calls = calls /\ next.busy = o.busy /\ next.queue = queue
  BY DEF Session
<1>8. SessionFits(next, w, db', starts')
  BY <1>1, <1>5, <1>6, <1>7 DEF SessionFits
<1>9. Begun(db', starts')
  BY <1>1, <1>2, BegunCommitted DEF StartsInv, SessionFits
<1>10. o.calls \in Seq(Call)
  BY <1>1 DEF Worker
<1>11. \A i, s : Dispatches(calls, i, s) => Dispatches(o.calls, i + (Len(o.calls) - Len(calls)), s)
  BY <1>10, InheritedDispatches
<1>12. \A i, j \in Nat, s \in Steps : Dispatches(calls, i, s) /\ Dispatches(calls, j, s) => i = j
  <2> SUFFICES ASSUME NEW i \in Nat, NEW j \in Nat, NEW s \in Steps,
                      Dispatches(calls, i, s), Dispatches(calls, j, s)
               PROVE  i = j
    OBVIOUS
  <2> DEFINE shift == Len(o.calls) - Len(calls)
  <2>1. Dispatches(o.calls, i + shift, s) /\ Dispatches(o.calls, j + shift, s) /\ shift \in Int
    BY <1>10, <1>11
  <2>2. i + shift \in Nat /\ j + shift \in Nat
    BY SMTT(30), <2>1 DEF Dispatches
  <2>3. \A a, b \in Nat : Dispatches(o.calls, a, s) /\ Dispatches(o.calls, b, s) => a = b
    BY DEF StartsInv, DispatchedByOne
  <2> HIDE DEF shift
  <2>4. i + shift = j + shift
    BY <2>1, <2>2, <2>3
  <2> QED BY <2>1, <2>4
<1>13. Becomes(w, next)
  BY <1>2
<1>14. \A i, s : Dispatches(next.calls, i, s) => \E j : Dispatches(worker[w].calls, j, s)
  BY <1>7, <1>11
<1> HIDE DEF next
<1> QED BY <1>3, <1>4, <1>7, <1>8, <1>9, <1>12, <1>13, <1>14, SessionMoves

LEMMA EndsStarts ==
    ASSUME RunsAssumption, TypeOK, StartsInv, NEW w \in Workers, UNCHANGED starts,
           worker' = [worker EXCEPT ![w] = Idle], db' = db \/ db' = Committed(w)
    PROVE  StartsInv'
<1>1. SessionFits(worker[w], w, db, starts)
  BY DEF StartsInv
<1>2. Grows(w)
  BY <1>1, CommittedMoves DEF Grows, SessionFits
<1>3. Begun(db', starts')
  BY <1>1, BegunCommitted DEF StartsInv, SessionFits
<1>4. SessionFits(Idle, w, db', starts')
  BY DEF SessionFits, RowsFit, Idle, Empty
<1>5. \A i, s : ~Dispatches(Idle.calls, i, s)
  BY DEF Dispatches, Idle
<1>6. Becomes(w, Idle)
  BY DEF Becomes
<1> QED BY <1>2, <1>3, <1>4, <1>5, <1>6, IdleOK, SessionMoves

(* A session that opens with rows of the database and nothing to dispatch. *)
LEMMA OpensStarts ==
    ASSUME RunsAssumption, TypeOK, StartsInv, NEW w \in Workers, UNCHANGED <<db, starts>>,
           NEW o \in Worker, Becomes(w, o), RowsFit(o, w, db),
           w = Pump => o.busy # "request" /\ o.calls = <<>>,
           w # Pump => o.busy # "pump" /\ o.queue = {},
           \A i \in 1..Len(o.calls) : /\ o.calls[i].op # "dispatch"
                                      /\ o.mine.status[o.calls[i].run] # "absent"
    PROVE  StartsInv'
<1>1. Grows(w)
  BY DEF Grows
<1>2. Begun(db', starts')
  BY DEF StartsInv
<1>3. \A i \in 1..Len(o.calls) : w # Pump /\ CallFits(o, w, i, starts')
  BY DEF CallFits
<1>4. SessionFits(o, w, db', starts')
  BY <1>3 DEF SessionFits
<1>5. \A i, s : ~Dispatches(o.calls, i, s)
  BY DEF Dispatches
<1> QED BY <1>1, <1>2, <1>4, <1>5, SessionMoves

LEMMA LoadedFits ==
    ASSUME RunsAssumption, TypeOK, NEW w \in Workers, NEW Q \in SUBSET Runs,
           \A r \in Q : db.status[r] # "absent",
           NEW mine, SameRuns(Load(Empty, Q), mine),
           NEW busy, NEW calls, NEW queue \in SUBSET Q
    PROVE  RowsFit(Session(busy, queue, calls, Load(Empty, Q), mine), w, db)
<1>1. \A r \in Runs : db.group[r] \in Nat
  BY DEF TypeOK, Rows
<1>2. \A r \in Runs : /\ Load(Empty, Q).status[r] = IF r \in Q THEN db.status[r] ELSE "absent"
                      /\ Load(Empty, Q).group[r] = IF r \in Q THEN db.group[r] ELSE 0
  BY DEF Load, Empty
<1> QED BY <1>1, <1>2 DEF RowsFit, Session, SameRuns

(* Nobody has or dispatches anything of a run that does not exist. *)
LEMMA AbsentRun ==
    ASSUME RunsAssumption, TypeOK, StartsInv, NEW r \in Runs, db.status[r] = "absent"
    PROVE  /\ \A w \in Workers : worker[w].mine.status[r] = "absent" /\ worker[w].seen.status[r] = "absent"
           /\ \A w \in Workers, i \in Nat : \A s : RunOf[s] = r => ~Dispatches(worker[w].calls, i, s)
           /\ \A s \in Steps : RunOf[s] = r => starts[s] = 0
<1>1. ASSUME NEW w \in Workers
      PROVE  worker[w].mine.status[r] = "absent" /\ worker[w].seen.status[r] = "absent"
  BY DEF StartsInv, SessionFits, RowsFit
<1>2. ASSUME NEW w \in Workers, NEW i \in Nat, NEW s, RunOf[s] = r, Dispatches(worker[w].calls, i, s)
      PROVE  FALSE
  <2>1. CallFits(worker[w], w, i, starts)
    BY <1>2 DEF StartsInv, SessionFits, Dispatches
  <2>2. worker[w].calls[i].run = r
    BY <1>2, <2>1 DEF CallFits, Dispatches
  <2> QED BY <1>1, <2>1, <2>2 DEF CallFits
<1>3. ASSUME NEW s \in Steps, RunOf[s] = r
      PROVE  starts[s] = 0
  BY <1>3 DEF StartsInv, Begun, TypeOK, RunsAssumption
<1> QED BY <1>1, <1>2, <1>3

LEMMA CreatedRows ==
    ASSUME NEW view, NEW r \in Runs, NEW q \in Runs,
           view.status \in [Runs -> RunStatuses], view.group \in [Runs -> Nat]
    PROVE  /\ Created(view, r).status[q] = IF q = r THEN "running" ELSE view.status[q]
           /\ Created(view, r).group[q] = IF q = r THEN 0 ELSE view.group[q]
  BY DEF Created

LEMMA ExecuteStarts ==
    ASSUME RunsAssumption, NestingAssumption, TypeOK, TypeOK', StartsInv, NEW w \in Callers,
           NEW r \in Runs, Execute(w, r)
    PROVE  StartsInv'
<1> DEFINE calls == <<CallOn("dispatch", r, GroupSteps(r, 0), NoStep)>>
           o == Session("request", {}, calls, Created(Empty, r), Created(Empty, r))
<1>1. w \in Workers /\ w # Pump /\ Pump \in Workers
  BY DEF Workers, RunsAssumption
<1>2. Becomes(w, o) /\ db' = Created(db, r) /\ UNCHANGED starts /\ db.status[r] = "absent" /\ Depth[r] = 0
  BY DEF Execute, Becomes, Session
<1>3. o \in Worker
  BY <1>1, <1>2 DEF Becomes, TypeOK
<1>4. \A q \in Runs : /\ db'.status[q] = IF q = r THEN "running" ELSE db.status[q]
                      /\ db'.group[q] = IF q = r THEN 0 ELSE db.group[q]
  BY <1>2, CreatedRows DEF TypeOK, Rows
<1>5. Grows(w)
  BY <1>2, <1>4 DEF Grows
<1>6. /\ \A v \in Workers, i \in Nat : \A s : RunOf[s] = r => ~Dispatches(worker[v].calls, i, s)
      /\ \A s \in Steps : RunOf[s] = r => starts[s] = 0
  BY <1>2, AbsentRun
<1>7. Begun(db', starts')
  <2>1. \A s \in Steps : RunOf[s] \in Runs /\ Child[s] \in Runs \cup {NoRun} /\ (Child[s] # NoRun => Child[s] # r)
    BY <1>2 DEF RunsAssumption, NestingAssumption
  <2> QED BY <1>2, <1>4, <1>6, <2>1 DEF StartsInv, Begun
<1>8. \A q \in Runs : /\ Created(Empty, r).status[q] = IF q = r THEN "running" ELSE "absent"
                      /\ Created(Empty, r).group[q] = 0
  BY CreatedRows DEF Empty, RunStatuses
<1>9. RowsFit(o, w, db')
  BY <1>1, <1>4, <1>8 DEF RowsFit, Session
<1>10. /\ Len(calls) = 1 /\ calls[1].op = "dispatch" /\ calls[1].run = r
       /\ \A i \in 1..Len(calls) : i = 1
       /\ calls[1].left = {s \in Steps : RunOf[s] = r /\ Group[s] = 0}
  BY DEF CallOn, GroupSteps, StepsOf
<1>11. o.calls = calls /\ o.mine = Created(Empty, r) /\ o.busy = "request" /\ o.queue = {}
  BY DEF Session
<1> HIDE DEF calls, o
<1>12. CallFits(o, w, 1, starts')
  BY <1>1, <1>2, <1>6, <1>8, <1>10, <1>11 DEF CallFits
<1>13. SessionFits(o, w, db', starts')
  BY <1>1, <1>9, <1>10, <1>11, <1>12 DEF SessionFits
<1>14. \A i, s : Dispatches(o.calls, i, s) => i = 1 /\ RunOf[s] = r
  BY <1>10, <1>11 DEF Dispatches
<1> QED BY <1>1, <1>2, <1>3, <1>5, <1>6, <1>7, <1>13, <1>14, SessionMoves

LEMMA RequestStarts ==
    ASSUME RunsAssumption, NestingAssumption, TypeOK, TypeOK', StartsInv, NEW w \in Callers, Request(w)
    PROVE  StartsInv'
<1>1. w \in Workers /\ w # Pump
  BY DEF Workers, RunsAssumption
<1>2. ASSUME NEW r \in Runs, Execute(w, r) PROVE StartsInv'
  BY <1>2, ExecuteStarts
<1>3. ASSUME NEW r \in Runs, CancelRequest(w, r) PROVE StartsInv'
  <2> DEFINE view == Load(Empty, {r})
             calls == <<CallOn("cancel", r, OpenSteps(view, r), NoStep)>>
             o == Session("request", {}, calls, view, Canceled(view, r))
  <2>1. Becomes(w, o) /\ UNCHANGED <<db, starts>> /\ db.status[r] = "running"
    BY <1>3 DEF CancelRequest, Becomes, Session
  <2>2. o \in Worker
    BY <1>1, <2>1 DEF Becomes, TypeOK
  <2>3. view \in Rows /\ view.status[r] = "running"
    <3>1. view \in Rows
      BY LoadOK, EmptyOK DEF TypeOK
    <3>2. view.status[r] = "running"
      BY <2>1 DEF Load
    <3> QED BY <3>1, <3>2
  <2>4. SameRuns(view, Canceled(view, r))
    BY <2>3 DEF SameRuns, Canceled, Rows
  <2>5. RowsFit(o, w, db)
    BY <1>1, <2>1, <2>4, LoadedFits
  <2>6. Canceled(view, r).status[r] = "canceled"
    BY <2>3 DEF Canceled, Rows
  <2>7. \A i \in 1..Len(calls) : calls[i].op # "dispatch" /\ calls[i].run = r
    BY DEF CallOn
  <2>8. /\ o.calls = calls /\ o.busy = "request" /\ o.queue = {} /\ o.mine = Canceled(view, r)
    BY DEF Session
  <2> HIDE DEF calls, o, view
  <2> QED BY <1>1, <2>1, <2>2, <2>5, <2>6, <2>7, <2>8, OpensStarts
<1>4. ASSUME NEW s \in Steps, CancelStepRequest(w, s) PROVE StartsInv'
  <2> DEFINE r == RunOf[s]
             view == Load(Empty, {r})
             calls == <<CallOn("save", r, {}, NoStep)>>
             o == Session("request", {}, calls, view, Mark(view, s, "failed"))
  <2>1. Becomes(w, o) /\ UNCHANGED <<db, starts>> /\ db.status[r] = "running" /\ r \in Runs
    BY <1>4 DEF CancelStepRequest, Becomes, Session, RunsAssumption
  <2>2. o \in Worker
    BY <1>1, <2>1 DEF Becomes, TypeOK
  <2>3. view \in Rows /\ view.status[r] = "running"
    <3>1. view \in Rows
      BY LoadOK, EmptyOK DEF TypeOK
    <3>2. view.status[r] = "running"
      BY <2>1 DEF Load
    <3> QED BY <3>1, <3>2
  <2>4. SameRuns(view, Mark(view, s, "failed")) /\ Mark(view, s, "failed").status[r] = "running"
    BY <2>3 DEF SameRuns, Mark, Rows
  <2>5. RowsFit(o, w, db)
    BY <1>1, <2>1, <2>4, LoadedFits
  <2>6. \A i \in 1..Len(calls) : calls[i].op # "dispatch" /\ calls[i].run = r
    BY DEF CallOn
  <2>7. /\ o.calls = calls /\ o.busy = "request" /\ o.queue = {} /\ o.mine = Mark(view, s, "failed")
    BY DEF Session
  <2> HIDE DEF calls, o, view
  <2> QED BY <1>1, <2>1, <2>2, <2>4, <2>5, <2>6, <2>7, OpensStarts
<1> QED BY <1>2, <1>3, <1>4 DEF Request

(* A visited step leaves the call that dispatches, and no other call has it. *)
LEMMA VisitDispatches ==
    ASSUME NEW calls \in Seq(Call), calls # <<>>, NEW s, NEW i, NEW q
    PROVE  LET visited == [calls EXCEPT ![1].left = @ \ {s}] IN
           Dispatches(visited, i, q) <=> Dispatches(calls, i, q) /\ (i = 1 => q # s)
<1> DEFINE visited == [calls EXCEPT ![1].left = @ \ {s}]
<1>1. /\ Len(visited) = Len(calls) /\ Len(calls) \in Nat /\ calls[1] \in Call
      /\ visited[1] = [calls[1] EXCEPT !.left = @ \ {s}]
      /\ \A j \in 2..Len(calls) : visited[j] = calls[j]
  BY VisitedCall, PoppedCall
<1>2. visited[1].op = calls[1].op /\ visited[1].left = calls[1].left \ {s}
  BY <1>1 DEF Call
<1> HIDE DEF visited
<1>3. Dispatches(visited, i, q) <=> Dispatches(calls, i, q) /\ (i = 1 => q # s)
  <2>1. CASE i = 1
    BY <1>1, <1>2, <2>1 DEF Dispatches
  <2>2. CASE i \in 2..Len(calls)
    BY <1>1, <2>2 DEF Dispatches
  <2>3. CASE i \notin 1..Len(calls)
    BY <1>1, <2>3 DEF Dispatches
  <2>4. i = 1 \/ i \in 2..Len(calls) \/ i \notin 1..Len(calls)
    BY <1>1
  <2> QED BY <2>1, <2>2, <2>3, <2>4
<1> QED BY <1>3 DEF visited

LEMMA CallToDispatch ==
    ASSUME NEW o, NEW w, NEW i, NEW n, NEW s, CallFits(o, w, i, n),
           o.calls[i].op = "dispatch", s \in o.calls[i].left
    PROVE  /\ RunOf[s] = o.calls[i].run /\ n[s] = 0 /\ o.mine.status[RunOf[s]] # "absent"
           /\ Group[s] = 0 \/ (w = Pump /\ Group[s] = o.mine.group[RunOf[s]])
  BY DEF CallFits

(* What is to be dispatched next, and where the database has it after a commit. *)
LEMMA NextToDispatch ==
    ASSUME RunsAssumption, TypeOK, StartsInv, NEW w \in Workers, InCall(w, "dispatch"),
           NEW s \in Now(w).left
    PROVE  /\ s \in Steps /\ Dispatches(worker[w].calls, 1, s)
           /\ \A v \in Workers, i \in Nat : Dispatches(worker[v].calls, i, s) => v = w /\ i = 1
           /\ starts[s] = 0
           /\ Committed(w).status[RunOf[s]] # "absent"
           /\ Group[s] <= Committed(w).group[RunOf[s]]
<1> DEFINE o == worker[w]
<1>1. o.calls # <<>> /\ Now(w).op = "dispatch" /\ worker \in [Workers -> Worker] /\ o.calls \in Seq(Call)
  BY DEF InCall, Now, TypeOK, Worker
<1>2. Now(w) = o.calls[1] /\ s \in Steps /\ Now(w).run \in Runs /\ Len(o.calls) \in Nat \ {0}
  BY <1>1, NowOK, PoppedCall
<1>3. Dispatches(o.calls, 1, s)
  BY <1>1, <1>2 DEF Dispatches
<1>4. SessionFits(o, w, db, starts)
  BY DEF StartsInv
<1>5. CallFits(o, w, 1, starts)
  BY <1>2, <1>4 DEF SessionFits
<1>6. /\ RunOf[s] = Now(w).run /\ starts[s] = 0 /\ o.mine.status[RunOf[s]] # "absent"
      /\ Group[s] = 0 \/ (w = Pump /\ Group[s] = o.mine.group[RunOf[s]])
  <2>1. o.calls[1].op = "dispatch" /\ s \in o.calls[1].left /\ o.calls[1].run = Now(w).run
    BY <1>1, <1>2
  <2>2. /\ RunOf[s] = o.calls[1].run /\ starts[s] = 0 /\ o.mine.status[RunOf[s]] # "absent"
        /\ Group[s] = 0 \/ (w = Pump /\ Group[s] = o.mine.group[RunOf[s]])
    BY ONLY <1>5, <2>1, CallToDispatch
  <2> QED BY ONLY <2>1, <2>2
<1>7. db.status[RunOf[s]] # "absent" /\ db.group[RunOf[s]] \in Nat
  BY <1>2, <1>4, <1>6 DEF SessionFits, RowsFit, TypeOK, Rows
<1>8. /\ Committed(w).status[RunOf[s]] # "absent"
      /\ Group[s] <= Committed(w).group[RunOf[s]]
  <2>1. Committed(w) \in Rows /\ Committed(w).group[RunOf[s]] \in Nat
    BY <1>2, <1>6, CommittedOK DEF TypeOK, Rows
  <2> QED BY <1>2, <1>4, <1>6, <1>7, <2>1, CommittedMoves DEF SessionFits
<1>9. \A v \in Workers, i \in Nat : Dispatches(worker[v].calls, i, s) => v = w /\ i = 1
  BY <1>2, <1>3 DEF StartsInv, DispatchedByOne
<1> QED BY <1>2, <1>3, <1>6, <1>8, <1>9

LEMMA MarkSame ==
    ASSUME NEW rows \in Rows, NEW s, NEW status
    PROVE  SameRuns(rows, Mark(rows, s, status))
  BY DEF SameRuns, Mark, Rows

LEMMA TaskStarts ==
    ASSUME RunsAssumption, TypeOK, TypeOK', StartsInv, NEW w \in Workers, DispatchTask(w)
    PROVE  StartsInv'
<1> DEFINE old == worker[w]
<1>1. PICK s \in Now(w).left :
           /\ Child[s] = NoRun /\ db' = Committed(w)
           /\ starts' = [starts EXCEPT ![s] = @ + 1]
           /\ CommitAndContinue(w, Mark(old.mine, s, "running"), Visited(w, s))
  BY DEF DispatchTask
<1>2. InCall(w, "dispatch")
  BY DEF DispatchTask
<1>3. /\ s \in Steps /\ Dispatches(old.calls, 1, s)
      /\ \A v \in Workers, i \in Nat : Dispatches(worker[v].calls, i, s) => v = w /\ i = 1
      /\ starts[s] = 0 /\ db'.status[RunOf[s]] # "absent" /\ Group[s] <= db'.group[RunOf[s]]
  BY <1>1, <1>2, NextToDispatch
<1>4. /\ old \in Worker /\ old.calls \in Seq(Call) /\ old.calls # <<>> /\ old.mine \in Rows
      /\ worker \in [Workers -> Worker] /\ SessionFits(old, w, db, starts)
  BY <1>2 DEF TypeOK, Worker, InCall, StartsInv
<1> DEFINE calls == Visited(w, s)
           rows == Mark(old.mine, s, "running")
           o == Session(old.busy, old.queue, calls, old.mine, rows)
<1>5. Becomes(w, o)
  BY <1>1, <1>4, ContinueBecomes
<1>6. o \in Worker
  BY <1>5 DEF Becomes, TypeOK
<1>7. calls \in Seq(Call) /\ Inherits(calls, old.calls)
  BY <1>4, VisitedCall, InheritsVisited DEF Visited
<1>8. \A i, q : Dispatches(calls, i, q) <=> Dispatches(old.calls, i, q) /\ (i = 1 => q # s)
  BY <1>4, VisitDispatches DEF Visited
<1>9. starts'[s] = 1 /\ \A q : q # s => starts'[q] = starts[q]
  BY <1>1, <1>3 DEF TypeOK
<1>10. \A i, q : Dispatches(calls, i, q) => starts'[q] = starts[q]
  <2> SUFFICES ASSUME NEW i, NEW q, Dispatches(calls, i, q) PROVE q # s
    BY <1>9
  <2>1. Dispatches(old.calls, i, q) /\ (i = 1 => q # s)
    BY <1>8
  <2>2. i \in Nat
    BY <2>1 DEF Dispatches
  <2> QED BY <1>3, <2>1, <2>2
<1>11. SameRuns(old.mine, rows)
  BY <1>4, MarkSame
<1>12. o.calls = calls /\ o.busy = old.busy /\ o.queue = old.queue
  BY DEF Session
<1>13. RowsFit(o, w, db')
  BY <1>1, <1>4, <1>11, RowsGoOn DEF SessionFits
<1> HIDE DEF calls, rows
<1>14. \A i \in 1..Len(calls) : CallFits(o, w, i, starts')
  BY <1>4, <1>7, <1>10, <1>11, CallsGoOn DEF SessionFits
<1> HIDE DEF o
<1>15. SessionFits(o, w, db', starts')
  BY <1>4, <1>12, <1>13, <1>14 DEF SessionFits
<1>16. Begun(db', starts')
  <2>1. Begun(db', starts)
    BY <1>1, <1>4, BegunCommitted DEF StartsInv, SessionFits
  <2> QED BY <1>1, <1>3, <1>9, <2>1 DEF Begun
<1>17. Grows(w)
  BY <1>1, <1>4, CommittedMoves DEF Grows, SessionFits
<1>18. \A i, j \in Nat, q \in Steps : Dispatches(o.calls, i, q) /\ Dispatches(o.calls, j, q) => i = j
  BY <1>8, <1>12 DEF StartsInv, DispatchedByOne
<1>19. \A q : starts'[q] # starts[q] => \E i : Dispatches(worker[w].calls, i, q)
  BY <1>3, <1>9
<1>20. \A i, q : Dispatches(o.calls, i, q) => \E j : Dispatches(worker[w].calls, j, q)
  BY <1>8, <1>12
<1> HIDE DEF old
<1> QED BY <1>5, <1>6, <1>15, <1>16, <1>17, <1>18, <1>19, <1>20, SessionMoves

LEMMA ChildStarts ==
    ASSUME RunsAssumption, NestingAssumption, TypeOK, TypeOK', StartsInv,
           NEW w \in Workers, StartChild(w)
    PROVE  StartsInv'
<1> DEFINE old == worker[w]
<1>1. PICK s \in Now(w).left :
           /\ Child[s] # NoRun /\ db' = Created(Committed(w), Child[s])
           /\ starts' = [starts EXCEPT ![s] = @ + 1]
           /\ worker' = [worker EXCEPT
                ![w].seen = Created(old.mine, Child[s]), ![w].mine = Created(old.mine, Child[s]),
                ![w].calls = <<CallOn("dispatch", Child[s], GroupSteps(Child[s], 0), s)>>
                             \o Visited(w, s)]
  BY DEF StartChild
<1>2. InCall(w, "dispatch")
  BY DEF StartChild
<1>3. /\ s \in Steps /\ Dispatches(old.calls, 1, s)
      /\ \A v \in Workers, i \in Nat : Dispatches(worker[v].calls, i, s) => v = w /\ i = 1
      /\ starts[s] = 0
      /\ Committed(w).status[RunOf[s]] # "absent" /\ Group[s] <= Committed(w).group[RunOf[s]]
  BY <1>1, <1>2, NextToDispatch
<1>4. /\ old \in Worker /\ old.calls \in Seq(Call) /\ old.calls # <<>> /\ old.mine \in Rows
      /\ worker \in [Workers -> Worker] /\ SessionFits(old, w, db, starts)
      /\ Committed(w) \in Rows
  BY <1>2, CommittedOK DEF TypeOK, Worker, InCall, StartsInv
<1>5. PICK c \in Runs : c = Child[s]
  BY <1>1, <1>3 DEF RunsAssumption
<1> DEFINE rest == Visited(w, s)
           top == CallOn("dispatch", c, GroupSteps(c, 0), s)
           calls == <<top>> \o rest
           rows == Created(old.mine, c)
           o == Session(old.busy, old.queue, calls, rows, rows)
\* The child run is new to everybody.
<1>6. db.status[c] = "absent"
  BY <1>1, <1>3, <1>5 DEF StartsInv, Begun
<1>7. /\ \A v \in Workers : worker[v].mine.status[c] = "absent"
      /\ \A v \in Workers, i \in Nat : \A q : RunOf[q] = c => ~Dispatches(worker[v].calls, i, q)
      /\ \A q \in Steps : RunOf[q] = c => starts[q] = 0
  BY <1>6, AbsentRun
<1>8. Becomes(w, o)
  BY <1>1, <1>4, <1>5, PushedBecomes
<1>9. o \in Worker
  BY <1>8 DEF Becomes, TypeOK
\* Its call is on top of those of the session.
<1>10. rest \in Seq(Call) /\ Inherits(rest, old.calls)
  BY <1>4, VisitedCall, InheritsVisited DEF Visited
<1>11. top \in Call /\ top.op = "dispatch" /\ top.run = c
       /\ top.left = {q \in Steps : RunOf[q] = c /\ Group[q] = 0}
  <2>1. GroupSteps(c, 0) = {q \in Steps : RunOf[q] = c /\ Group[q] = 0}
    BY DEF GroupSteps, StepsOf
  <2> QED BY <1>3, <2>1, CallOK DEF CallOn
<1> HIDE DEF rest, top
<1>12. /\ Len(calls) = Len(rest) + 1 /\ calls[1] = top /\ Len(rest) \in Nat
       /\ \A i \in 1..Len(rest) : calls[i + 1] = rest[i]
  BY <1>10, <1>11, PushedCall
<1>13. \A i, q : Dispatches(rest, i, q) <=> Dispatches(old.calls, i, q) /\ (i = 1 => q # s)
  BY <1>4, VisitDispatches DEF Visited, rest
<1> HIDE DEF calls
<1>14. \A i \in 1..Len(calls) : i = 1 \/ (i - 1 \in 1..Len(rest) /\ calls[i] = rest[i - 1])
  <2> SUFFICES ASSUME NEW i \in 1..Len(calls), i # 1
               PROVE  i - 1 \in 1..Len(rest) /\ calls[i] = rest[i - 1]
    OBVIOUS
  <2>1. i - 1 \in 1..Len(rest) /\ (i - 1) + 1 = i
    BY <1>12
  <2> QED BY <1>12, <2>1
<1>15. \A i, q : Dispatches(calls, i, q) =>
            \/ i = 1 /\ q \in top.left
            \/ i \in Nat \ {1} /\ Dispatches(rest, i - 1, q)
  <2> SUFFICES ASSUME NEW i, NEW q, Dispatches(calls, i, q), i # 1
               PROVE  i \in Nat /\ Dispatches(rest, i - 1, q)
    BY <1>12 DEF Dispatches
  <2>1. i \in 1..Len(calls) /\ Len(calls) \in Nat
    BY <1>12 DEF Dispatches
  <2>2. i \in Nat
    BY <2>1
  <2>3. i - 1 \in 1..Len(rest) /\ calls[i] = rest[i - 1]
    BY <1>14, <2>1
  <2> QED BY <2>2, <2>3 DEF Dispatches
<1>16. starts'[s] = 1 /\ \A q : q # s => starts'[q] = starts[q]
  <2>1. starts \in [Steps -> 0..MaxStarts]
    BY DEF TypeOK
  <2> QED BY <1>1, <1>3, <2>1
<1>17. RunOf[s] # c
  BY <1>2, <1>3, <1>7
<1>18. \A i, q : Dispatches(rest, i, q) => q # s
  <2> SUFFICES ASSUME NEW i, Dispatches(rest, i, s) PROVE FALSE
    OBVIOUS
  <2>1. Dispatches(old.calls, i, s) /\ i # 1
    BY <1>13
  <2>2. i \in Nat
    BY <2>1 DEF Dispatches
  <2> QED BY <1>3, <2>1, <2>2
\* Rows.
<1>19. /\ \A r \in Runs : /\ rows.status[r] = IF r = c THEN "running" ELSE old.mine.status[r]
                          /\ rows.group[r] = IF r = c THEN 0 ELSE old.mine.group[r]
       /\ \A r \in Runs : /\ db'.status[r] = IF r = c THEN "running" ELSE Committed(w).status[r]
                          /\ db'.group[r] = IF r = c THEN 0 ELSE Committed(w).group[r]
  <2>1. db' = Created(Committed(w), c)
    BY <1>1, <1>5
  <2>2. /\ old.mine.status \in [Runs -> RunStatuses] /\ old.mine.group \in [Runs -> Nat]
        /\ Committed(w).status \in [Runs -> RunStatuses] /\ Committed(w).group \in [Runs -> Nat]
    BY <1>4 DEF Rows
  <2> HIDE DEF old
  <2> QED BY <2>1, <2>2, CreatedRows
<1> HIDE DEF rows
<1>20. SameRuns(old.mine, old.mine)
  BY DEF SameRuns
<1>21. RowsFit(Session(old.busy, old.queue, calls, old.mine, old.mine), w, Committed(w))
  BY <1>4, <1>20, RowsGoOn DEF SessionFits
<1>22. RowsFit(o, w, db')
  <2>1. c \notin old.queue
    BY <1>4, <1>7 DEF SessionFits, RowsFit
  <2> QED BY <1>19, <1>21, <2>1 DEF RowsFit, Session
<1>23. ASSUME NEW i \in 1..Len(calls)
       PROVE  CallFits(o, w, i, starts')
  <2>1. o.calls = calls /\ o.mine = rows
    BY DEF Session
  <2>2. CASE i = 1
    <3>1. \A q \in top.left : starts'[q] = 0
      BY <1>7, <1>11, <1>16, <1>17
    <3> QED BY <1>11, <1>12, <1>19, <2>1, <2>2, <3>1 DEF CallFits
  <2>3. CASE i # 1
    <3>1. i - 1 \in 1..Len(rest) /\ calls[i] = rest[i - 1] /\ (i - 1 = Len(rest) <=> i = Len(calls))
      BY <1>12, <1>14, <2>3
    <3>2. \A j, q : Dispatches(rest, j, q) => starts'[q] = starts[q]
      BY <1>16, <1>18
    <3>3. CallFits(Session(old.busy, old.queue, rest, old.mine, old.mine), w, i - 1, starts')
      BY <1>4, <1>10, <1>20, <3>1, <3>2, CallsGoOn DEF SessionFits
    <3>4. rest[i - 1] \in Call /\ rest[i - 1].run # c
      <4>1. rest[i - 1] \in Call
        BY <1>10, <3>1
      <4>2. old.mine.status[rest[i - 1].run] # "absent"
        BY <3>3 DEF CallFits, Session
      <4> QED BY <1>7, <4>1, <4>2
    <3> DEFINE d == rest[i - 1]
    <3>5. /\ rows.status[d.run] = old.mine.status[d.run] /\ rows.group[d.run] = old.mine.group[d.run]
      BY <1>19, <3>4 DEF Call
    <3> HIDE DEF o
    <3> QED BY <2>1, <3>1, <3>3, <3>5 DEF CallFits, Session
  <2> QED BY <2>2, <2>3
<1>24. o.calls = calls /\ o.busy = old.busy /\ o.queue = old.queue
  BY DEF Session
<1> HIDE DEF o
<1>25. SessionFits(o, w, db', starts')
  BY <1>4, <1>22, <1>23, <1>24 DEF SessionFits
<1>26. Begun(db', starts')
  <2>1. Begun(Committed(w), starts)
    BY <1>4, BegunCommitted DEF StartsInv, SessionFits
  <2>2. ASSUME NEW q \in Steps
        PROVE  /\ starts'[q] > 0 => starts'[q] = 1 /\ db'.status[RunOf[q]] # "absent"
                                                   /\ Group[q] <= db'.group[RunOf[q]]
               /\ starts'[q] = 0 /\ Child[q] # NoRun => db'.status[Child[q]] = "absent"
    <3>1. RunOf[q] \in Runs /\ Child[q] \in Runs \cup {NoRun} /\ (Child[q] = c => q = s)
      BY <1>1, <1>3, <1>5 DEF RunsAssumption, NestingAssumption
    <3>2. RunOf[q] = c => starts'[q] = 0
      BY <1>7, <1>16, <1>17
    <3>3. CASE q = s
      BY <1>3, <1>16, <1>17, <1>19, <3>1, <3>3
    <3>4. CASE q # s
      BY <1>16, <1>19, <2>1, <3>1, <3>2, <3>4 DEF Begun
    <3> QED BY <3>3, <3>4
  <2> QED BY <2>2 DEF Begun
<1>27. Grows(w)
  BY SMTT(30), <1>4, <1>6, <1>19, CommittedMoves DEF Grows, SessionFits
<1>28. \A i, j \in Nat, q \in Steps : Dispatches(o.calls, i, q) /\ Dispatches(o.calls, j, q) => i = j
  <2> SUFFICES ASSUME NEW i \in Nat, NEW j \in Nat, NEW q \in Steps,
                      Dispatches(calls, i, q), Dispatches(calls, j, q)
               PROVE  i = j
    BY <1>24
  <2>1. \A a \in Nat : Dispatches(rest, a, q) => Dispatches(old.calls, a, q) /\ RunOf[q] # c
    BY <1>7, <1>13
  <2>2. \A a \in Nat : Dispatches(calls, a, q) =>
          \/ a = 1 /\ RunOf[q] = c
          \/ a # 1 /\ a - 1 \in Nat /\ Dispatches(rest, a - 1, q) /\ RunOf[q] # c
    <3> SUFFICES ASSUME NEW a \in Nat, Dispatches(calls, a, q)
                 PROVE  \/ a = 1 /\ RunOf[q] = c
                        \/ a # 1 /\ a - 1 \in Nat /\ Dispatches(rest, a - 1, q) /\ RunOf[q] # c
      OBVIOUS
    <3>1. \/ a = 1 /\ RunOf[q] = c
          \/ a # 1 /\ Dispatches(rest, a - 1, q)
      BY <1>11, <1>15
    <3>2. Dispatches(rest, a - 1, q) => a - 1 \in Nat
      BY DEF Dispatches
    <3> QED BY <2>1, <3>1, <3>2
  <2>3. CASE i = 1 \/ j = 1
    BY <2>2, <2>3
  <2>4. CASE i # 1 /\ j # 1
    <3>1. /\ i - 1 \in Nat /\ Dispatches(old.calls, i - 1, q)
          /\ j - 1 \in Nat /\ Dispatches(old.calls, j - 1, q)
      BY <2>1, <2>2, <2>4
    <3>2. \A a, b \in Nat : Dispatches(old.calls, a, q) /\ Dispatches(old.calls, b, q) => a = b
      BY DEF StartsInv, DispatchedByOne
    <3>3. i - 1 = j - 1
      BY <3>1, <3>2
    <3> QED BY <3>3
  <2> QED BY <2>3, <2>4
<1>29. \A q : starts'[q] # starts[q] => \E i : Dispatches(worker[w].calls, i, q)
  BY <1>3, <1>16
<1>30. \A i, q : Dispatches(o.calls, i, q) =>
         \/ \E j : Dispatches(worker[w].calls, j, q)
         \/ \A v \in Workers, j \in Nat : ~Dispatches(worker[v].calls, j, q)
  BY ZenonT(30), <1>7, <1>11, <1>13, <1>15, <1>24
<1> HIDE DEF old
<1> QED BY <1>8, <1>9, <1>25, <1>26, <1>27, <1>28, <1>29, <1>30, SessionMoves

LEMMA StatusSame ==
    ASSUME NEW rows \in Rows, NEW r, rows.status[r] # "absent",
           NEW status \in RunStatuses \ {"absent"}
    PROVE  SameRuns(rows, [rows EXCEPT !.status[r] = status])
  BY DEF SameRuns, Rows

LEMMA ProceedStarts ==
    ASSUME RunsAssumption, NestingAssumption, TypeOK, TypeOK', StartsInv, NEW w \in Workers, Proceed(w)
    PROVE  StartsInv'
<1> DEFINE o == worker[w]
<1>1. /\ worker \in [Workers -> Worker] /\ o \in Worker /\ o.calls \in Seq(Call) /\ o.mine \in Rows
      /\ o.seen \in Rows /\ SessionFits(o, w, db, starts) /\ o.queue \in SUBSET o.queue
      /\ SameRuns(o.mine, o.mine)
  BY DEF TypeOK, Worker, StartsInv, SameRuns
<1>2. o.calls # <<>>
  BY DEF Proceed, DispatchTask, StartChild, DispatchFails, Return, CancelStep, InCall
<1>3. \A s, status : SameRuns(o.mine, Mark(o.mine, s, status))
  BY <1>1, MarkSame
<1>4. \A s : Visited(w, s) \in Seq(Call) /\ Inherits(Visited(w, s), o.calls)
  BY <1>1, <1>2, VisitedCall, InheritsVisited DEF Visited
<1>5. Tail(o.calls) \in Seq(Call) /\ Inherits(Tail(o.calls), o.calls)
  BY <1>1, <1>2, PoppedCall, InheritsTail
<1>6. CASE DispatchTask(w)
  BY <1>6, TaskStarts
<1>7. CASE StartChild(w)
  BY <1>7, ChildStarts
<1>8. CASE DispatchFails(w)
  <2>1. UNCHANGED starts
    BY <1>8 DEF DispatchFails
  <2>2. PICK s :
             \/ Continue(w, Mark(o.mine, s, "failed"), Visited(w, s)) /\ db' = db
             \/ /\ db' = Committed(w)
                /\ CommitAndContinue(w, Mark(o.mine, s, "failed"), Visited(w, s))
    BY <1>8 DEF DispatchFails
  <2> DEFINE rows == Mark(o.mine, s, "failed")
  <2>3. \/ Becomes(w, Session(o.busy, o.queue, Visited(w, s), o.seen, rows)) /\ db' = db
        \/ Becomes(w, Session(o.busy, o.queue, Visited(w, s), o.mine, rows)) /\ db' = Committed(w)
    BY <1>1, <2>2, ContinueBecomes
  <2>4. SameRuns(o.mine, rows)
    BY <1>3
  <2> HIDE DEF rows, o
  <2> QED BY <1>1, <1>4, <2>1, <2>3, <2>4, GoesOn DEF o
<1>9. CASE Return(w)
  <2>1. UNCHANGED starts /\ db' = Committed(w)
    BY <1>9 DEF Return
  <2>2. CASE worker' = [worker EXCEPT ![w] = Idle]
    BY <2>1, <2>2, EndsStarts
  <2>3. CASE worker' # [worker EXCEPT ![w] = Idle]
    <3>1. PICK rows : SameRuns(o.mine, rows) /\ CommitAndContinue(w, rows, Tail(o.calls))
      BY <1>1, <1>3, <1>9, <2>3 DEF Return
    <3>2. Becomes(w, Session(o.busy, o.queue, Tail(o.calls), o.mine, rows))
      BY <1>1, <3>1, ContinueBecomes
    <3> HIDE DEF o
    <3> QED BY <1>1, <1>5, <2>1, <3>1, <3>2, GoesOn DEF o
  <2> QED BY <2>2, <2>3
<1>10. CASE CancelStep(w)
  <2>1. UNCHANGED <<db, starts>> /\ InCall(w, "cancel")
    BY <1>10 DEF CancelStep
  <2>2. w # Pump
    <3>1. 1 \in 1..Len(o.calls) /\ o.calls[1].op = "cancel"
      BY <1>1, <1>2, <2>1, PoppedCall DEF InCall
    <3> QED BY <1>1, <3>1 DEF SessionFits, CallFits
  <2>3. PICK s \in Now(w).left, c \in Runs \cup {NoRun} :
          LET rows == Mark(o.mine, s, "failed") IN
             \/ c = NoRun /\ Continue(w, rows, Visited(w, s))
             \/ /\ c \in Runs /\ db.status[c] = "running"
                /\ worker' = [worker EXCEPT
                     ![w].seen = Load(o.seen, {c}),
                     ![w].mine = Canceled(Load(rows, {c}), c),
                     ![w].calls = <<CallOn("cancel", c, OpenSteps(db, c), NoStep)>> \o Visited(w, s)]
             \/ worker' = [worker EXCEPT ![w] = Idle]
    <3>1. PICK s \in Now(w).left :
          LET c == IF o.mine.step[s] = "running" THEN Child[s] ELSE NoRun
              rows == Mark(o.mine, s, "failed") IN
             \/ c = NoRun /\ Continue(w, rows, Visited(w, s))
             \/ /\ c # NoRun /\ db.status[c] = "running"
                /\ worker' = [worker EXCEPT
                     ![w].seen = Load(o.seen, {c}),
                     ![w].mine = Canceled(Load(rows, {c}), c),
                     ![w].calls = <<CallOn("cancel", c, OpenSteps(db, c), NoStep)>> \o Visited(w, s)]
             \/ worker' = [worker EXCEPT ![w] = Idle]
      BY <1>10 DEF CancelStep
    <3>2. (IF o.mine.step[s] = "running" THEN Child[s] ELSE NoRun) \in Runs \cup {NoRun}
      BY <1>1, <1>2, NowOK DEF RunsAssumption
    <3> QED BY <3>1, <3>2
  <2> DEFINE rows == Mark(o.mine, s, "failed")
  <2>4. CASE Continue(w, rows, Visited(w, s))
    <3>1. Becomes(w, Session(o.busy, o.queue, Visited(w, s), o.seen, rows))
      BY <1>1, <2>4, ContinueBecomes
    <3>2. SameRuns(o.mine, rows)
      BY <1>3
    <3> HIDE DEF rows, o
    <3> QED BY <1>1, <1>4, <2>1, <3>1, <3>2, GoesOn DEF o
  <2>5. CASE worker' = [worker EXCEPT ![w] = Idle]
    BY <2>1, <2>5, EndsStarts
  <2>6. CASE /\ c \in Runs /\ db.status[c] = "running"
             /\ worker' = [worker EXCEPT
                  ![w].seen = Load(o.seen, {c}),
                  ![w].mine = Canceled(Load(rows, {c}), c),
                  ![w].calls = <<CallOn("cancel", c, OpenSteps(db, c), NoStep)>> \o Visited(w, s)]
    <3> DEFINE rest == Visited(w, s)
               top == CallOn("cancel", c, OpenSteps(db, c), NoStep)
               calls == <<top>> \o rest
               seen == Load(o.seen, {c})
               mine == Canceled(Load(rows, {c}), c)
               next == Session(o.busy, o.queue, calls, seen, mine)
    <3>1. Becomes(w, next)
      BY <1>1, <2>6, PushedBecomes
    <3>2. next \in Worker
      BY <3>1 DEF Becomes, TypeOK
    <3>3. /\ \A r \in Runs : seen.status[r] = (IF r = c THEN "running" ELSE o.seen.status[r])
          /\ \A r \in Runs : seen.group[r] = (IF r = c THEN db.group[c] ELSE o.seen.group[r])
      BY <2>6 DEF Load
    <3>4. /\ \A r \in Runs : mine.status[r] = (IF r = c THEN "canceled" ELSE rows.status[r])
          /\ \A r \in Runs : mine.group[r] = (IF r = c THEN db.group[c] ELSE rows.group[r])
      BY <2>6 DEF Load, Canceled
    <3>5. SameRuns(o.mine, rows)
      BY <1>3
    <3>6. next.queue = o.queue /\ next.seen = seen /\ next.mine = mine /\ next.busy = o.busy
          /\ next.calls = calls
      BY DEF Session
    <3>7. o.queue = {}
      BY <1>1, <2>2 DEF SessionFits
    <3> HIDE DEF seen, mine, rows, next
    <3>8. RowsFit(next, w, db)
      <4>1. RowsFit(o, w, db)
        BY <1>1 DEF SessionFits
      <4> HIDE DEF o
      <4>2. ASSUME NEW r \in Runs
            PROVE  /\ mine.status[r] # "absent" => db.status[r] # "absent"
                   /\ mine.status[r] = "absent" => seen.status[r] = "absent"
                   /\ mine.group[r] = seen.group[r]
        <5>1. CASE r = c
          BY <2>6, <3>3, <3>4, <5>1
        <5>2. CASE r # c
          BY <2>2, <3>3, <3>4, <3>5, <4>1, <5>2 DEF RowsFit, SameRuns
        <5> QED BY <5>1, <5>2
      <4> QED BY <2>2, <3>6, <3>7, <4>2 DEF RowsFit
    <3>9. rest \in Seq(Call) /\ Inherits(rest, o.calls)
      BY <1>4
    <3>10. top \in Call /\ top.op = "cancel" /\ top.run = c
      BY <2>6, CallOK, GroupStepsOK DEF CallOn, OpenSteps
    <3> HIDE DEF rest, top
    <3>11. /\ Len(calls) = Len(rest) + 1 /\ calls[1] = top /\ Len(rest) \in Nat
           /\ \A i \in 1..Len(rest) : calls[i + 1] = rest[i]
      BY <3>9, <3>10, PushedCall
    <3> HIDE DEF calls
    <3>12. ASSUME NEW i \in 1..Len(calls), i # 1
           PROVE  i - 1 \in 1..Len(rest) /\ calls[i] = rest[i - 1] /\ i - 1 \in Nat
      <4>1. i - 1 \in 1..Len(rest) /\ (i - 1) + 1 = i /\ i - 1 \in Nat
        BY <3>11, <3>12
      <4> QED BY <3>11, <4>1
    <3>13. \A i \in 1..Len(rest) : CallFits(Session(o.busy, o.queue, rest, o.seen, o.mine), w, i, starts)
      BY <1>1, <3>9, CallsGoOn DEF SessionFits
    <3>14. \A i \in 1..Len(rest) : rest[i] \in Call
      BY <3>9
    <3>15. ASSUME NEW i \in 1..Len(calls)
           PROVE  CallFits(next, w, i, starts')
      <4>1. CASE i = 1
        BY <2>2, <2>6, <3>4, <3>6, <3>10, <3>11, <4>1 DEF CallFits
      <4>2. CASE i # 1
        <5>1. i - 1 \in 1..Len(rest) /\ calls[i] = rest[i - 1]
          BY <3>12, <4>2
        <5>2. CallFits(Session(o.busy, o.queue, rest, o.seen, o.mine), w, i - 1, starts)
          BY <3>13, <5>1
        <5>3. rest[i - 1].run \in Runs
          BY <3>14, <5>1 DEF Call
        <5>4. mine.status[rest[i - 1].run] # "absent"
          <6>1. o.mine.status[rest[i - 1].run] # "absent"
            BY <5>2 DEF CallFits, Session
          <6> QED BY ZenonT(30), <3>4, <3>5, <5>3, <6>1 DEF SameRuns
        <5> HIDE DEF o
        <5> QED BY <2>1, <2>2, <3>6, <5>1, <5>2, <5>4 DEF CallFits, Session
      <4> QED BY <4>1, <4>2
    <3>16. SessionFits(next, w, db', starts')
      BY <1>1, <2>1, <3>6, <3>8, <3>15 DEF SessionFits
    <3>17. ASSUME NEW i, NEW q, Dispatches(calls, i, q)
           PROVE  /\ i \in Nat \ {1}
                  /\ Dispatches(o.calls, (i - 1) + (Len(o.calls) - Len(rest)), q)
      <4>1. i \in 1..Len(calls) /\ i # 1
        BY <3>10, <3>11, <3>17 DEF Dispatches
      <4>2. Dispatches(rest, i - 1, q)
        BY <3>12, <3>17, <4>1 DEF Dispatches
      <4>3. i \in Nat
        BY <3>11, <4>1
      <4> QED BY <1>1, <3>9, <4>1, <4>2, <4>3, InheritedDispatches
    <3>18. \A i, j \in Nat, q \in Steps : Dispatches(calls, i, q) /\ Dispatches(calls, j, q) => i = j
      <4> SUFFICES ASSUME NEW i \in Nat, NEW j \in Nat, NEW q \in Steps,
                          Dispatches(calls, i, q), Dispatches(calls, j, q)
                   PROVE  i = j
        OBVIOUS
      <4> DEFINE shift == Len(o.calls) - Len(rest)
      <4>1. Dispatches(o.calls, (i - 1) + shift, q) /\ Dispatches(o.calls, (j - 1) + shift, q)
        BY <3>17
      <4>2. shift \in Int
        BY <1>1, <3>11
      <4>3. \A a, b \in Nat : Dispatches(o.calls, a, q) /\ Dispatches(o.calls, b, q) => a = b
        BY DEF StartsInv, DispatchedByOne
      <4>4. \A a : Dispatches(o.calls, a, q) => a \in Nat
        BY DEF Dispatches
      <4> HIDE DEF shift, o
      <4>5. (i - 1) + shift = (j - 1) + shift
        BY <4>1, <4>3, <4>4
      <4> QED BY <4>2, <4>5
    <3>19. Grows(w) /\ Begun(db', starts')
      BY <2>1 DEF Grows, StartsInv
    <3>20. \A i, q : Dispatches(next.calls, i, q) => \E j : Dispatches(worker[w].calls, j, q)
      BY <3>6, <3>17
    <3>21. \A i, j \in Nat, q \in Steps : Dispatches(next.calls, i, q) /\ Dispatches(next.calls, j, q) => i = j
      BY <3>6, <3>18
    <3> HIDE DEF o
    <3> QED BY <2>1, <3>1, <3>2, <3>16, <3>19, <3>20, <3>21, SessionMoves
  <2> QED BY <2>3, <2>4, <2>5, <2>6
<1> QED BY <1>6, <1>7, <1>8, <1>9, <1>10 DEF Proceed

(* The pump leaves a run with its calls done: nothing new to dispatch. *)
LEMMA PumpedStarts ==
    ASSUME RunsAssumption, TypeOK, TypeOK', StartsInv, NEW r \in Runs,
           NEW rows, SameRuns(worker[Pump].mine, rows), Pumped(r, rows, <<>>)
    PROVE  StartsInv'
<1> DEFINE o == worker[Pump]
<1>1. Pump \in Workers /\ worker \in [Workers -> Worker] /\ o \in Worker /\ o.calls \in Seq(Call)
  BY DEF TypeOK, Worker, Workers
<1>2. Becomes(Pump, Session(o.busy, o.queue \ {r}, <<>>, o.seen, rows))
  BY <1>1, PumpedBecomes
<1>3. UNCHANGED <<db, starts>>
  BY DEF Pumped
<1>4. <<>> \in Seq(Call) /\ Inherits(<<>>, o.calls) /\ o.queue \ {r} \in SUBSET o.queue
  BY <1>1, InheritsNone
<1> HIDE DEF o
<1> QED BY <1>1, <1>2, <1>3, <1>4, GoesOn DEF o

(* The pump moves run r to group g and is to dispatch it. *)
LEMMA NextGroupStarts ==
    ASSUME RunsAssumption, TypeOK, TypeOK', StartsInv, NEW r \in Runs, NEW g \in Nat, NEW rows,
           r \in worker[Pump].queue, worker[Pump].calls = <<>>,
           g > worker[Pump].mine.group[r], SameRuns(worker[Pump].mine, rows), rows \in Rows,
           Pumped(r, [rows EXCEPT !.group[r] = g], <<CallOn("dispatch", r, GroupSteps(r, g), NoStep)>>)
    PROVE  StartsInv'
<1> DEFINE o == worker[Pump]
           mine == [rows EXCEPT !.group[r] = g]
           top == CallOn("dispatch", r, GroupSteps(r, g), NoStep)
           calls == <<top>>
           next == Session(o.busy, o.queue \ {r}, calls, o.seen, mine)
<1>1. /\ Pump \in Workers /\ worker \in [Workers -> Worker] /\ o \in Worker
      /\ SessionFits(o, Pump, db, starts) /\ RowsFit(o, Pump, db) /\ db \in Rows
  BY DEF TypeOK, Worker, Workers, StartsInv, SessionFits
<1>2. Becomes(Pump, next) /\ UNCHANGED <<db, starts>>
  BY <1>1, PumpedBecomes DEF Pumped
<1>3. next \in Worker
  BY <1>1, <1>2 DEF Becomes, TypeOK
<1>4. /\ o.mine.status[r] # "absent" /\ db.group[r] = o.mine.group[r] /\ o.seen.group[r] = db.group[r]
      /\ db.status[r] # "absent" /\ rows.status[r] # "absent"
      /\ db.group[r] \in Nat /\ g > db.group[r]
  <2>1. o.mine.status[r] # "absent" /\ o.mine.group[r] = o.seen.group[r]
    BY <1>1 DEF RowsFit
  <2>2. db.status[r] # "absent" /\ o.seen.group[r] = db.group[r]
    BY <1>1, <2>1 DEF RowsFit
  <2> QED BY <1>1, <2>1, <2>2 DEF SameRuns, Rows
<1>5. /\ \A q \in Runs : mine.status[q] = rows.status[q]
      /\ \A q \in Runs : mine.group[q] = IF q = r THEN g ELSE rows.group[q]
  BY DEF Rows
<1>6. \A q \in Runs : db.group[q] \in Nat
  BY <1>1 DEF Rows
<1>7. /\ next.calls = calls /\ next.mine = mine /\ next.seen = o.seen /\ next.busy = o.busy
      /\ next.queue = o.queue \ {r}
  BY DEF Session
<1>8. /\ top.op = "dispatch" /\ top.run = r /\ Len(calls) = 1 /\ calls[1] = top
      /\ \A i \in 1..Len(calls) : i = 1
      /\ top.left = {s \in Steps : RunOf[s] = r /\ Group[s] = g}
  BY DEF CallOn, GroupSteps, StepsOf
<1> HIDE DEF mine, top, calls, next
<1>9. RowsFit(next, Pump, db)
  <2>1. ASSUME NEW q \in Runs
        PROVE  /\ mine.status[q] # "absent" => db.status[q] # "absent"
               /\ mine.status[q] = "absent" => o.seen.status[q] = "absent" /\ mine.group[q] = o.seen.group[q]
               /\ mine.status[q] # "absent" =>
                    o.seen.group[q] = db.group[q] /\ db.group[q] <= mine.group[q]
               /\ q \in o.queue \ {r} => mine.status[q] # "absent" /\ mine.group[q] = o.seen.group[q]
    <3>1. CASE q = r
      BY <1>4, <1>5, <3>1
    <3>2. CASE q # r
      BY <1>1, <1>5, <3>2 DEF RowsFit, SameRuns
    <3> QED BY <3>1, <3>2
  <2> HIDE DEF o
  <2> QED BY <1>7, <2>1 DEF RowsFit
\* Nothing of a later group was started, and nobody dispatches it.
<1>10. \A s \in top.left : s \in Steps /\ starts[s] = 0
  <2>1. \A s \in Steps : starts[s] \in Nat /\ Group[s] \in Nat
    BY DEF TypeOK, RunsAssumption
  <2>2. \A s \in Steps : starts[s] > 0 => Group[s] <= db.group[RunOf[s]]
    BY DEF StartsInv, Begun
  <2>3. \A s \in top.left : s \in Steps /\ RunOf[s] = r /\ Group[s] = g
    BY ONLY <1>8
  <2>4. g > db.group[r] /\ db.group[r] \in Nat
    BY <1>4
  <2> QED BY ONLY <2>1, <2>2, <2>3, <2>4, g \in Nat
<1>11. \A v \in Workers, j \in Nat : \A s \in top.left : ~Dispatches(worker[v].calls, j, s)
  <2> SUFFICES ASSUME NEW v \in Workers, NEW j \in Nat, NEW s \in top.left,
                      Dispatches(worker[v].calls, j, s)
               PROVE  FALSE
    OBVIOUS
  <2>1. j \in 1..Len(worker[v].calls)
    BY DEF Dispatches
  <2>2. v # Pump
    BY <2>1
  <2>3. CallFits(worker[v], v, j, starts)
    BY <2>1 DEF StartsInv, SessionFits
  <2>4. worker[v].calls[j].op = "dispatch" /\ s \in worker[v].calls[j].left
    BY DEF Dispatches
  <2>5. Group[s] = 0
    BY ONLY <2>2, <2>3, <2>4 DEF CallFits
  <2>6. Group[s] = g
    BY <1>8
  <2> HIDE DEF o
  <2> QED BY <1>4, <2>5, <2>6
<1>12. \A i \in 1..Len(calls) : CallFits(next, Pump, i, starts')
  BY <1>2, <1>4, <1>5, <1>7, <1>8, <1>10 DEF CallFits, SameRuns
<1>13. SessionFits(next, Pump, db', starts')
  BY <1>1, <1>2, <1>7, <1>9, <1>12 DEF SessionFits
<1>14. Grows(Pump) /\ Begun(db', starts')
  BY <1>2 DEF Grows, StartsInv
<1>15. \A i, s : Dispatches(next.calls, i, s) => i = 1 /\ s \in top.left
  BY <1>7, <1>8 DEF Dispatches
<1>16. \A i, j \in Nat, s \in Steps : Dispatches(next.calls, i, s) /\ Dispatches(next.calls, j, s) => i = j
  BY <1>15
<1>17. \A i, s : Dispatches(next.calls, i, s) =>
         \A v \in Workers, j \in Nat : ~Dispatches(worker[v].calls, j, s)
  BY <1>11, <1>15
<1> HIDE DEF o
<1> QED BY <1>1, <1>2, <1>3, <1>13, <1>14, <1>16, <1>17, SessionMoves

LEMMA PumpStarts ==
    ASSUME RunsAssumption, TypeOK, TypeOK', StartsInv,
           PumpBegin \/ PumpEnd \/ \E r \in Runs : PumpTurn(r)
    PROVE  StartsInv'
<1> DEFINE o == worker[Pump]
<1>1. /\ Pump \in Workers /\ worker \in [Workers -> Worker] /\ o \in Worker /\ o.mine \in Rows
      /\ SessionFits(o, Pump, db, starts) /\ SameRuns(o.mine, o.mine)
  BY DEF TypeOK, Worker, Workers, StartsInv, SameRuns
<1>2. CASE PumpBegin
  <2>1. PICK Q \in SUBSET {r \in Runs : db.status[r] = "running"} :
             Becomes(Pump, Session("pump", Q, <<>>, Load(Empty, Q), Load(Empty, Q)))
    BY <1>2 DEF PumpBegin, Becomes, Session
  <2> DEFINE next == Session("pump", Q, <<>>, Load(Empty, Q), Load(Empty, Q))
  <2>2. next \in Worker
    BY <1>1, <2>1 DEF Becomes, TypeOK
  <2>3. UNCHANGED <<db, starts>>
    BY <1>2 DEF PumpBegin
  <2>4. SameRuns(Load(Empty, Q), Load(Empty, Q))
    BY DEF SameRuns
  <2>5. RowsFit(next, Pump, db)
    BY <1>1, <2>4, LoadedFits
  <2>6. next.busy = "pump" /\ next.calls = <<>> /\ Len(next.calls) = 0
    BY DEF Session
  <2> HIDE DEF next
  <2> QED BY <1>1, <2>1, <2>2, <2>3, <2>5, <2>6, OpensStarts DEF next
<1>3. CASE PumpEnd
  BY <1>1, <1>3, EndsStarts DEF PumpEnd
<1>4. ASSUME NEW r \in Runs, PumpTurn(r)
      PROVE  StartsInv'
  <2>1. /\ r \in o.queue /\ o.calls = <<>>
    BY <1>4 DEF PumpTurn, PumpLate, PumpEmpty, PumpWait, PumpGroupEnded, Turn
  <2>2. o.mine.status[r] # "absent"
    BY <1>1, <2>1 DEF SessionFits, RowsFit
  <2>3. \A status \in RunStatuses \ {"absent"} : SameRuns(o.mine, [o.mine EXCEPT !.status[r] = status])
    BY <1>1, <2>2, StatusSame
  <2>4. \A late : /\ [o.mine EXCEPT !.step = Synced(r, late)] \in Rows
                  /\ SameRuns(o.mine, [o.mine EXCEPT !.step = Synced(r, late)])
    BY <1>1, SyncedOK, StepsOK DEF SameRuns, Rows
  <2>5. CASE PumpLate(r)
    <3> DEFINE rows == [o.mine EXCEPT !.status[r] = "failed",
                          !.step = [s \in Steps |-> IF RunOf[s] = r /\ o.mine.step[s] = "running"
                                                    THEN "failed" ELSE o.mine.step[s]]]
    <3>1. Pumped(r, rows, <<>>)
      BY <2>5 DEF PumpLate
    <3>2. SameRuns(o.mine, rows)
      BY <1>1, <2>2 DEF SameRuns, Rows
    <3> HIDE DEF rows
    <3> QED BY <3>1, <3>2, PumpedStarts
  <2>6. CASE PumpEmpty(r)
    BY <2>3, <2>6, PumpedStarts DEF PumpEmpty, RunStatuses
  <2>7. CASE PumpWait(r)
    BY <2>4, <2>7, PumpedStarts DEF PumpWait
  <2>8. CASE PumpGroupEnded(r)
    <3>1. PICK late :
          LET rows == [o.mine EXCEPT !.step = Synced(r, late)] IN
          \/ Pumped(r, [rows EXCEPT !.status[r] = "failed"], <<>>)
          \/ Pumped(r, [rows EXCEPT !.status[r] = "completed"], <<>>)
          \/ \E g \in LaterGroups(r) : Pumped(r, [rows EXCEPT !.group[r] = g],
                                              <<CallOn("dispatch", r, GroupSteps(r, g), NoStep)>>)
      BY <2>8 DEF PumpGroupEnded
    <3> DEFINE rows == [o.mine EXCEPT !.step = Synced(r, late)]
    <3>2. rows \in Rows /\ SameRuns(o.mine, rows) /\ rows.status[r] # "absent"
      BY <2>2, <2>4 DEF SameRuns
    <3> HIDE DEF rows
    <3>3. \A status \in RunStatuses \ {"absent"} : SameRuns(o.mine, [rows EXCEPT !.status[r] = status])
      BY <3>2, StatusSame DEF SameRuns
    <3>4. CASE Pumped(r, [rows EXCEPT !.status[r] = "failed"], <<>>)
      BY <3>3, <3>4, PumpedStarts DEF RunStatuses
    <3>5. CASE Pumped(r, [rows EXCEPT !.status[r] = "completed"], <<>>)
      BY <3>3, <3>5, PumpedStarts DEF RunStatuses
    <3>6. ASSUME NEW g \in LaterGroups(r),
                 Pumped(r, [rows EXCEPT !.group[r] = g],
                        <<CallOn("dispatch", r, GroupSteps(r, g), NoStep)>>)
          PROVE  StartsInv'
      <4>1. g \in Nat /\ g > o.mine.group[r]
        BY DEF LaterGroups, StepsOf, RunsAssumption
      <4> QED BY <2>1, <3>2, <3>6, <4>1, NextGroupStarts
    <3> QED BY <3>1, <3>4, <3>5, <3>6 DEF rows
  <2> QED BY <1>4, <2>5, <2>6, <2>7, <2>8 DEF PumpTurn
<1> QED BY <1>2, <1>3, <1>4

LEMMA FaultStarts ==
    ASSUME RunsAssumption, TypeOK, TypeOK', StartsInv, Fault
    PROVE  StartsInv'
<1>1. CASE Restart
  <2>1. /\ UNCHANGED starts /\ worker' = [v \in Workers |-> Idle]
        /\ \A r \in Runs : /\ db'.status[r] = "absent" <=> db.status[r] = "absent"
                           /\ db'.group[r] = db.group[r]
    <3>1. db \in Rows
      BY DEF TypeOK
    <3>2. db' = db \/ \E status, step :
            /\ status = [r \in Runs |-> IF r \in {q \in Runs : db.status[q] = "running"}
                                        THEN "failed" ELSE db.status[r]]
            /\ db' = [db EXCEPT !.status = status, !.step = step]
      BY <1>1 DEF Restart
    <3>3. CASE db' = db
      BY <1>1, <3>3 DEF Restart
    <3>4. ASSUME NEW status, NEW step,
                 status = [r \in Runs |-> IF r \in {q \in Runs : db.status[q] = "running"}
                                          THEN "failed" ELSE db.status[r]],
                 db' = [db EXCEPT !.status = status, !.step = step]
          PROVE  /\ \A r \in Runs : /\ db'.status[r] = "absent" <=> db.status[r] = "absent"
                                    /\ db'.group[r] = db.group[r]
      <4>1. \A r \in Runs : status[r] = "absent" <=> db.status[r] = "absent"
        BY <3>4
      <4>2. db'.status = status /\ db'.group = db.group
        BY <3>1, <3>4 DEF Rows
      <4> QED BY <4>1, <4>2
    <3>5. UNCHANGED starts /\ worker' = [v \in Workers |-> Idle]
      BY <1>1 DEF Restart
    <3> QED BY <3>2, <3>3, <3>4, <3>5
  <2>2. Begun(db', starts')
    BY <2>1 DEF StartsInv, Begun, RunsAssumption
  <2>3. \A v \in Workers : SessionFits(Idle, v, db', starts')
    BY DEF SessionFits, RowsFit, Idle, Empty
  <2>4. DispatchedByOne(worker')
    BY <2>1 DEF DispatchedByOne, Dispatches, Idle
  <2> QED BY <2>1, <2>2, <2>3, <2>4 DEF StartsInv
<1>2. ASSUME NEW w \in Workers, DispatchRaises(w)
      PROVE  StartsInv'
  <2> DEFINE o == worker[w]
  <2>1. /\ UNCHANGED <<db, starts>> /\ InCall(w, "dispatch")
        /\ worker \in [Workers -> Worker] /\ o \in Worker /\ o.calls \in Seq(Call) /\ o.mine \in Rows
        /\ o.calls # <<>> /\ SessionFits(o, w, db, starts)
    BY <1>2 DEF DispatchRaises, InCall, TypeOK, Worker, StartsInv
  <2>2. o.mine.status[Now(w).run] # "absent"
    <3>1. 1 \in 1..Len(o.calls) /\ Now(w) = o.calls[1]
      BY <2>1, PoppedCall DEF Now
    <3> QED BY <2>1, <3>1 DEF SessionFits, CallFits
  <2>3. \/ \E rows, calls : /\ Continue(w, rows, calls) /\ SameRuns(o.mine, rows)
                            /\ calls \in Seq(Call) /\ Inherits(calls, o.calls)
        \/ worker' = [worker EXCEPT ![w] = Idle]
    <3>1. \A s : SameRuns(o.mine, Mark(o.mine, s, "failed"))
      BY <2>1, MarkSame
    <3>2. SameRuns(o.mine, [o.mine EXCEPT !.status[Now(w).run] = "failed"])
      BY <2>1, <2>2, StatusSame DEF RunStatuses
    <3>3. /\ Tail(o.calls) \in Seq(Call) /\ Inherits(Tail(o.calls), o.calls)
          /\ <<>> \in Seq(Call) /\ Inherits(<<>>, o.calls)
      BY <2>1, PoppedCall, InheritsTail, InheritsNone
    <3> QED BY <1>2, <3>1, <3>2, <3>3 DEF DispatchRaises
  <2>4. CASE worker' = [worker EXCEPT ![w] = Idle]
    BY <2>1, <2>4, EndsStarts
  <2>5. ASSUME NEW rows, NEW calls, Continue(w, rows, calls), SameRuns(o.mine, rows),
               calls \in Seq(Call), Inherits(calls, o.calls)
        PROVE  StartsInv'
    <3>1. Becomes(w, Session(o.busy, o.queue, calls, o.seen, rows))
      BY <2>1, <2>5, ContinueBecomes
    <3>2. o.queue \in SUBSET o.queue
      OBVIOUS
    <3> HIDE DEF o
    <3> QED BY <2>1, <2>5, <3>1, <3>2, GoesOn DEF o
  <2> QED BY <2>3, <2>4, <2>5
<1>3. ASSUME NEW w \in Workers, Disconnect(w)
      PROVE  StartsInv'
  BY <1>3, EndsStarts DEF Disconnect
<1> QED BY <1>1, <1>2, <1>3 DEF Fault

LEMMA StartsStep ==
    ASSUME RunsAssumption, NestingAssumption, TypeOK, TypeOK', StartsInv, [Next]_vars
    PROVE  StartsInv'
<1>1. ASSUME NEW w \in Callers, Request(w) PROVE StartsInv'
  BY <1>1, RequestStarts
<1>2. ASSUME NEW w \in Workers, Proceed(w) PROVE StartsInv'
  BY <1>2, ProceedStarts
<1>3. CASE PumpBegin \/ PumpEnd \/ \E r \in Runs : PumpTurn(r)
  BY <1>3, PumpStarts
<1>4. CASE UNCHANGED <<db, starts, worker>>
  BY <1>4 DEF StartsInv
<1>5. CASE Fault
  BY <1>5, FaultStarts
<1> QED BY <1>1, <1>2, <1>3, <1>4, <1>5 DEF Next, TaskEnds, vars

LEMMA StartsInit == ASSUME RunsAssumption, Init PROVE StartsInv
<1>1. \A w \in Workers : SessionFits(Idle, w, db, starts)
  BY DEF SessionFits, RowsFit, Idle, Empty
<1>2. DispatchedByOne(worker)
  BY DEF Init, DispatchedByOne, Dispatches, Idle
<1>3. Begun(db, starts)
  BY DEF Init, Begun, Empty, RunsAssumption
<1> QED BY <1>1, <1>2, <1>3 DEF Init, StartsInv

\* No step gets two tasks or two sub-workflows (_dispatch_step_group), whoever
\* dispatches and whatever fails between starting a step and recording it.
THEOREM StepsStartOnce ==
    ASSUME RunsAssumption, NestingAssumption PROVE Spec => []StartedOnce
<1>1. Init => TypeOK /\ StartsInv
  BY TypeInit, StartsInit
<1>2. TypeOK /\ StartsInv /\ [Next]_vars => (TypeOK /\ StartsInv)'
  BY TypeStep, StartsStep
<1>3. TypeOK /\ StartsInv => StartedOnce
  BY DEF StartsInv, Begun, StartedOnce, TypeOK
<1> QED BY <1>1, <1>2, <1>3, PTL DEF Spec

-----------------------------------------------------------------------------
(***************************************************************************)
(* Where no steps are canceled one by one, steps start in the order of     *)
(* their groups (GroupsInOrder).                                           *)
(*                                                                         *)
(* A commit may write "running" over whatever became of a step meanwhile,  *)
(* so the proof follows the steps whose start a session has yet to record  *)
(* (Unrecorded).  As long as their run is running the database has them    *)
(* pending (StepFits), so the pump, which loads running runs only, has     *)
(* them pending too and waits for them (Apart); what the pump has settled  *)
(* nobody overwrites.  Requests write over the steps of others only when   *)
(* they close the run as well (Closing).                                   *)
(***************************************************************************)

Waits(calls, i, q) == i \in 1..Len(calls) /\ calls[i].for = q
Holds(calls, q) == \E i \in 1..Len(calls) : Dispatches(calls, i, q) \/ Waits(calls, i, q)

\* Session o has started step q, or is about to, and has not recorded it.
Unrecorded(o, q) ==
    Holds(o.calls, q) \/ (o.mine.step[q] = "running" /\ o.seen.step[q] # "running")
Known(o, q) == o.mine.status[RunOf[q]] # "absent"

\* Run r is closed, or will be by the next commit of session o.
Closing(o, r, rows) ==
    \/ rows.status[r] # "running"
    \/ o.mine.status[r] # "running" /\ o.mine.status[r] # o.seen.status[r]

\* Step q in session o of worker w.
StepFits(o, w, rows, n, q) ==
    /\ Holds(o.calls, q) => o.mine.step[q] = "pending" /\ Known(o, q)
    /\ o.mine.step[q] = "pending" => o.seen.step[q] = "pending"
    /\ o.mine.step[q] # "pending" => Known(o, q)
    /\ \A i : Waits(o.calls, i, q) => n[q] > 0
    /\ Unrecorded(o, q) => rows.step[q] = "pending" \/ rows.status[RunOf[q]] # "running"
    /\ w # Pump =>
         /\ Unrecorded(o, q) => Group[q] = 0
         /\ o.mine.step[q] # o.seen.step[q] => Group[q] = 0 \/ Closing(o, RunOf[q], rows)

\* Step q in the session o of the pump: what it has settled is settled in the
\* database, and later groups are untouched.
PumpFits(o, rows, q) ==
    LET g == o.mine.group[RunOf[q]] IN
    /\ Known(o, q) /\ Group[q] < g => o.mine.step[q] \in Over
    /\ o.seen.step[q] \in Over => o.mine.step[q] \in Over /\ rows.step[q] \in Over
    /\ o.mine.step[q] # o.seen.step[q] => Group[q] <= g
    /\ RunOf[q] \in o.queue =>
         o.mine.step[q] = o.seen.step[q] /\ (Group[q] > g => o.mine.step[q] = "pending")
    /\ Holds(o.calls, q) => Group[q] = g /\ RunOf[q] \notin o.queue

\* The runs and the calls of session o: a session dispatches or cancels, and it
\* closes the runs that it cancels.
StackFits(o, rows) ==
    /\ \A r \in Runs : o.mine.status[r] # "absent" => rows.status[r] # "absent"
    /\ \A r \in Runs : o.mine.status[r] = "running" => o.seen.status[r] = "running"
    /\ \A i, j, q : Waits(o.calls, i, q) /\ Waits(o.calls, j, q) => q = NoStep \/ i = j
    /\ \A i, j \in 1..Len(o.calls) : o.calls[i].op = "dispatch" => o.calls[j].op = "dispatch"
    /\ \A i \in 1..Len(o.calls) : LET c == o.calls[i] IN
         /\ c.op # "dispatch" => c.for = NoStep
         /\ c.op = "cancel" => /\ Closing(o, c.run, rows)
                               /\ \A s \in c.left : RunOf[s] = c.run

OrderFits(o, w, rows, n) ==
    /\ StackFits(o, rows)
    /\ \A q \in Steps : StepFits(o, w, rows, n, q)
    /\ w = Pump => \A q \in Steps : PumpFits(o, rows, q)

\* A step is unrecorded in one session; another that changes it closes its run,
\* and the pump has it pending.
Apart(v, o, other, rows, q) ==
    Unrecorded(other, q) =>
      /\ ~Unrecorded(o, q)
      /\ v # Pump /\ o.mine.step[q] # o.seen.step[q] => Closing(o, RunOf[q], rows)
      /\ v = Pump => o.mine.step[q] = "pending"

\* In the database too, the groups of a running run before its current one have
\* ended and those after it are pending.
RowsInOrder(rows) ==
    \A q \in Steps : rows.status[RunOf[q]] = "running" =>
      /\ Group[q] > rows.group[RunOf[q]] => rows.step[q] = "pending"
      /\ Group[q] < rows.group[RunOf[q]] => rows.step[q] \in Over

OrderInv(sessions, rows, n) ==
    /\ \A w \in Workers : OrderFits(sessions[w], w, rows, n)
    /\ \A v, w \in Workers : v # w => \A q \in Steps : Apart(v, sessions[v], sessions[w], rows, q)
    /\ RowsInOrder(rows)

-----------------------------------------------------------------------------
(* A step of one session, as three moves: a commit, the creation of a run,  *)
(* and a change of the session that the database does not see.              *)

\* Nobody but w has anything to do with step q.
Free(sessions, w, rows, q) ==
    \A v \in Workers \ {w} :
      /\ ~Unrecorded(sessions[v], q)
      /\ v # Pump /\ sessions[v].mine.step[q] # sessions[v].seen.step[q]
           => Closing(sessions[v], RunOf[q], rows)
      /\ v = Pump => sessions[v].mine.step[q] = "pending"

\* What session o of w may become without a commit.
LocalMove(sessions, w, o, rows) ==
    LET old == sessions[w] IN
    \A q \in Steps :
      /\ Unrecorded(o, q) => Unrecorded(old, q) \/ Free(sessions, w, rows, q)
      /\ w # Pump /\ o.mine.step[q] # o.seen.step[q] =>
           \/ old.mine.step[q] # old.seen.step[q]
                /\ (Closing(old, RunOf[q], rows) => Closing(o, RunOf[q], rows))
           \/ Unrecorded(old, q)
           \/ Closing(o, RunOf[q], rows)
           \/ Free(sessions, w, rows, q)
      /\ w = Pump /\ o.mine.step[q] # "pending" =>
           \/ old.mine.step[q] # "pending"
           \/ Unrecorded(old, q)
           \/ \A v \in Workers \ {w} : ~Unrecorded(sessions[v], q)

LEMMA MovesLocally ==
    ASSUME NEW sessions \in [Workers -> Worker], NEW w \in Workers, NEW o \in Worker,
           NEW rows, NEW n, NEW m, OrderInv(sessions, rows, n), LocalMove(sessions, w, o, rows),
           \A q \in Steps : n[q] > 0 => m[q] > 0,
           OrderFits(o, w, rows, m)
    PROVE  OrderInv([sessions EXCEPT ![w] = o], rows, m)
<1> DEFINE new == [sessions EXCEPT ![w] = o]
<1>1. new[w] = o /\ \A v \in Workers \ {w} : new[v] = sessions[v]
  OBVIOUS
<1> HIDE DEF new
<1>2. ASSUME NEW v \in Workers
      PROVE  OrderFits(new[v], v, rows, m)
  <2>1. CASE v = w
    BY <1>1, <2>1
  <2>2. CASE v # w
    <3>1. new[v] = sessions[v] /\ OrderFits(sessions[v], v, rows, n)
      BY <1>1, <2>2 DEF OrderInv
    <3>2. \A q \in Steps : StepFits(sessions[v], v, rows, m, q)
      BY <3>1 DEF OrderFits, StepFits
    <3> QED BY <3>1, <3>2 DEF OrderFits
  <2> QED BY <2>1, <2>2
<1>3. ASSUME NEW v \in Workers, NEW u \in Workers, v # u, NEW q \in Steps
      PROVE  Apart(v, new[v], new[u], rows, q)
  <2>1. Apart(v, sessions[v], sessions[u], rows, q) /\ Apart(u, sessions[u], sessions[v], rows, q)
    BY <1>3 DEF OrderInv
  <2>2. CASE v # w /\ u # w
    BY <1>1, <2>1, <2>2
  <2>3. CASE v = w
    <3>1. new[v] = o /\ new[u] = sessions[u] /\ u \in Workers \ {w}
      BY <1>1, <1>3, <2>3
    <3>2. Unrecorded(sessions[u], q) => ~Free(sessions, w, rows, q)
      BY <3>1 DEF Free
    <3>3. Unrecorded(sessions[u], q) => ~Unrecorded(sessions[w], q)
      BY <2>1, <2>3 DEF Apart
    <3>4. Unrecorded(sessions[u], q) =>
             /\ ~Unrecorded(o, q)
             /\ w # Pump /\ o.mine.step[q] # o.seen.step[q] => Closing(o, RunOf[q], rows)
             /\ w = Pump => o.mine.step[q] = "pending"
      BY <2>1, <2>3, <3>1, <3>2, <3>3 DEF LocalMove, Apart
    <3> QED BY <2>3, <3>1, <3>4 DEF Apart
  <2>4. CASE u = w
    <3>1. new[u] = o /\ new[v] = sessions[v] /\ v \in Workers \ {w}
      BY <1>1, <1>3, <2>4
    <3>2. Unrecorded(o, q) => Unrecorded(sessions[w], q) \/ Free(sessions, w, rows, q)
      BY DEF LocalMove
    <3>3. Free(sessions, w, rows, q) =>
             /\ ~Unrecorded(sessions[v], q)
             /\ v # Pump /\ sessions[v].mine.step[q] # sessions[v].seen.step[q]
                  => Closing(sessions[v], RunOf[q], rows)
             /\ v = Pump => sessions[v].mine.step[q] = "pending"
      BY <3>1 DEF Free
    <3>4. Apart(v, sessions[v], o, rows, q)
      BY <2>1, <2>4, <3>2, <3>3 DEF Apart
    <3> QED BY <3>1, <3>4
  <2> QED BY <2>2, <2>3, <2>4
<1>4. RowsInOrder(rows)
  BY DEF OrderInv
<1>5. OrderInv(new, rows, m)
  BY <1>2, <1>3, <1>4 DEF OrderInv
<1> QED BY <1>5 DEF new

\* The session of w after a commit of all it has changed.
Saved(w) == [worker EXCEPT ![w].seen = worker[w].mine]

LEMMA SavedFields ==
    ASSUME worker \in [Workers -> Worker], NEW w \in Workers
    PROVE  /\ Saved(w) \in [Workers -> Worker]
           /\ \A v \in Workers \ {w} : Saved(w)[v] = worker[v]
           /\ Saved(w)[w].seen = worker[w].mine /\ Saved(w)[w].mine = worker[w].mine
           /\ Saved(w)[w].calls = worker[w].calls /\ Saved(w)[w].queue = worker[w].queue
           /\ Saved(w)[w].busy = worker[w].busy
  BY DEF Saved, Worker

LEMMA CommittedStep ==
    ASSUME TypeOK, NEW w \in Workers, NEW q \in Steps
    PROVE  Committed(w).step[q] = IF worker[w].mine.step[q] # worker[w].seen.step[q]
                                  THEN worker[w].mine.step[q] ELSE db.step[q]
  BY DEF Committed, Written, TypeOK, Rows

LEMMA CommittedStatus ==
    ASSUME TypeOK, NEW w \in Workers, NEW r \in Runs
    PROVE  Committed(w).status[r] = IF worker[w].mine.status[r] # worker[w].seen.status[r]
                                    THEN worker[w].mine.status[r] ELSE db.status[r]
  BY DEF Committed, Written, TypeOK, Rows

\* A commit opens no run, and closes those that it was to close.
LEMMA CommitCloses ==
    ASSUME RunsAssumption, TypeOK, NEW w \in Workers, StackFits(worker[w], db), NEW r \in Runs
    PROVE  /\ Committed(w).status[r] = "running" => db.status[r] = "running"
           /\ Closing(worker[w], r, db) => Committed(w).status[r] # "running"
           /\ db.status[r] # "running" => Committed(w).status[r] # "running"
  BY CommittedStatus DEF StackFits, Closing

LEMMA CommitInOrder ==
    ASSUME RunsAssumption, TypeOK, StartsInv, OrderInv(worker, db, starts), NEW w \in Workers
    PROVE  RowsInOrder(Committed(w))
<1> DEFINE o == worker[w]
<1> SUFFICES ASSUME NEW q \in Steps, Committed(w).status[RunOf[q]] = "running"
             PROVE  /\ Group[q] > Committed(w).group[RunOf[q]] => Committed(w).step[q] = "pending"
                    /\ Group[q] < Committed(w).group[RunOf[q]] => Committed(w).step[q] \in Over
  BY DEF RowsInOrder
<1> DEFINE r == RunOf[q]
<1>1. /\ r \in Runs /\ Group[q] \in Nat /\ db.group[r] \in Nat /\ Committed(w).group[r] \in Nat
      /\ o.mine.step[q] \in Statuses
  BY CommittedOK DEF RunsAssumption, TypeOK, Rows, Worker, Statuses
<1>2. StackFits(o, db) /\ StepFits(o, w, db, starts, q) /\ (w = Pump => PumpFits(o, db, q))
  BY DEF OrderInv, OrderFits
<1>3. db.status[r] = "running" /\ ~Closing(o, r, db)
  BY <1>1, <1>2, CommitCloses
<1>4. /\ Group[q] > db.group[r] => db.step[q] = "pending"
      /\ Group[q] < db.group[r] => db.step[q] \in Over
  BY <1>3 DEF OrderInv, RowsInOrder
<1>5. /\ Committed(w).group[r] = IF w = Pump /\ o.mine.status[r] # "absent"
                                 THEN o.mine.group[r] ELSE db.group[r]
      /\ db.group[r] <= Committed(w).group[r]
  <2>1. RowsFit(o, w, db)
    BY DEF StartsInv, SessionFits
  <2> QED BY <1>1, <2>1, CommittedMoves
<1>6. Committed(w).step[q] = IF o.mine.step[q] # o.seen.step[q] THEN o.mine.step[q] ELSE db.step[q]
  BY CommittedStep
<1>7. o.mine.step[q] # o.seen.step[q] => o.mine.status[r] # "absent" /\ o.mine.step[q] # "pending"
  BY <1>2 DEF StepFits, Known
<1>8. ASSUME Group[q] > Committed(w).group[r]
      PROVE  Committed(w).step[q] = "pending"
  <2>1. Group[q] > db.group[r] /\ Group[q] # 0
    BY <1>1, <1>5, <1>8
  <2>2. o.mine.step[q] = o.seen.step[q]
    <3>1. CASE w # Pump
      BY <1>2, <1>3, <2>1, <3>1 DEF StepFits
    <3>2. CASE w = Pump
      <4>1. o.mine.step[q] # o.seen.step[q] => Group[q] <= o.mine.group[r]
        BY <1>2, <3>2 DEF PumpFits
      <4> HIDE DEF o
      <4> QED BY <1>1, <1>5, <1>7, <1>8, <3>2, <4>1
    <3> QED BY <3>1, <3>2
  <2> QED BY <1>4, <1>6, <2>1, <2>2
<1>9. ASSUME Group[q] < Committed(w).group[r]
      PROVE  Committed(w).step[q] \in Over
  <2>1. CASE w = Pump /\ o.mine.status[r] # "absent"
    <3>1. o.mine.step[q] \in Over
      BY <1>2, <1>5, <1>9, <2>1 DEF PumpFits, Known
    <3>2. o.seen.step[q] \in Over => db.step[q] \in Over
      BY <1>2, <2>1 DEF PumpFits
    <3> HIDE DEF o
    <3> QED BY <1>6, <3>1, <3>2
  <2>2. CASE ~(w = Pump /\ o.mine.status[r] # "absent")
    <3>1. db.step[q] \in Over
      BY <1>4, <1>5, <1>9, <2>2
    <3>2. o.mine.step[q] = "running" => o.seen.step[q] = "running"
      BY <1>2, <1>3, <3>1 DEF StepFits, Unrecorded, Over
    <3> HIDE DEF o
    <3> QED BY <1>1, <1>6, <1>7, <3>1, <3>2 DEF Statuses
  <2> QED BY <2>1, <2>2
<1> QED BY <1>8, <1>9

LEMMA CommitOwn ==
    ASSUME RunsAssumption, TypeOK, StartsInv, OrderInv(worker, db, starts), NEW w \in Workers
    PROVE  OrderFits(Saved(w)[w], w, Committed(w), starts)
<1> DEFINE o == worker[w]
           new == Saved(w)[w]
           rows == Committed(w)
<1>1. worker \in [Workers -> Worker] /\ o.mine \in Rows /\ OrderFits(o, w, db, starts)
  BY DEF TypeOK, Worker, OrderInv
<1>2. /\ new.seen = o.mine /\ new.mine = o.mine /\ new.calls = o.calls /\ new.queue = o.queue
  BY <1>1, SavedFields
<1> HIDE DEF new
<1>3. StackFits(o, db)
  BY <1>1 DEF OrderFits
<1>4. \A r \in Runs : /\ Closing(o, r, db) => Closing(new, r, rows)
                      /\ o.mine.status[r] # "absent" => rows.status[r] # "absent"
  <2>1. RowsFit(o, w, db)
    BY DEF StartsInv, SessionFits
  <2> QED BY <1>1, <1>3, <2>1, CommitCloses, CommittedMoves DEF Closing, RowsFit
<1>5. StackFits(new, rows)
  <2>1. \A i \in 1..Len(o.calls) : o.calls[i].run \in Runs
    <3>1. o.calls \in Seq(Call)
      BY <1>1 DEF Worker
    <3>2. \A i \in 1..Len(o.calls) : o.calls[i] \in Call
      BY <3>1
    <3> QED BY <3>2 DEF Call
  <2> HIDE DEF o, rows
  <2> QED BY <1>2, <1>3, <1>4, <2>1 DEF StackFits
<1>6. ASSUME NEW q \in Steps
      PROVE  StepFits(new, w, rows, starts, q) /\ (w = Pump => PumpFits(new, rows, q))
  <2>1. StepFits(o, w, db, starts, q) /\ (w = Pump => PumpFits(o, db, q)) /\ RunOf[q] \in Runs
    BY <1>1 DEF OrderFits, RunsAssumption
  <2>2. rows.step[q] = IF o.mine.step[q] # o.seen.step[q] THEN o.mine.step[q] ELSE db.step[q]
    BY CommittedStep
  <2>3. Unrecorded(new, q) => Holds(o.calls, q) /\ Unrecorded(o, q)
    BY <1>2 DEF Unrecorded
  <2>4. Unrecorded(new, q) => rows.step[q] = "pending" \/ rows.status[RunOf[q]] # "running"
    <3>1. Unrecorded(new, q) => o.mine.step[q] = "pending" /\ o.seen.step[q] = "pending"
      BY <2>1, <2>3 DEF StepFits
    <3>2. db.status[RunOf[q]] # "running" => rows.status[RunOf[q]] # "running"
      BY <1>3, <2>1, CommitCloses
    <3> HIDE DEF o, rows
    <3> QED BY <2>1, <2>2, <2>3, <3>1, <3>2 DEF StepFits
  <2> HIDE DEF o, rows
  <2>5. StepFits(new, w, rows, starts, q)
    BY <1>2, <2>1, <2>3, <2>4 DEF StepFits, Known
  <2>6. w = Pump => PumpFits(new, rows, q)
    BY <1>2, <2>1, <2>2 DEF PumpFits, Known
  <2> QED BY <2>5, <2>6
<1> HIDE DEF o, rows
<1> QED BY <1>5, <1>6 DEF OrderFits, new, rows

\* What the rows of the database may become for a session that is not the one
\* that commits.
LEMMA OthersFit ==
    ASSUME NEW o, NEW v, NEW rows, NEW new, NEW n, RunsAssumption, OrderFits(o, v, rows, n),
           \A r \in Runs : rows.status[r] # "absent" =>
             new.status[r] # "absent" /\ (new.status[r] = "running" => rows.status[r] = "running"),
           \A q \in Steps : Known(o, q) /\ new.step[q] # rows.step[q] =>
             /\ Unrecorded(o, q) => new.status[RunOf[q]] # "running"
             /\ v = Pump /\ o.mine.step[q] # "pending" /\ rows.step[q] \in Over => new.step[q] \in Over,
           \A i \in 1..Len(o.calls) :
             o.calls[i].run \in Runs /\ o.mine.status[o.calls[i].run] # "absent"
    PROVE  OrderFits(o, v, new, n)
<1>1. StackFits(o, rows) /\ \A r \in Runs : o.mine.status[r] # "absent" => rows.status[r] # "absent"
  BY DEF OrderFits, StackFits
<1>2. \A r \in Runs : o.mine.status[r] # "absent" => (Closing(o, r, rows) => Closing(o, r, new))
  BY <1>1 DEF Closing
<1>3. StackFits(o, new)
  BY <1>1, <1>2 DEF StackFits
<1>4. ASSUME NEW q \in Steps
      PROVE  StepFits(o, v, new, n, q) /\ (v = Pump => PumpFits(o, new, q))
  <2>1. StepFits(o, v, rows, n, q) /\ (v = Pump => PumpFits(o, rows, q)) /\ RunOf[q] \in Runs
    BY DEF OrderFits, RunsAssumption
  <2>2. Unrecorded(o, q) \/ o.mine.step[q] # o.seen.step[q] \/ o.seen.step[q] \in Over => Known(o, q)
    BY <2>1 DEF StepFits, Unrecorded, Over
  <2>3. Unrecorded(o, q) => new.step[q] = "pending" \/ new.status[RunOf[q]] # "running"
    BY <1>1, <2>1, <2>2 DEF StepFits, Known
  <2>4. o.mine.step[q] # o.seen.step[q] => (Closing(o, RunOf[q], rows) => Closing(o, RunOf[q], new))
    BY <1>2, <2>1, <2>2 DEF Known
  <2>5. v = Pump /\ o.seen.step[q] \in Over => new.step[q] \in Over
    BY <2>1, <2>2 DEF PumpFits, Over
  <2>6. StepFits(o, v, new, n, q)
    BY <2>1, <2>3, <2>4 DEF StepFits
  <2>7. v = Pump => PumpFits(o, new, q)
    BY <2>1, <2>5 DEF PumpFits
  <2> QED BY <2>6, <2>7
<1> QED BY <1>3, <1>4 DEF OrderFits

LEMMA RunsOfCalls ==
    ASSUME TypeOK, StartsInv, NEW v \in Workers
    PROVE  \A i \in 1..Len(worker[v].calls) :
             worker[v].calls[i].run \in Runs /\ worker[v].mine.status[worker[v].calls[i].run] # "absent"
<1>1. worker[v].calls \in Seq(Call)
  BY DEF TypeOK, Worker
<1>2. \A i \in 1..Len(worker[v].calls) : worker[v].calls[i] \in Call
  BY <1>1
<1> QED BY <1>2 DEF Call, StartsInv, SessionFits, CallFits

LEMMA CommitMoves ==
    ASSUME RunsAssumption, TypeOK, StartsInv, OrderInv(worker, db, starts), NEW w \in Workers
    PROVE  OrderInv(Saved(w), Committed(w), starts)
<1> DEFINE rows == Committed(w)
           new == Saved(w)
<1>1. /\ worker \in [Workers -> Worker]
      /\ new[w].seen = worker[w].mine /\ new[w].mine = worker[w].mine /\ new[w].calls = worker[w].calls
      /\ \A v \in Workers \ {w} : new[v] = worker[v]
  BY SavedFields DEF TypeOK
<1>2. RowsInOrder(rows) /\ OrderFits(new[w], w, rows, starts)
  BY CommitInOrder, CommitOwn
<1>3. StackFits(worker[w], db)
  BY DEF OrderInv, OrderFits
<1>4. \A r \in Runs : /\ rows.status[r] = "running" => db.status[r] = "running"
                      /\ Closing(worker[w], r, db) => rows.status[r] # "running"
                      /\ rows.status[r] = "absent" <=> db.status[r] = "absent"
  <2>1. RowsFit(worker[w], w, db)
    BY DEF StartsInv, SessionFits
  <2> QED BY <1>3, <2>1, CommitCloses, CommittedMoves
<1>5. \A q \in Steps : rows.step[q] = IF worker[w].mine.step[q] # worker[w].seen.step[q]
                                      THEN worker[w].mine.step[q] ELSE db.step[q]
  BY CommittedStep
<1> HIDE DEF rows, new
<1>6. ASSUME NEW v \in Workers \ {w}
      PROVE  OrderFits(worker[v], v, rows, starts)
  <2>1. OrderFits(worker[v], v, db, starts)
    BY DEF OrderInv
  <2>2. ASSUME NEW q \in Steps, Known(worker[v], q), rows.step[q] # db.step[q]
        PROVE  /\ Unrecorded(worker[v], q) => rows.status[RunOf[q]] # "running"
               /\ v = Pump /\ worker[v].mine.step[q] # "pending" /\ db.step[q] \in Over
                    => rows.step[q] \in Over
    <3>1. /\ Apart(w, worker[w], worker[v], db, q) /\ Apart(v, worker[v], worker[w], db, q)
          /\ StepFits(worker[w], w, db, starts, q) /\ RunOf[q] \in Runs
          /\ worker[w].mine.step[q] \in Statuses
      BY DEF OrderInv, OrderFits, RunsAssumption, TypeOK, Worker, Rows, Statuses
    <3>2. /\ worker[w].mine.step[q] # worker[w].seen.step[q] /\ rows.step[q] = worker[w].mine.step[q]
          /\ worker[w].mine.step[q] # "pending"
      BY <1>5, <2>2, <3>1 DEF StepFits
    <3>3. Unrecorded(worker[v], q) => rows.status[RunOf[q]] # "running"
      BY <1>4, <3>1, <3>2 DEF Apart
    <3>4. v = Pump /\ worker[v].mine.step[q] # "pending" => rows.step[q] \in Over
      BY <3>1, <3>2 DEF Apart, Unrecorded, Statuses
    <3> QED BY <3>3, <3>4
  <2>3. \A i \in 1..Len(worker[v].calls) :
             worker[v].calls[i].run \in Runs /\ worker[v].mine.status[worker[v].calls[i].run] # "absent"
    BY RunsOfCalls
  <2> QED BY <1>4, <2>1, <2>2, <2>3, OthersFit
<1>7. ASSUME NEW v \in Workers, NEW u \in Workers, v # u, NEW q \in Steps
      PROVE  Apart(v, new[v], new[u], rows, q)
  <2>1. Apart(v, worker[v], worker[u], db, q) /\ RunOf[q] \in Runs
    BY <1>7 DEF OrderInv, RunsAssumption
  <2>2. \A x \in Workers : /\ Unrecorded(new[x], q) => Unrecorded(worker[x], q)
                           /\ new[x].mine = worker[x].mine
    BY <1>1 DEF Unrecorded
  <2>3. /\ new[v].mine.step[q] # new[v].seen.step[q] => new[v] = worker[v]
    BY <1>1
  <2>4. worker[v].mine.step[q] # worker[v].seen.step[q] /\ new[v] = worker[v] =>
           (Closing(worker[v], RunOf[q], db) => Closing(worker[v], RunOf[q], rows))
    <3>1. StepFits(worker[v], v, db, starts, q) /\ StackFits(worker[v], db)
      BY DEF OrderInv, OrderFits
    <3>2. worker[v].mine.step[q] # worker[v].seen.step[q] => db.status[RunOf[q]] # "absent"
      BY <2>1, <3>1 DEF StepFits, StackFits, Known
    <3> QED BY <1>4, <2>1, <3>2 DEF Closing
  <2> QED BY <2>1, <2>2, <2>3, <2>4 DEF Apart
<1>8. ASSUME NEW v \in Workers
      PROVE  OrderFits(new[v], v, rows, starts)
  BY <1>1, <1>2, <1>6
<1> QED BY <1>2, <1>7, <1>8 DEF OrderInv, rows, new

LEMMA CreatedStep ==
    ASSUME RunsAssumption, NEW view \in Rows, NEW c \in Runs
    PROVE  /\ \A r \in Runs : /\ Created(view, c).status[r] = IF r = c THEN "running" ELSE view.status[r]
                              /\ Created(view, c).group[r] = IF r = c THEN 0 ELSE view.group[r]
           /\ \A q \in Steps : Created(view, c).step[q] = IF RunOf[q] = c THEN "pending" ELSE view.step[q]
  BY DEF Created, Rows

LEMMA CreationMoves ==
    ASSUME RunsAssumption, NEW sessions \in [Workers -> Worker], NEW rows \in Rows, NEW n,
           OrderInv(sessions, rows, n), NEW c \in Runs, rows.status[c] = "absent",
           \A v \in Workers : \A i \in 1..Len(sessions[v].calls) :
             /\ sessions[v].calls[i].run \in Runs
             /\ sessions[v].mine.status[sessions[v].calls[i].run] # "absent"
    PROVE  OrderInv(sessions, Created(rows, c), n)
<1> DEFINE new == Created(rows, c)
<1>1. /\ \A r \in Runs : /\ new.status[r] = IF r = c THEN "running" ELSE rows.status[r]
                         /\ new.group[r] = IF r = c THEN 0 ELSE rows.group[r]
      /\ \A q \in Steps : new.step[q] = IF RunOf[q] = c THEN "pending" ELSE rows.step[q]
  BY CreatedStep
<1> HIDE DEF new
<1>2. \A q \in Steps : RunOf[q] \in Runs /\ Group[q] \in Nat
  BY DEF RunsAssumption
<1>3. ASSUME NEW v \in Workers
      PROVE  /\ OrderFits(sessions[v], v, new, n)
             /\ \A q \in Steps : Known(sessions[v], q) => RunOf[q] # c
  <2>1. OrderFits(sessions[v], v, rows, n)
    BY DEF OrderInv
  <2>2. \A q \in Steps : Known(sessions[v], q) => RunOf[q] # c
    BY <1>2, <2>1 DEF OrderFits, StackFits, Known
  <2>3. \A r \in Runs : rows.status[r] # "absent" =>
             new.status[r] # "absent" /\ (new.status[r] = "running" => rows.status[r] = "running")
    BY <1>1
  <2>4. \A q \in Steps : Known(sessions[v], q) => new.step[q] = rows.step[q]
    BY <1>1, <2>2
  <2>5. OrderFits(sessions[v], v, new, n)
    BY <2>1, <2>3, <2>4, OthersFit
  <2> QED BY <2>2, <2>5
<1>4. ASSUME NEW v \in Workers, NEW u \in Workers, v # u, NEW q \in Steps
      PROVE  Apart(v, sessions[v], sessions[u], new, q)
  <2>1. Apart(v, sessions[v], sessions[u], rows, q) /\ StepFits(sessions[v], v, rows, n, q)
    BY <1>4 DEF OrderInv, OrderFits
  <2>2. sessions[v].mine.step[q] # sessions[v].seen.step[q] => RunOf[q] # c
    BY <1>3, <2>1 DEF StepFits
  <2> QED BY <1>1, <1>2, <2>1, <2>2 DEF Apart, Closing
<1>5. RowsInOrder(new)
  <2> SUFFICES ASSUME NEW q \in Steps, new.status[RunOf[q]] = "running"
               PROVE  /\ Group[q] > new.group[RunOf[q]] => new.step[q] = "pending"
                      /\ Group[q] < new.group[RunOf[q]] => new.step[q] \in Over
    BY DEF RowsInOrder
  <2>1. CASE RunOf[q] = c
    BY <1>1, <1>2, <2>1
  <2>2. CASE RunOf[q] # c
    BY <1>1, <1>2, <2>2 DEF OrderInv, RowsInOrder
  <2> QED BY <2>1, <2>2
<1> QED BY <1>3, <1>4, <1>5 DEF OrderInv, new

-----------------------------------------------------------------------------
(* Changes of one session that the database does not see. *)

\* The calls `new` are the bottom of the stack `old`, with less to visit.
Continues(new, old) ==
    /\ Inherits(new, old)
    /\ \A i \in 1..Len(new) : new[i].for = old[i + (Len(old) - Len(new))].for

LEMMA ContinuedCall ==
    ASSUME NEW old \in Seq(Call), NEW new \in Seq(Call), Continues(new, old), NEW i \in 1..Len(new)
    PROVE  /\ i + (Len(old) - Len(new)) \in 1..Len(old)
           /\ new[i] \in Call
           /\ new[i].op = old[i + (Len(old) - Len(new))].op
           /\ new[i].run = old[i + (Len(old) - Len(new))].run
           /\ new[i].left \subseteq old[i + (Len(old) - Len(new))].left
           /\ new[i].for = old[i + (Len(old) - Len(new))].for
<1>1. Len(old) \in Nat /\ Len(new) \in Nat /\ Len(new) <= Len(old)
  BY DEF Inherits, Continues
<1>2. i + (Len(old) - Len(new)) \in 1..Len(old)
  BY <1>1
<1>3. new[i] \in Call
  OBVIOUS
<1> QED BY <1>2, <1>3 DEF Inherits, Continues

LEMMA ContinuedHolds ==
    ASSUME NEW old \in Seq(Call), NEW new \in Seq(Call), Continues(new, old), NEW q
    PROVE  /\ \A i : Waits(new, i, q) => Waits(old, i + (Len(old) - Len(new)), q)
           /\ Holds(new, q) => Holds(old, q)
<1>0. Len(old) \in Nat /\ Len(new) \in Nat /\ Len(new) <= Len(old)
  BY DEF Inherits, Continues
<1>1. ASSUME NEW i, Waits(new, i, q)
      PROVE  Waits(old, i + (Len(old) - Len(new)), q)
  <2>1. i \in 1..Len(new) /\ i + (Len(old) - Len(new)) \in 1..Len(old)
    BY <1>0, <1>1 DEF Waits
  <2> QED BY <1>1, <2>1 DEF Waits, Continues
<1>2. ASSUME NEW i, Dispatches(new, i, q)
      PROVE  /\ Dispatches(old, i + (Len(old) - Len(new)), q)
             /\ i + (Len(old) - Len(new)) \in 1..Len(old)
  BY <1>2, InheritedDispatches DEF Dispatches, Continues
<1>3. ASSUME NEW i, Waits(new, i, q)
      PROVE  i + (Len(old) - Len(new)) \in 1..Len(old)
  BY <1>1, <1>3 DEF Waits
<1> QED BY <1>1, <1>2, <1>3 DEF Holds

LEMMA ContinuesTail ==
    ASSUME NEW calls \in Seq(Call), calls # <<>>
    PROVE  Continues(Tail(calls), calls)
  BY InheritsTail, PoppedCall DEF Continues

LEMMA ContinuesNone == \A calls \in Seq(Call) : Continues(<<>>, calls)
  BY InheritsNone DEF Continues

LEMMA ContinuesVisited ==
    ASSUME NEW calls \in Seq(Call), calls # <<>>, NEW s
    PROVE  Continues([calls EXCEPT ![1].left = @ \ {s}], calls)
<1> DEFINE new == [calls EXCEPT ![1].left = @ \ {s}]
<1>1. /\ new \in Seq(Call) /\ Len(new) = Len(calls)
      /\ new[1] = [calls[1] EXCEPT !.left = @ \ {s}]
      /\ \A i \in 2..Len(calls) : new[i] = calls[i]
  BY VisitedCall
<1>2. calls[1] \in Call /\ Len(calls) \in Nat \ {0}
  BY PoppedCall
<1>3. new[1].for = calls[1].for
  BY <1>1, <1>2 DEF Call
<1> HIDE DEF new
<1>4. ASSUME NEW i \in 1..Len(new)
      PROVE  new[i].for = calls[i + (Len(calls) - Len(new))].for
  <2>1. i + (Len(calls) - Len(new)) = i /\ (i = 1 \/ i \in 2..Len(calls))
    BY <1>1, <1>2
  <2> QED BY <1>1, <1>3, <2>1
<1>5. Inherits(new, calls)
  BY InheritsVisited DEF new
<1>6. Continues(new, calls)
  BY <1>4, <1>5 DEF Continues
<1> QED BY <1>6 DEF new

\* A session whose calls go on, and which closes runs at most.
LEMMA StackGoesOn ==
    ASSUME NEW old, NEW new, NEW rows, StackFits(old, rows),
           old.calls \in Seq(Call), new.calls \in Seq(Call), Continues(new.calls, old.calls),
           \A r \in Runs :
             /\ new.mine.status[r] # "absent" => old.mine.status[r] # "absent"
             /\ new.mine.status[r] = "running" => new.seen.status[r] = "running"
             /\ Closing(old, r, rows) => Closing(new, r, rows)
    PROVE  StackFits(new, rows)
<1>0. Len(old.calls) \in Nat /\ Len(new.calls) \in Nat
  OBVIOUS
<1>a. Len(old.calls) - Len(new.calls) \in Int
  BY <1>0
<1>1. PICK k \in Int : k = Len(old.calls) - Len(new.calls)
  BY <1>a, Zenon
<1>2. \A i \in 1..Len(new.calls) :
        /\ i + k \in 1..Len(old.calls)
        /\ new.calls[i].run \in Runs
        /\ new.calls[i].op = old.calls[i + k].op /\ new.calls[i].run = old.calls[i + k].run
        /\ new.calls[i].left \subseteq old.calls[i + k].left
        /\ new.calls[i].for = old.calls[i + k].for
  <2> SUFFICES ASSUME NEW i \in 1..Len(new.calls)
               PROVE  /\ i + k \in 1..Len(old.calls)
                      /\ new.calls[i] \in Call
                      /\ new.calls[i].op = old.calls[i + k].op
                      /\ new.calls[i].run = old.calls[i + k].run
                      /\ new.calls[i].left \subseteq old.calls[i + k].left
                      /\ new.calls[i].for = old.calls[i + k].for
    BY DEF Call
  <2> QED BY ONLY old.calls \in Seq(Call), new.calls \in Seq(Call), Continues(new.calls, old.calls),
             i \in 1..Len(new.calls), <1>1, ContinuedCall
<1>3. \A i, q : Waits(new.calls, i, q) => i \in 1..Len(new.calls) /\ Waits(old.calls, i + k, q)
  <2> SUFFICES ASSUME NEW i, NEW q, Waits(new.calls, i, q)
               PROVE  Waits(old.calls, i + k, q)
    BY DEF Waits
  <2>1. \A x : Waits(new.calls, x, q) => Waits(old.calls, x + (Len(old.calls) - Len(new.calls)), q)
    BY ONLY old.calls \in Seq(Call), new.calls \in Seq(Call), Continues(new.calls, old.calls),
            ContinuedHolds
  <2> QED BY <1>1, <2>1
<1>4. \A i \in 1..Len(new.calls) : new.calls[i].run \in Runs
  BY <1>2
<1>5. \A i, j, q : Waits(new.calls, i, q) /\ Waits(new.calls, j, q) => q = NoStep \/ i = j
  <2> SUFFICES ASSUME NEW i, NEW j, NEW q, Waits(new.calls, i, q), Waits(new.calls, j, q), q # NoStep
               PROVE  i = j
    OBVIOUS
  <2>1. i \in 1..Len(new.calls) /\ j \in 1..Len(new.calls)
    BY <1>3
  <2>2. i + k = j + k
    BY <1>3 DEF StackFits
  <2> QED BY <2>1, <2>2
<1>6. \A i, j \in 1..Len(new.calls) : new.calls[i].op = "dispatch" => new.calls[j].op = "dispatch"
  BY ZenonT(30), <1>2 DEF StackFits
<1>7. ASSUME NEW i \in 1..Len(new.calls)
      PROVE  LET c == new.calls[i] IN
             /\ c.op # "dispatch" => c.for = NoStep
             /\ c.op = "cancel" => /\ Closing(new, c.run, rows)
                                   /\ \A s \in c.left : RunOf[s] = c.run
  BY <1>2, <1>4 DEF StackFits
<1>8. \A r \in Runs : /\ new.mine.status[r] # "absent" => rows.status[r] # "absent"
                      /\ new.mine.status[r] = "running" => new.seen.status[r] = "running"
  BY DEF StackFits
<1> QED BY <1>5, <1>6, <1>7, <1>8 DEF StackFits

LEMMA IdleFits == ASSUME NEW w, NEW rows, NEW n, RunsAssumption PROVE OrderFits(Idle, w, rows, n)
<1>1. \A q : ~Holds(Idle.calls, q) /\ \A i : ~Waits(Idle.calls, i, q)
  BY DEF Idle, Holds, Waits, Dispatches
<1>2. StackFits(Idle, rows)
  <2>1. Len(Idle.calls) = 0 /\ \A r \in Runs : Idle.mine.status[r] = "absent"
    BY DEF Idle, Empty
  <2>2. 1..Len(Idle.calls) = {}
    BY <2>1
  <2>3. \A i, j, q : Waits(Idle.calls, i, q) /\ Waits(Idle.calls, j, q) => q = NoStep \/ i = j
    BY <1>1
  <2> QED BY <2>1, <2>2, <2>3 DEF StackFits
<1>3. \A q \in Steps : /\ Idle.mine.step[q] = "pending" /\ Idle.seen.step[q] = "pending"
                       /\ Idle.mine.status[RunOf[q]] = "absent" /\ Idle.queue = {}
  BY DEF Idle, Empty, RunsAssumption
<1> QED BY <1>1, <1>2, <1>3 DEF OrderFits, StepFits, PumpFits, Unrecorded, Known, Over

LEMMA EndMoves ==
    ASSUME RunsAssumption, NEW sessions \in [Workers -> Worker], NEW rows, NEW n,
           OrderInv(sessions, rows, n), NEW w \in Workers
    PROVE  OrderInv([sessions EXCEPT ![w] = Idle], rows, n)
<1>1. OrderFits(Idle, w, rows, n)
  BY IdleFits
<1>2. LocalMove(sessions, w, Idle, rows)
  BY DEF LocalMove, Unrecorded, Holds, Waits, Dispatches, Idle, Empty
<1>3. Idle \in Worker
  BY IdleOK
<1> QED BY <1>1, <1>2, <1>3, MovesLocally

\* Session w goes on with its calls, or with fewer, and changes no rows.
LEMMA DropMoves ==
    ASSUME RunsAssumption, NEW sessions \in [Workers -> Worker], NEW rows, NEW n,
           OrderInv(sessions, rows, n), NEW w \in Workers, NEW new \in Worker,
           Continues(new.calls, sessions[w].calls),
           new.mine = sessions[w].mine, new.seen = sessions[w].seen, new.queue = sessions[w].queue
    PROVE  OrderInv([sessions EXCEPT ![w] = new], rows, n)
<1> DEFINE old == sessions[w]
<1>1. old.calls \in Seq(Call) /\ new.calls \in Seq(Call) /\ OrderFits(old, w, rows, n)
  BY DEF Worker, OrderInv
<1> HIDE DEF old
<1>2. \A r : Closing(old, r, rows) <=> Closing(new, r, rows)
  BY DEF Closing, old
<1>3. \A q : /\ Holds(new.calls, q) => Holds(old.calls, q)
             /\ (\E i : Waits(new.calls, i, q)) => (\E i : Waits(old.calls, i, q))
  BY <1>1, ContinuedHolds DEF old
<1>4. \A q : Unrecorded(new, q) => Unrecorded(old, q)
  BY <1>3 DEF Unrecorded, old
<1>5. StackFits(new, rows)
  <2>1. StackFits(old, rows)
    BY <1>1 DEF OrderFits
  <2>2. Continues(new.calls, old.calls)
    BY DEF old
  <2>3. \A r \in Runs :
          /\ new.mine.status[r] # "absent" => old.mine.status[r] # "absent"
          /\ new.mine.status[r] = "running" => new.seen.status[r] = "running"
          /\ Closing(old, r, rows) => Closing(new, r, rows)
    BY <1>2, <2>1 DEF StackFits, old
  <2> QED BY ONLY <1>1, <2>1, <2>2, <2>3, StackGoesOn
<1>6. ASSUME NEW q \in Steps
      PROVE  StepFits(new, w, rows, n, q) /\ (w = Pump => PumpFits(new, rows, q))
  <2>1. StepFits(old, w, rows, n, q) /\ (w = Pump => PumpFits(old, rows, q))
    BY <1>1 DEF OrderFits
  <2>2. StepFits(new, w, rows, n, q)
    BY <1>2, <1>3, <1>4, <2>1 DEF StepFits, Known, old
  <2>3. w = Pump => PumpFits(new, rows, q)
    BY <1>3, <2>1 DEF PumpFits, Known, old
  <2> QED BY <2>2, <2>3
<1>7. LocalMove(sessions, w, new, rows)
  BY <1>2, <1>4 DEF LocalMove, old
<1> QED BY <1>5, <1>6, <1>7, MovesLocally DEF OrderFits

\* Session w records in its copies what became of step s, started or not, and
\* has no more calls that hold it.
LEMMA RecordMoves ==
    ASSUME RunsAssumption, NEW sessions \in [Workers -> Worker], NEW rows, NEW n, NEW m,
           OrderInv(sessions, rows, n), \A q \in Steps : n[q] > 0 => m[q] > 0,
           NEW w \in Workers, NEW new \in Worker, NEW s \in Steps,
           Continues(new.calls, sessions[w].calls),
           Holds(sessions[w].calls, s), ~Holds(new.calls, s),
           new.seen = sessions[w].seen, new.queue = sessions[w].queue,
           new.mine.status = sessions[w].mine.status, new.mine.group = sessions[w].mine.group,
           new.mine.step[s] \in {"running", "failed"},
           \A q \in Steps \ {s} : new.mine.step[q] = sessions[w].mine.step[q]
    PROVE  OrderInv([sessions EXCEPT ![w] = new], rows, m)
<1> DEFINE old == sessions[w]
<1>1. old.calls \in Seq(Call) /\ new.calls \in Seq(Call) /\ OrderFits(old, w, rows, n)
  BY DEF Worker, OrderInv
<1> HIDE DEF old
<1>2. \A r : Closing(old, r, rows) <=> Closing(new, r, rows)
  BY DEF Closing, old
<1>3. \A q : /\ Holds(new.calls, q) => Holds(old.calls, q)
             /\ (\E i : Waits(new.calls, i, q)) => (\E i : Waits(old.calls, i, q))
  BY <1>1, ContinuedHolds DEF old
<1>4. Unrecorded(old, s) /\ \A q \in Steps : Unrecorded(new, q) => Unrecorded(old, q)
  BY <1>3 DEF Unrecorded, old
<1>5. StackFits(new, rows)
  <2>1. StackFits(old, rows)
    BY <1>1 DEF OrderFits
  <2>2. Continues(new.calls, old.calls)
    BY DEF old
  <2>3. \A r \in Runs :
          /\ new.mine.status[r] # "absent" => old.mine.status[r] # "absent"
          /\ new.mine.status[r] = "running" => new.seen.status[r] = "running"
          /\ Closing(old, r, rows) => Closing(new, r, rows)
    BY <1>2, <2>1 DEF StackFits, old
  <2> QED BY ONLY <1>1, <2>1, <2>2, <2>3, StackGoesOn
<1>6. ASSUME NEW q \in Steps
      PROVE  StepFits(new, w, rows, m, q) /\ (w = Pump => PumpFits(new, rows, q))
  <2>1. /\ StepFits(old, w, rows, n, q) /\ (w = Pump => PumpFits(old, rows, q))
        /\ Group[q] \in Nat /\ (n[q] > 0 => m[q] > 0)
    BY <1>1 DEF OrderFits, RunsAssumption
  <2>2. Known(new, q) <=> Known(old, q)
    BY DEF Known, old
  <2>3. CASE q = s
    <3>1. /\ Holds(old.calls, q) /\ Unrecorded(old, q) /\ ~Holds(new.calls, q)
          /\ new.mine.step[q] \in {"running", "failed"} /\ new.seen = old.seen /\ new.queue = old.queue
          /\ new.mine.group = old.mine.group
      BY <1>4, <2>3 DEF old
    <3>2. old.mine.step[q] = "pending" /\ old.seen.step[q] = "pending" /\ Known(old, q)
      BY <2>1, <3>1 DEF StepFits
    <3>3. StepFits(new, w, rows, m, q)
      BY <1>3, <2>1, <2>2, <3>1, <3>2 DEF StepFits
    <3>4. w = Pump => PumpFits(new, rows, q)
      BY <2>1, <2>2, <3>1, <3>2 DEF PumpFits, Over
    <3> QED BY <3>3, <3>4
  <2>4. CASE q # s
    <3>1. /\ new.mine.step[q] = old.mine.step[q] /\ new.seen = old.seen /\ new.queue = old.queue
          /\ new.mine.group = old.mine.group
      BY <2>4 DEF old
    <3>2. StepFits(new, w, rows, m, q)
      BY <1>2, <1>3, <1>4, <2>1, <2>2, <3>1 DEF StepFits
    <3>3. w = Pump => PumpFits(new, rows, q)
      BY <1>3, <2>1, <2>2, <3>1 DEF PumpFits
    <3> QED BY <3>2, <3>3
  <2> QED BY <2>3, <2>4
<1>7. LocalMove(sessions, w, new, rows)
  BY <1>2, <1>4 DEF LocalMove, old
<1> QED BY <1>5, <1>6, <1>7, MovesLocally DEF OrderFits

\* The pump gives up the calls of a run whose dispatch has raised.
LEMMA RaiseMoves ==
    ASSUME RunsAssumption, NEW sessions \in [Workers -> Worker], NEW rows, NEW n,
           OrderInv(sessions, rows, n), NEW new \in Worker, new.calls = <<>>,
           new.seen = sessions[Pump].seen, new.queue = sessions[Pump].queue,
           new.mine.step = sessions[Pump].mine.step, new.mine.group = sessions[Pump].mine.group,
           \A r \in Runs :
             /\ new.mine.status[r] = "absent" <=> sessions[Pump].mine.status[r] = "absent"
             /\ new.mine.status[r] = "running" => sessions[Pump].mine.status[r] = "running"
    PROVE  OrderInv([sessions EXCEPT ![Pump] = new], rows, n)
<1> DEFINE old == sessions[Pump]
<1>1. Pump \in Workers /\ OrderFits(old, Pump, rows, n)
  BY DEF OrderInv, Workers
<1> HIDE DEF old
<1>2. \A q : ~Holds(new.calls, q) /\ \A i : ~Waits(new.calls, i, q)
  BY DEF Holds, Waits, Dispatches
<1>3. StackFits(new, rows)
  <2>1. 1..Len(new.calls) = {}
    OBVIOUS
  <2>2. \A i, j, q : Waits(new.calls, i, q) /\ Waits(new.calls, j, q) => q = NoStep \/ i = j
    BY <1>2
  <2>3. \A r \in Runs : /\ new.mine.status[r] # "absent" => rows.status[r] # "absent"
                        /\ new.mine.status[r] = "running" => new.seen.status[r] = "running"
    BY <1>1 DEF OrderFits, StackFits, old
  <2> QED BY <2>1, <2>2, <2>3 DEF StackFits
<1>4. ASSUME NEW q \in Steps
      PROVE  StepFits(new, Pump, rows, n, q) /\ PumpFits(new, rows, q)
  <2>1. StepFits(old, Pump, rows, n, q) /\ PumpFits(old, rows, q) /\ RunOf[q] \in Runs
    BY <1>1 DEF OrderFits, RunsAssumption
  <2>2. /\ Known(new, q) <=> Known(old, q)
        /\ Unrecorded(new, q) => Unrecorded(old, q)
    BY <1>2, <2>1 DEF Known, Unrecorded, old
  <2>3. StepFits(new, Pump, rows, n, q)
    BY <1>2, <2>1, <2>2 DEF StepFits, old
  <2>4. PumpFits(new, rows, q)
    BY <1>2, <2>1, <2>2 DEF PumpFits, old
  <2> QED BY <2>3, <2>4
<1>5. LocalMove(sessions, Pump, new, rows)
  BY <1>2 DEF LocalMove, Unrecorded, old
<1> QED BY <1>1, <1>3, <1>4, <1>5, MovesLocally DEF OrderFits

\* The pump settles running steps of a run r of its pass, and leaves it or goes
\* on to dispatch its next group.
LEMMA TurnMoves ==
    ASSUME RunsAssumption, NEW sessions \in [Workers -> Worker], NEW rows, NEW n,
           OrderInv(sessions, rows, n), NEW new \in Worker, NEW r \in sessions[Pump].queue,
           sessions[Pump].calls = <<>>, new.queue = sessions[Pump].queue \ {r},
           new.seen = sessions[Pump].seen,
           sessions[Pump].mine.status[r] # "absent", rows.group[r] = sessions[Pump].mine.group[r],
           \A x \in Runs :
             /\ new.mine.status[x] = "absent" <=> sessions[Pump].mine.status[x] = "absent"
             /\ new.mine.status[x] = "running" => sessions[Pump].mine.status[x] = "running"
             /\ x # r => new.mine.group[x] = sessions[Pump].mine.group[x],
           \A q \in Steps :
             \/ new.mine.step[q] = sessions[Pump].mine.step[q]
             \/ RunOf[q] = r /\ sessions[Pump].mine.step[q] = "running" /\ new.mine.step[q] \in Over,
           \/ new.calls = <<>> /\ new.mine.group[r] = sessions[Pump].mine.group[r]
           \/ /\ new.calls = <<CallOn("dispatch", r, GroupSteps(r, new.mine.group[r]), NoStep)>>
              /\ sessions[Pump].mine.group[r] < new.mine.group[r]
              /\ \A q \in StepsOf(r) : Group[q] < new.mine.group[r] => new.mine.step[q] \in Over
    PROVE  OrderInv([sessions EXCEPT ![Pump] = new], rows, n)
<1> DEFINE old == sessions[Pump]
           g == new.mine.group[r]
<1>1. /\ Pump \in Workers /\ OrderFits(old, Pump, rows, n) /\ r \in Runs
      /\ old.mine.group[r] \in Nat /\ g \in Nat
  BY DEF OrderInv, Workers, Worker, Rows
<1>2. old.mine.group[r] <= g /\ \A x \in Runs : x = r \/ new.mine.group[x] = old.mine.group[x]
  BY <1>1
<1>3. \A q : /\ \A i : Waits(new.calls, i, q) => q = NoStep
             /\ Holds(new.calls, q) =>
                  \/ q = NoStep
                  \/ /\ RunOf[q] = r /\ Group[q] = g /\ q \in Steps /\ old.mine.group[r] < g
             /\ ~Holds(old.calls, q)
  <2> DEFINE c == CallOn("dispatch", r, GroupSteps(r, g), NoStep)
  <2>1. c.op = "dispatch" /\ c.for = NoStep /\ c.left = GroupSteps(r, g)
    BY DEF CallOn
  <2>2. \A q : q \in GroupSteps(r, g) => RunOf[q] = r /\ Group[q] = g /\ q \in Steps
    BY DEF GroupSteps, StepsOf
  <2>3. new.calls = <<>> \/ (new.calls = <<c>> /\ old.mine.group[r] < g)
    OBVIOUS
  <2> HIDE DEF c, g
  <2>4. CASE new.calls = <<>>
    BY <2>4 DEF Waits, Holds, Dispatches
  <2>5. CASE new.calls = <<c>> /\ old.mine.group[r] < g
    <3>1. \A i : i \in 1..Len(new.calls) => new.calls[i] = c
      BY <2>5
    <3>2. \A q : ~Holds(old.calls, q)
      BY DEF Waits, Holds, Dispatches
    <3> QED BY <2>1, <2>2, <2>5, <3>1, <3>2 DEF Waits, Holds, Dispatches
  <2> QED BY <2>3, <2>4, <2>5
<1>5. \A i \in 1..Len(new.calls) : new.calls[i].op = "dispatch" /\ new.calls[i].for = NoStep
  BY DEF CallOn
<1>6. \A q \in Steps : /\ Group[q] \in Nat /\ RunOf[q] \in Runs /\ q # NoStep
                       /\ StepFits(old, Pump, rows, n, q) /\ PumpFits(old, rows, q)
                       /\ Known(new, q) <=> Known(old, q)
  BY <1>1 DEF RunsAssumption, OrderFits, Known
<1>14. new.calls = <<>> => g = old.mine.group[r]
  OBVIOUS
<1>7. \A q \in Steps : RunOf[q] = r /\ Group[q] < g /\ new.calls # <<>> => new.mine.step[q] \in Over
  BY DEF StepsOf
<1> HIDE DEF g, old
<1>8. StackFits(new, rows)
  <2>1. \A r1 \in Runs : /\ new.mine.status[r1] # "absent" => rows.status[r1] # "absent"
                         /\ new.mine.status[r1] = "running" => new.seen.status[r1] = "running"
    <3>1. StackFits(old, rows)
      BY <1>1 DEF OrderFits
    <3>2. \A x \in Runs : /\ old.mine.status[x] # "absent" => rows.status[x] # "absent"
                          /\ old.mine.status[x] = "running" => old.seen.status[x] = "running"
      BY <3>1 DEF StackFits
    <3> QED BY <3>2 DEF old
  <2>2. \A i, j, q : Waits(new.calls, i, q) /\ Waits(new.calls, j, q) => q = NoStep \/ i = j
    BY <1>3
  <2> QED BY <1>5, <2>1, <2>2 DEF StackFits
<1>9. ASSUME NEW q \in Steps, Holds(new.calls, q)
      PROVE  /\ RunOf[q] = r /\ Group[q] = g /\ Group[q] # 0
             /\ old.mine.step[q] = "pending" /\ new.mine.step[q] = "pending" /\ Known(new, q)
             /\ rows.step[q] = "pending" \/ rows.status[r] # "running"
  <2>1. RunOf[q] = r /\ Group[q] = g /\ old.mine.group[r] < g /\ Group[q] # 0
    BY <1>1, <1>3, <1>6, <1>9
  <2>2. old.mine.step[q] = "pending"
    BY <1>1, <1>6, <2>1 DEF PumpFits, old
  <2>3. new.mine.step[q] = "pending" /\ Known(new, q)
    BY <1>6, <2>1, <2>2 DEF Known, old
  <2>4. rows.step[q] = "pending" \/ rows.status[r] # "running"
    BY <2>1 DEF OrderInv, RowsInOrder, old
  <2> QED BY <2>1, <2>2, <2>3, <2>4
<1>10. ASSUME NEW q \in Steps, Unrecorded(new, q)
       PROVE  Unrecorded(old, q) \/ Holds(new.calls, q)
  BY <1>10 DEF Unrecorded, Over, old
<1>11. ASSUME NEW q \in Steps
       PROVE  StepFits(new, Pump, rows, n, q) /\ PumpFits(new, rows, q)
  <2>1. StepFits(old, Pump, rows, n, q) /\ PumpFits(old, rows, q)
    BY <1>6
  <2>2. new.mine.step[q] = old.mine.step[q] \/ new.mine.step[q] \in Over
    BY DEF old
  <2>3. StepFits(new, Pump, rows, n, q)
    BY <1>3, <1>6, <1>9, <1>10, <2>1, <2>2 DEF StepFits, Over, old
  <2>4. PumpFits(new, rows, q)
    <3> DEFINE h == new.mine.group[RunOf[q]]
               k == old.mine.group[RunOf[q]]
    <3>0. h \in Nat /\ k \in Nat
      <4>1. new.mine.group \in [Runs -> Nat] /\ old.mine.group \in [Runs -> Nat]
        BY <1>1 DEF old, Worker, Rows
      <4> QED BY <1>6, <4>1
    <3>1. h \in Nat /\ k \in Nat /\ Group[q] \in Nat /\ k <= h
      <4>1. RunOf[q] = r => h = g
        BY DEF g
      <4>2. RunOf[q] # r => h = k
        BY <1>2, <1>6
      <4> HIDE DEF h
      <4> QED BY <1>2, <1>6, <3>0, <4>1, <4>2
    <3>2. Known(new, q) /\ Group[q] < h => new.mine.step[q] \in Over
      <4>1. CASE RunOf[q] = r /\ new.calls # <<>>
        BY <1>7, <4>1 DEF g
      <4>2. CASE ~(RunOf[q] = r /\ new.calls # <<>>)
        <5>1. h = k
          BY <1>2, <1>6, <1>14, <4>2 DEF g
        <5> QED BY <1>6, <2>1, <2>2, <5>1 DEF PumpFits
      <4> QED BY <4>1, <4>2
    <3>3. new.seen.step[q] \in Over => new.mine.step[q] \in Over /\ rows.step[q] \in Over
      BY <2>1, <2>2 DEF PumpFits, old
    <3>4. new.mine.step[q] # new.seen.step[q] => Group[q] <= h
      <4>1. CASE new.mine.step[q] = old.mine.step[q]
        <5>1. new.mine.step[q] # new.seen.step[q] => Group[q] <= k
          BY <2>1, <4>1 DEF PumpFits, old
        <5> HIDE DEF h, k
        <5> QED BY <3>1, <5>1
      <4>2. CASE new.mine.step[q] # old.mine.step[q]
        <5>1. RunOf[q] = r /\ old.mine.step[q] = "running"
          BY <4>2 DEF old
        <5>2. ~(Group[q] > k)
          BY <2>1, <5>1 DEF PumpFits, old
        <5> HIDE DEF h, k
        <5> QED BY <3>1, <5>2
      <4> QED BY <4>1, <4>2
    <3>5. RunOf[q] \in new.queue =>
            new.mine.step[q] = new.seen.step[q] /\ (Group[q] > h => new.mine.step[q] = "pending")
      BY <1>6, <2>1 DEF PumpFits, old
    <3>6. Holds(new.calls, q) => Group[q] = h /\ RunOf[q] \notin new.queue
      BY <1>9 DEF g
    <3> QED BY <3>2, <3>3, <3>4, <3>5, <3>6 DEF PumpFits
  <2> QED BY <2>3, <2>4
<1>12. ASSUME NEW q \in Steps, Holds(new.calls, q)
       PROVE  Free(sessions, Pump, rows, q)
  <2> SUFFICES ASSUME NEW v \in Workers \ {Pump}
               PROVE  /\ ~Unrecorded(sessions[v], q)
                      /\ sessions[v].mine.step[q] # sessions[v].seen.step[q]
                           => Closing(sessions[v], RunOf[q], rows)
    BY DEF Free
  <2>1. StepFits(sessions[v], v, rows, n, q)
    BY DEF OrderInv, OrderFits
  <2> QED BY <1>9, <1>12, <2>1 DEF StepFits
<1>13. LocalMove(sessions, Pump, new, rows)
  <2>1. \A q \in Steps : new.mine.step[q] # "pending" => old.mine.step[q] # "pending"
    BY DEF old
  <2> QED BY <1>10, <1>12, <2>1 DEF LocalMove, old
<1> QED BY <1>1, <1>8, <1>11, <1>13, MovesLocally DEF OrderFits

\* Session w dispatches a run c that only the database has, on top of its calls
\* and, where c is a sub-workflow, for a step of theirs.
LEMMA BornMoves ==
    ASSUME RunsAssumption, NEW sessions \in [Workers -> Worker], NEW rows, NEW n, NEW m,
           OrderInv(sessions, rows, n), \A q \in Steps : n[q] > 0 => m[q] > 0,
           NEW w \in Workers, NEW new \in Worker, NEW c \in Runs, NEW s \in Steps \cup {NoStep},
           NEW calls \in Seq(Call), Continues(calls, sessions[w].calls),
           \A i \in 1..Len(calls) : calls[i].op = "dispatch",
           new.calls = <<CallOn("dispatch", c, GroupSteps(c, 0), s)>> \o calls,
           s \in Steps => /\ Holds(sessions[w].calls, s) /\ m[s] > 0
                          /\ \A i : ~Waits(sessions[w].calls, i, s),
           sessions[w].seen = sessions[w].mine,
           new.seen = Created(sessions[w].mine, c), new.mine = Created(sessions[w].mine, c),
           new.queue = sessions[w].queue, c \notin sessions[w].queue,
           \A v \in Workers : sessions[v].mine.status[c] = "absent",
           rows.status[c] # "absent", \A q \in StepsOf(c) : rows.step[q] = "pending"
    PROVE  OrderInv([sessions EXCEPT ![w] = new], rows, m)
<1> DEFINE old == sessions[w]
           top == CallOn("dispatch", c, GroupSteps(c, 0), s)
<1>1. old.calls \in Seq(Call) /\ old.mine \in Rows /\ OrderFits(old, w, rows, n)
  BY DEF Worker, OrderInv
<1>2. top \in Call /\ top.op = "dispatch" /\ top.run = c /\ top.left = GroupSteps(c, 0) /\ top.for = s
  BY CallOK, GroupStepsOK DEF CallOn
<1>3. /\ Len(new.calls) = Len(calls) + 1 /\ new.calls[1] = top /\ Len(calls) \in Nat
      /\ \A i \in 1..Len(calls) : new.calls[i + 1] = calls[i]
  BY <1>2, PushedCall
<1>4. \A r \in Runs : /\ new.mine.status[r] = IF r = c THEN "running" ELSE old.mine.status[r]
                      /\ new.mine.group[r] = IF r = c THEN 0 ELSE old.mine.group[r]
  BY <1>1, CreatedStep
<1>5. \A q \in Steps : new.mine.step[q] = IF RunOf[q] = c THEN "pending" ELSE old.mine.step[q]
  BY <1>1, CreatedStep
<1>6. /\ new.seen = new.mine /\ new.queue = old.queue /\ old.seen = old.mine
      /\ old.mine.status[c] = "absent" /\ c \notin old.queue
  OBVIOUS
<1>7. /\ s \in Steps => /\ Holds(old.calls, s) /\ m[s] > 0 /\ \A i : ~Waits(old.calls, i, s)
      /\ Continues(calls, old.calls)
  OBVIOUS
<1> HIDE DEF old, top
<1>8. \A i \in 1..Len(new.calls) : i = 1 \/ (i - 1 \in 1..Len(calls) /\ new.calls[i] = calls[i - 1])
  <2> SUFFICES ASSUME NEW i \in 1..Len(new.calls), i # 1
               PROVE  i - 1 \in 1..Len(calls) /\ new.calls[i] = calls[i - 1]
    OBVIOUS
  <2>1. i - 1 \in 1..Len(calls) /\ i = (i - 1) + 1
    BY <1>3
  <2>2. new.calls[(i - 1) + 1] = calls[i - 1]
    BY <1>3, <2>1
  <2> QED BY <2>1, <2>2
<1>9. \A q : /\ Holds(calls, q) => Holds(old.calls, q)
             /\ (\E i : Waits(calls, i, q)) => (\E i : Waits(old.calls, i, q))
  <2> SUFFICES ASSUME NEW q
               PROVE  /\ Holds(calls, q) => Holds(old.calls, q)
                      /\ (\E i : Waits(calls, i, q)) => (\E i : Waits(old.calls, i, q))
    OBVIOUS
  <2>1. /\ \A i : Waits(calls, i, q) => Waits(old.calls, i + (Len(old.calls) - Len(calls)), q)
        /\ Holds(calls, q) => Holds(old.calls, q)
    BY ONLY <1>1, <1>7, calls \in Seq(Call), ContinuedHolds
  <2> QED BY ONLY <2>1
<1>10. \A i, q : Waits(new.calls, i, q) => (i = 1 /\ q = s) \/ Waits(calls, i - 1, q)
  BY <1>2, <1>3, <1>8 DEF Waits
<1>11. \A q : Holds(new.calls, q) => q \in GroupSteps(c, 0) \/ q = s \/ Holds(calls, q)
  <2> SUFFICES ASSUME NEW q, NEW i \in 1..Len(new.calls),
                      Dispatches(new.calls, i, q) \/ Waits(new.calls, i, q), q # s, ~(q \in GroupSteps(c, 0))
               PROVE  Holds(calls, q)
    BY DEF Holds
  <2>1. i # 1
    BY <1>2, <1>3 DEF Dispatches, Waits
  <2>2. i - 1 \in 1..Len(calls) /\ new.calls[i] = calls[i - 1]
    BY <1>8, <2>1
  <2>3. Dispatches(calls, i - 1, q) \/ Waits(calls, i - 1, q)
    BY <2>2 DEF Dispatches, Waits
  <2> QED BY <2>2, <2>3 DEF Holds
<1>12. \A q \in Steps : Holds(new.calls, q) =>
          (RunOf[q] = c /\ Group[q] = 0) \/ (Holds(old.calls, q) /\ RunOf[q] # c)
  <2> SUFFICES ASSUME NEW q \in Steps, Holds(new.calls, q), ~(q \in GroupSteps(c, 0))
               PROVE  Holds(old.calls, q) /\ RunOf[q] # c
    BY DEF GroupSteps, StepsOf
  <2>1. Holds(old.calls, q)
    BY <1>7, <1>9, <1>11
  <2>2. Known(old, q)
    BY <1>1, <2>1 DEF OrderFits, StepFits
  <2> QED BY <1>6, <2>1, <2>2 DEF Known
<1>13. StackFits(new, rows)
  <2>1. StackFits(old, rows)
    BY <1>1 DEF OrderFits
  <2>2. \A r \in Runs : /\ new.mine.status[r] # "absent" => rows.status[r] # "absent"
                        /\ new.mine.status[r] = "running" => new.seen.status[r] = "running"
    BY ZenonT(30), <1>4, <1>6, <2>1 DEF StackFits
  <2>3. \A i \in 1..Len(new.calls) : new.calls[i].op = "dispatch"
    BY <1>2, <1>3, <1>8
  <2>4. \A i, j, q : Waits(new.calls, i, q) /\ Waits(new.calls, j, q) => q = NoStep \/ i = j
    <3> SUFFICES ASSUME NEW i, NEW j, NEW q, Waits(new.calls, i, q), Waits(new.calls, j, q), q # NoStep
                 PROVE  i = j
      OBVIOUS
    <3>1. i \in 1..Len(new.calls) /\ j \in 1..Len(new.calls)
      BY DEF Waits
    <3>2. \A x : ~Waits(calls, x, s) \/ s = NoStep
      BY <1>7, <1>9
    <3>3. CASE i = 1 \/ j = 1
      <4>1. q = s
        BY <1>2, <1>3, <3>3 DEF Waits
      <4> QED BY <1>10, <3>2, <4>1
    <3>4. CASE i # 1 /\ j # 1
      <4>1. Waits(calls, i - 1, q) /\ Waits(calls, j - 1, q)
        BY <1>10, <3>4
      <4>2. PICK k : k = Len(old.calls) - Len(calls)
        OBVIOUS
      <4>3. Waits(old.calls, (i - 1) + k, q) /\ Waits(old.calls, (j - 1) + k, q)
        BY <1>1, <1>7, <4>1, <4>2, ContinuedHolds
      <4>4. (i - 1) + k = (j - 1) + k
        BY <2>1, <4>3 DEF StackFits
      <4>5. Len(old.calls) \in Nat /\ Len(calls) \in Nat
        BY <1>1
      <4>6. k \in Int
        BY <4>2, <4>5
      <4> QED BY <3>1, <4>4, <4>6
    <3> QED BY <3>3, <3>4
  <2> QED BY <2>2, <2>3, <2>4 DEF StackFits
<1>14. \A q \in Steps : Unrecorded(new, q) => (RunOf[q] = c \/ Unrecorded(old, q))
  BY <1>6, <1>12 DEF Unrecorded
<1>15. ASSUME NEW q \in Steps
       PROVE  StepFits(new, w, rows, m, q) /\ (w = Pump => PumpFits(new, rows, q))
  <2>1. /\ StepFits(old, w, rows, n, q) /\ (w = Pump => PumpFits(old, rows, q))
        /\ RunOf[q] \in Runs /\ Group[q] \in Nat /\ q # NoStep
    BY <1>1 DEF OrderFits, RunsAssumption
  <2>2. CASE RunOf[q] = c
    <3>1. /\ new.mine.step[q] = "pending" /\ new.seen.step[q] = "pending" /\ rows.step[q] = "pending"
          /\ new.mine.group[RunOf[q]] = 0 /\ RunOf[q] \notin new.queue /\ Known(new, q) /\ ~Known(old, q)
      BY <1>4, <1>5, <1>6, <2>1, <2>2 DEF Known, StepsOf
    <3>2. Holds(new.calls, q) => Group[q] = 0
      BY <1>12, <2>2
    <3>3. \A i : ~Waits(new.calls, i, q)
      <4>1. ~Holds(old.calls, q)
        BY <2>1, <3>1 DEF StepFits
      <4>2. \A i : ~Waits(calls, i, q)
        BY <1>9, <4>1 DEF Holds, Waits
      <4> QED BY <1>7, <1>10, <2>1, <4>1, <4>2
    <3>4. Unrecorded(new, q) => Group[q] = 0
      BY <3>1, <3>2 DEF Unrecorded
    <3>5. StepFits(new, w, rows, m, q)
      BY <3>1, <3>2, <3>3, <3>4 DEF StepFits
    <3>6. w = Pump => PumpFits(new, rows, q)
      BY <2>1, <3>1, <3>2 DEF PumpFits, Over
    <3> QED BY <3>5, <3>6
  <2>3. CASE RunOf[q] # c
    <3>1. /\ new.mine.step[q] = old.mine.step[q] /\ new.seen.step[q] = old.seen.step[q]
          /\ new.mine.group[RunOf[q]] = old.mine.group[RunOf[q]] /\ new.queue = old.queue
          /\ Known(new, q) <=> Known(old, q)
      BY <1>4, <1>5, <1>6, <2>1, <2>3 DEF Known
    <3>2. /\ Holds(new.calls, q) => Holds(old.calls, q)
          /\ Unrecorded(new, q) => Unrecorded(old, q)
      BY <1>12, <1>14, <2>3
    <3>3. \A i : Waits(new.calls, i, q) => m[q] > 0
      <4>1. (\E i : Waits(old.calls, i, q)) => m[q] > 0
        BY <2>1 DEF StepFits
      <4> QED BY <1>7, <1>9, <1>10, <4>1
    <3>4. new.mine.step[q] = new.seen.step[q]
      BY <1>6
    <3>5. StepFits(new, w, rows, m, q)
      BY <2>1, <3>1, <3>2, <3>3, <3>4 DEF StepFits
    <3>6. w = Pump => PumpFits(new, rows, q)
      BY <2>1, <3>1, <3>2 DEF PumpFits
    <3> QED BY <3>5, <3>6
  <2> QED BY <2>2, <2>3
<1>16. ASSUME NEW q \in Steps, RunOf[q] = c
       PROVE  Free(sessions, w, rows, q)
  <2> SUFFICES ASSUME NEW v \in Workers \ {w}
               PROVE  /\ ~Unrecorded(sessions[v], q)
                      /\ sessions[v].mine.step[q] = sessions[v].seen.step[q]
                      /\ sessions[v].mine.step[q] = "pending"
    BY DEF Free
  <2>1. StepFits(sessions[v], v, rows, n, q) /\ ~Known(sessions[v], q)
    BY <1>16 DEF OrderInv, OrderFits, Known
  <2> QED BY <2>1 DEF StepFits, Unrecorded
<1>17. LocalMove(sessions, w, new, rows)
  <2>1. \A q \in Steps : /\ new.mine.step[q] = new.seen.step[q]
                         /\ new.mine.step[q] # "pending" => old.mine.step[q] # "pending"
    BY <1>5, <1>6
  <2> QED BY <1>14, <1>16, <2>1 DEF LocalMove, old
<1> QED BY <1>13, <1>15, <1>17, MovesLocally DEF OrderFits

\* A session of a request opens on run r, which it is to cancel.
LEMMA CancelMoves ==
    ASSUME RunsAssumption, TypeOK, OrderInv(worker, db, starts), NEW w \in Workers, w # Pump,
           NEW r \in Runs, db.status[r] = "running", NEW S \in SUBSET StepsOf(r), NEW new \in Worker,
           new.calls = <<CallOn("cancel", r, S, NoStep)>>,
           new.seen = Load(Empty, {r}), new.mine = Canceled(Load(Empty, {r}), r), new.queue = {}
    PROVE  OrderInv([worker EXCEPT ![w] = new], db, starts)
<1> DEFINE top == CallOn("cancel", r, S, NoStep)
<1>1. top.op = "cancel" /\ top.run = r /\ top.left = S /\ top.for = NoStep
  BY DEF CallOn
<1>2. new.calls = <<top>>
  OBVIOUS
<1> HIDE DEF top
<1>3. \A i \in 1..Len(new.calls) : new.calls[i] = top
  BY <1>2
<1>4. \A q \in Steps : ~Holds(new.calls, q) /\ \A i : ~Waits(new.calls, i, q)
  BY <1>1, <1>3 DEF Holds, Waits, Dispatches, RunsAssumption
<1>5. \A x \in Runs : /\ new.mine.status[x] = IF x = r THEN "canceled" ELSE "absent"
                      /\ new.seen.status[x] = IF x = r THEN "running" ELSE "absent"
  BY DEF Canceled, Load, Empty
<1>6. \A q \in Steps : /\ RunOf[q] \in Runs
                       /\ new.mine.step[q] = new.seen.step[q]
                       /\ new.mine.step[q] # "pending" => RunOf[q] = r
  BY DEF Canceled, Load, Empty, RunsAssumption
<1>7. Closing(new, r, db)
  BY <1>5 DEF Closing
<1>8. StackFits(new, db)
  <2>1. \A i, j, q : Waits(new.calls, i, q) /\ Waits(new.calls, j, q) => q = NoStep \/ i = j
    BY <1>1, <1>3 DEF Waits
  <2>2. \A s \in S : RunOf[s] = r
    BY DEF StepsOf
  <2> QED BY ZenonT(30), <1>1, <1>3, <1>5, <1>7, <2>1, <2>2 DEF StackFits
<1>9. \A q \in Steps : StepFits(new, w, db, starts, q) /\ ~Unrecorded(new, q)
  BY <1>4, <1>5, <1>6 DEF StepFits, Known, Unrecorded
<1>10. LocalMove(worker, w, new, db)
  BY <1>6, <1>9 DEF LocalMove
<1>11. worker \in [Workers -> Worker] /\ OrderFits(new, w, db, starts)
  BY <1>8, <1>9 DEF OrderFits, TypeOK
<1> QED BY <1>10, <1>11, MovesLocally

\* A request alone at work is to cancel a step of a first group.
LEMMA StepCancelMoves ==
    ASSUME RunsAssumption, TypeOK, OrderInv(worker, db, starts), NEW w \in Workers, w # Pump,
           \A v \in Workers : worker[v] = Idle, NEW s \in Steps, Group[s] = 0,
           NEW r \in Runs, r = RunOf[s], db.status[r] = "running", NEW new \in Worker,
           new.calls = <<CallOn("save", r, {}, NoStep)>>,
           new.seen = Load(Empty, {r}), new.mine = Mark(Load(Empty, {r}), s, "failed"), new.queue = {}
    PROVE  OrderInv([worker EXCEPT ![w] = new], db, starts)
<1> DEFINE top == CallOn("save", r, {}, NoStep)
<1>1. top.op = "save" /\ top.for = NoStep /\ new.calls = <<top>>
  BY DEF CallOn
<1> HIDE DEF top
<1>2. \A i \in 1..Len(new.calls) : new.calls[i] = top
  BY <1>1
<1>3. \A q \in Steps : ~Holds(new.calls, q) /\ \A i : ~Waits(new.calls, i, q)
  BY <1>1, <1>2 DEF Holds, Waits, Dispatches, RunsAssumption
<1>4. \A x \in Runs : /\ new.mine.status[x] = IF x = r THEN "running" ELSE "absent"
                      /\ new.seen.status[x] = IF x = r THEN "running" ELSE "absent"
  BY DEF Mark, Load, Empty
<1>5. \A q \in Steps : /\ RunOf[q] \in Runs
                       /\ q # s => new.mine.step[q] = new.seen.step[q]
                       /\ new.mine.step[q] # "pending" => RunOf[q] = r
                       /\ new.mine.step[s] = "failed"
  BY DEF Mark, Load, Empty, RunsAssumption
<1>6. StackFits(new, db)
  <2>1. \A i, j, q : Waits(new.calls, i, q) /\ Waits(new.calls, j, q) => q = NoStep \/ i = j
    BY <1>1, <1>2 DEF Waits
  <2> QED BY <1>1, <1>2, <1>4, <2>1 DEF StackFits
<1>7. \A q \in Steps : StepFits(new, w, db, starts, q) /\ ~Unrecorded(new, q)
  BY <1>3, <1>4, <1>5 DEF StepFits, Known, Unrecorded
<1>8. \A q \in Steps : Free(worker, w, db, q)
  BY DEF Free, Unrecorded, Holds, Waits, Dispatches, Idle, Empty
<1>9. LocalMove(worker, w, new, db)
  BY <1>7, <1>8 DEF LocalMove
<1>10. worker \in [Workers -> Worker] /\ OrderFits(new, w, db, starts)
  BY <1>6, <1>7 DEF OrderFits, TypeOK
<1> QED BY <1>9, <1>10, MovesLocally

\* The pump loads running runs.
LEMMA PassMoves ==
    ASSUME RunsAssumption, TypeOK, OrderInv(worker, db, starts), NEW Q \in SUBSET Runs,
           \A r \in Q : db.status[r] = "running", NEW new \in Worker,
           new.calls = <<>>, new.seen = Load(Empty, Q), new.mine = Load(Empty, Q), new.queue = Q
    PROVE  OrderInv([worker EXCEPT ![Pump] = new], db, starts)
<1>1. \A q \in Steps : ~Holds(new.calls, q) /\ \A i : ~Waits(new.calls, i, q)
  BY DEF Holds, Waits, Dispatches
<1>2. \A x \in Runs : new.mine.status[x] = IF x \in Q THEN db.status[x] ELSE "absent"
  BY DEF Load, Empty
<1>3. \A q \in Steps : /\ RunOf[q] \in Runs /\ new.mine = new.seen
                       /\ new.mine.step[q] = IF RunOf[q] \in Q THEN db.step[q] ELSE "pending"
                       /\ RunOf[q] \in Q => new.mine.group[RunOf[q]] = db.group[RunOf[q]]
                       /\ Known(new, q) <=> RunOf[q] \in Q
  BY DEF Load, Empty, RunsAssumption, Known
<1>4. StackFits(new, db)
  <2>1. 1..Len(new.calls) = {}
    OBVIOUS
  <2>2. \A i, j, q : Waits(new.calls, i, q) /\ Waits(new.calls, j, q) => q = NoStep \/ i = j
    BY DEF Waits
  <2>3. \A r \in Runs : /\ new.mine.status[r] # "absent" => db.status[r] # "absent"
                        /\ new.mine.status[r] = "running" => new.seen.status[r] = "running"
    BY <1>2
  <2> QED BY <2>1, <2>2, <2>3 DEF StackFits
<1>5. \A q \in Steps : StepFits(new, Pump, db, starts, q) /\ ~Unrecorded(new, q)
  BY <1>1, <1>3 DEF StepFits, Unrecorded
<1>6. ASSUME NEW q \in Steps
      PROVE  PumpFits(new, db, q)
  <2>1. RunOf[q] \in Q =>
          /\ Group[q] > db.group[RunOf[q]] => db.step[q] = "pending"
          /\ Group[q] < db.group[RunOf[q]] => db.step[q] \in Over
    BY <1>3 DEF OrderInv, RowsInOrder
  <2> QED BY <1>1, <1>3, <2>1 DEF PumpFits, Over
<1>7. ASSUME NEW q \in Steps, new.mine.step[q] # "pending", NEW v \in Workers
      PROVE  ~Unrecorded(worker[v], q)
  <2>1. StepFits(worker[v], v, db, starts, q)
    BY DEF OrderInv, OrderFits
  <2> QED BY <1>3, <1>7, <2>1 DEF StepFits
<1>8. LocalMove(worker, Pump, new, db)
  BY <1>5, <1>7 DEF LocalMove
<1>9. /\ worker \in [Workers -> Worker] /\ Pump \in Workers
      /\ OrderFits(new, Pump, db, starts)
  BY <1>4, <1>5, <1>6 DEF OrderFits, TypeOK, Workers
<1> QED BY <1>8, <1>9, MovesLocally

\* A session that cancels holds no step.
LEMMA CancelHolds ==
    ASSUME RunsAssumption, NEW o, o.calls \in Seq(Call), o.calls # <<>>, o.calls[1].op = "cancel",
           NEW rows, StackFits(o, rows), NEW q \in Steps
    PROVE  ~Holds(o.calls, q) /\ \A i : ~Waits(o.calls, i, q)
<1>1. 1 \in 1..Len(o.calls)
  BY PoppedCall
<1>2. \A i \in 1..Len(o.calls) : o.calls[i].op # "dispatch"
  BY <1>1 DEF StackFits
<1>3. \A i \in 1..Len(o.calls) : o.calls[i].for = NoStep
  BY <1>2 DEF StackFits
<1> QED BY <1>2, <1>3 DEF Holds, Waits, Dispatches, RunsAssumption

\* A step of a run that session w closes fails.
LEMMA FailMoves ==
    ASSUME RunsAssumption, NEW sessions \in [Workers -> Worker], NEW rows, NEW n,
           OrderInv(sessions, rows, n), NEW w \in Workers, w # Pump, NEW new \in Worker, NEW s \in Steps,
           sessions[w].calls # <<>>, sessions[w].calls[1].op = "cancel",
           Continues(new.calls, sessions[w].calls),
           Closing(sessions[w], RunOf[s], rows), Known(sessions[w], s),
           new.seen = sessions[w].seen, new.queue = sessions[w].queue,
           new.mine.status = sessions[w].mine.status, new.mine.step[s] = "failed",
           \A q \in Steps \ {s} : new.mine.step[q] = sessions[w].mine.step[q]
    PROVE  OrderInv([sessions EXCEPT ![w] = new], rows, n)
<1> DEFINE old == sessions[w]
<1>1. /\ old.calls \in Seq(Call) /\ new.calls \in Seq(Call) /\ OrderFits(old, w, rows, n)
      /\ Continues(new.calls, old.calls) /\ old.calls # <<>> /\ old.calls[1].op = "cancel"
  BY DEF Worker, OrderInv
<1> HIDE DEF old
<1>2. StackFits(old, rows)
  BY <1>1 DEF OrderFits
<1>3. \A r : Closing(old, r, rows) <=> Closing(new, r, rows)
  BY DEF Closing, old
<1>4. \A q \in Steps : ~Holds(old.calls, q) /\ \A i : ~Waits(old.calls, i, q)
  BY <1>1, <1>2, CancelHolds
<1>5. ASSUME NEW q \in Steps
      PROVE  ~Holds(new.calls, q) /\ \A i : ~Waits(new.calls, i, q)
  <2>1. /\ \A i : Waits(new.calls, i, q) => Waits(old.calls, i + (Len(old.calls) - Len(new.calls)), q)
        /\ Holds(new.calls, q) => Holds(old.calls, q)
    BY ONLY <1>1, ContinuedHolds
  <2> QED BY <1>4, <2>1
<1>6. StackFits(new, rows)
  <2>1. \A r \in Runs :
          /\ new.mine.status[r] # "absent" => old.mine.status[r] # "absent"
          /\ new.mine.status[r] = "running" => new.seen.status[r] = "running"
          /\ Closing(old, r, rows) => Closing(new, r, rows)
    BY <1>2, <1>3 DEF StackFits, old
  <2> QED BY ONLY <1>1, <1>2, <2>1, StackGoesOn
<1>7. \A q \in Steps : /\ Unrecorded(new, q) => Unrecorded(old, q)
                       /\ Known(new, q) <=> Known(old, q)
                       /\ q = s \/ (new.mine.step[q] = old.mine.step[q] /\ new.seen.step[q] = old.seen.step[q])
  BY <1>4, <1>5 DEF Unrecorded, Known, old
<1>8. Closing(new, RunOf[s], rows) /\ Known(new, s)
  BY <1>3, <1>7 DEF old
<1>9. ASSUME NEW q \in Steps
      PROVE  StepFits(new, w, rows, n, q)
  <2>1. StepFits(old, w, rows, n, q)
    BY <1>1 DEF OrderFits
  <2>2. CASE q = s
    BY <1>4, <1>5, <1>7, <1>8, <2>1, <2>2 DEF StepFits
  <2>3. CASE q # s
    BY <1>3, <1>4, <1>5, <1>7, <2>1, <2>3 DEF StepFits
  <2> QED BY <2>2, <2>3
<1>10. LocalMove(sessions, w, new, rows)
  BY <1>3, <1>7, <1>8 DEF LocalMove, old
<1> QED BY <1>6, <1>9, <1>10, MovesLocally DEF OrderFits

\* Session w turns from step s to its sub-workflow c, which it loads to cancel.
LEMMA NestMoves ==
    ASSUME RunsAssumption, TypeOK, OrderInv(worker, db, starts),
           NEW w \in Workers, w # Pump, NEW new \in Worker, NEW s \in Steps, NEW c \in Runs,
           worker[w].calls # <<>>, worker[w].calls[1].op = "cancel",
           NEW calls \in Seq(Call), Continues(calls, worker[w].calls), NEW S \in SUBSET StepsOf(c),
           Closing(worker[w], RunOf[s], db), Known(worker[w], s), db.status[c] = "running",
           new.calls = <<CallOn("cancel", c, S, NoStep)>> \o calls,
           new.queue = worker[w].queue, new.seen = Load(worker[w].seen, {c}),
           new.mine = Canceled(Load(Mark(worker[w].mine, s, "failed"), {c}), c)
    PROVE  OrderInv([worker EXCEPT ![w] = new], db, starts)
<1> DEFINE old == worker[w]
           top == CallOn("cancel", c, S, NoStep)
<1>1. /\ old.calls \in Seq(Call) /\ new.calls \in Seq(Call) /\ OrderFits(old, w, db, starts)
      /\ Continues(calls, old.calls) /\ old.calls # <<>> /\ old.calls[1].op = "cancel"
      /\ old.mine \in Rows /\ old.seen \in Rows /\ worker \in [Workers -> Worker]
  BY DEF Worker, OrderInv, TypeOK
<1>2. top \in Call /\ top.op = "cancel" /\ top.run = c /\ top.left = S /\ top.for = NoStep
  <2>1. S \in SUBSET Steps
    BY DEF StepsOf
  <2> QED BY <2>1, CallOK DEF CallOn
<1>3. /\ Len(new.calls) = Len(calls) + 1 /\ new.calls[1] = top /\ Len(calls) \in Nat
      /\ \A i \in 1..Len(calls) : new.calls[i + 1] = calls[i]
  BY <1>2, PushedCall
<1>4. \A r \in Runs : /\ new.mine.status[r] = IF r = c THEN "canceled" ELSE old.mine.status[r]
                      /\ new.seen.status[r] = IF r = c THEN "running" ELSE old.seen.status[r]
  BY SMTT(30), <1>1 DEF Canceled, Load, Mark, Rows
<1>5. \A q \in Steps :
        /\ new.seen.step[q] = IF RunOf[q] = c THEN db.step[q] ELSE old.seen.step[q]
        /\ new.mine.step[q] = IF RunOf[q] = c THEN db.step[q]
                              ELSE IF q = s THEN "failed" ELSE old.mine.step[q]
  BY <1>1 DEF Canceled, Load, Mark, Rows
<1>6. Closing(old, RunOf[s], db) /\ Known(old, s) /\ db.status[c] = "running" /\ RunOf[s] \in Runs
  BY DEF RunsAssumption
<1>7. \A x \in S : RunOf[x] = c
  BY DEF StepsOf
<1> HIDE DEF old, top
<1>8. StackFits(old, db)
  BY <1>1 DEF OrderFits
<1>9. \A r \in Runs : /\ Closing(new, c, db)
                      /\ Closing(old, r, db) => Closing(new, r, db)
                      /\ old.mine.status[r] # "absent" => new.mine.status[r] # "absent"
  BY <1>4 DEF Closing
<1>10. \A i \in 1..Len(calls) :
         /\ calls[i].op # "dispatch" /\ calls[i].for = NoStep
         /\ calls[i].op = "cancel" => /\ Closing(new, calls[i].run, db)
                                      /\ \A x \in calls[i].left : RunOf[x] = calls[i].run
  <2> SUFFICES ASSUME NEW i \in 1..Len(calls)
               PROVE  /\ calls[i].op # "dispatch" /\ calls[i].for = NoStep
                      /\ calls[i].op = "cancel" => /\ Closing(new, calls[i].run, db)
                                                   /\ \A x \in calls[i].left : RunOf[x] = calls[i].run
    OBVIOUS
  <2>1. PICK j \in 1..Len(old.calls) :
          /\ calls[i] \in Call /\ calls[i].op = old.calls[j].op /\ calls[i].run = old.calls[j].run
          /\ calls[i].left \subseteq old.calls[j].left /\ calls[i].for = old.calls[j].for
    BY ONLY <1>1, calls \in Seq(Call), i \in 1..Len(calls), ContinuedCall
  <2>2. 1 \in 1..Len(old.calls)
    BY <1>1, PoppedCall
  <2>3. old.calls[j].op # "dispatch"
    BY <1>1, <1>8, <2>2 DEF StackFits
  <2>4. calls[i].run \in Runs
    BY <2>1 DEF Call
  <2> QED BY <1>8, <1>9, <2>1, <2>3, <2>4 DEF StackFits
<1>11. \A i \in 1..Len(new.calls) : i = 1 \/ (i - 1 \in 1..Len(calls) /\ new.calls[i] = calls[i - 1])
  <2> SUFFICES ASSUME NEW i \in 1..Len(new.calls), i # 1
               PROVE  i - 1 \in 1..Len(calls) /\ new.calls[i] = calls[i - 1]
    OBVIOUS
  <2>1. i - 1 \in 1..Len(calls) /\ i = (i - 1) + 1
    BY <1>3
  <2>2. new.calls[(i - 1) + 1] = calls[i - 1]
    BY <1>3, <2>1
  <2> QED BY <2>1, <2>2
<1>12. \A i \in 1..Len(new.calls) :
         /\ new.calls[i].op # "dispatch" /\ new.calls[i].for = NoStep
         /\ new.calls[i].op = "cancel" => /\ Closing(new, new.calls[i].run, db)
                                          /\ \A x \in new.calls[i].left : RunOf[x] = new.calls[i].run
  BY <1>2, <1>3, <1>7, <1>9, <1>10, <1>11
<1>13. StackFits(new, db)
  <2>1. \A r \in Runs : /\ new.mine.status[r] # "absent" => db.status[r] # "absent"
                        /\ new.mine.status[r] = "running" => new.seen.status[r] = "running"
    BY ZenonT(30), <1>4, <1>6, <1>8 DEF StackFits
  <2>2. \A i, j, q : Waits(new.calls, i, q) /\ Waits(new.calls, j, q) => q = NoStep \/ i = j
    BY <1>12 DEF Waits
  <2> QED BY <1>12, <2>1, <2>2 DEF StackFits
<1>14. \A q \in Steps : ~Holds(new.calls, q) /\ \A i : ~Waits(new.calls, i, q)
  BY <1>12 DEF Holds, Waits, Dispatches, RunsAssumption
<1>15. ASSUME NEW q \in Steps
       PROVE  StepFits(new, w, db, starts, q)
  <2>1. StepFits(old, w, db, starts, q) /\ RunOf[q] \in Runs
    BY <1>1 DEF OrderFits, RunsAssumption
  <2>2. CASE RunOf[q] = c
    BY <1>4, <1>5, <1>9, <1>14, <2>1, <2>2 DEF StepFits, Known, Unrecorded
  <2>3. CASE RunOf[q] # c /\ q = s
    BY <1>4, <1>5, <1>6, <1>9, <1>14, <2>1, <2>3 DEF StepFits, Known, Unrecorded
  <2>4. CASE RunOf[q] # c /\ q # s
    BY <1>4, <1>5, <1>9, <1>14, <2>1, <2>4 DEF StepFits, Known, Unrecorded
  <2> QED BY <2>2, <2>3, <2>4
<1>16. LocalMove(worker, w, new, db)
  <2> SUFFICES ASSUME NEW q \in Steps
               PROVE  /\ Unrecorded(new, q) => Unrecorded(old, q)
                      /\ new.mine.step[q] # new.seen.step[q] =>
                           \/ old.mine.step[q] # old.seen.step[q]
                           \/ Closing(new, RunOf[q], db)
                      /\ Closing(old, RunOf[q], db) => Closing(new, RunOf[q], db)
    BY DEF LocalMove, old
  <2>1. RunOf[q] \in Runs
    BY DEF RunsAssumption
  <2> QED BY <1>5, <1>6, <1>9, <1>14, <2>1 DEF Unrecorded
<1>17. OrderFits(new, w, db, starts)
  BY <1>13, <1>15 DEF OrderFits
<1> QED BY <1>1, <1>16, <1>17, MovesLocally

-----------------------------------------------------------------------------
(* The actions keep the order. *)

\* Users cancel single steps, if any, in first groups and while nothing else is
\* at work: a dispatch does not look at the status of a step.
CancelsInOrder == Cancelable = {} \/ (~Overlap /\ \A s \in Cancelable : Group[s] = 0)

LEMMA SavedExcept ==
    ASSUME worker \in [Workers -> Worker], NEW w \in Workers, NEW o
    PROVE  [Saved(w) EXCEPT ![w] = o] = [worker EXCEPT ![w] = o]
  BY DEF Saved

\* The step that a dispatch starts next, or gives up.
LEMMA ToDispatch ==
    ASSUME RunsAssumption, TypeOK, StartsInv, OrderInv(worker, db, starts), NEW w \in Workers,
           InCall(w, "dispatch"), NEW s \in Now(w).left
    PROVE  /\ s \in Steps /\ starts[s] = 0
           /\ Holds(worker[w].calls, s) /\ \A i : ~Waits(worker[w].calls, i, s)
           /\ Visited(w, s) \in Seq(Call) /\ Continues(Visited(w, s), worker[w].calls)
           /\ ~Holds(Visited(w, s), s)
<1> DEFINE calls == worker[w].calls
<1>1. calls \in Seq(Call) /\ calls # <<>>
  BY DEF TypeOK, Worker, InCall
<1>2. /\ s \in Steps /\ Dispatches(calls, 1, s) /\ starts[s] = 0
      /\ \A i \in Nat : Dispatches(calls, i, s) => i = 1
  BY NextToDispatch
<1>3. \A i : ~Waits(calls, i, s)
  <2>1. StepFits(worker[w], w, db, starts, s)
    BY <1>2 DEF OrderInv, OrderFits
  <2> QED BY <1>2, <2>1 DEF StepFits
<1>4. Visited(w, s) \in Seq(Call) /\ Continues(Visited(w, s), calls)
  BY <1>1, VisitedCall, ContinuesVisited DEF Visited
<1>5. \A i : ~Waits(Visited(w, s), i, s)
  BY <1>1, <1>3, <1>4, ContinuedHolds
<1>6. \A i : ~Dispatches(Visited(w, s), i, s)
  <2> SUFFICES ASSUME NEW i, Dispatches(Visited(w, s), i, s) PROVE FALSE
    OBVIOUS
  <2>1. Dispatches(calls, i, s) /\ i # 1
    BY <1>1, VisitDispatches DEF Visited
  <2>2. i \in Nat
    BY <2>1 DEF Dispatches
  <2> QED BY <1>2, <2>1, <2>2
<1>7. Holds(calls, s)
  BY <1>2 DEF Holds, Dispatches
<1>8. ~Holds(Visited(w, s), s)
  BY <1>5, <1>6 DEF Holds
<1> HIDE DEF calls
<1> QED BY <1>2, <1>3, <1>4, <1>7, <1>8 DEF calls

\* The step that waits for the innermost call of session w.
LEMMA ToRecord ==
    ASSUME RunsAssumption, TypeOK, StartsInv, OrderInv(worker, db, starts), NEW w \in Workers,
           worker[w].calls # <<>>, NEW s, s = Now(w).for, s # NoStep
    PROVE  /\ s \in Steps /\ Holds(worker[w].calls, s)
           /\ Tail(worker[w].calls) \in Seq(Call)
           /\ Continues(Tail(worker[w].calls), worker[w].calls)
           /\ ~Holds(Tail(worker[w].calls), s)
<1> DEFINE calls == worker[w].calls
           rest == Tail(calls)
<1>1. /\ calls \in Seq(Call) /\ calls # <<>> /\ rest \in Seq(Call) /\ Continues(rest, calls)
      /\ Len(calls) \in Nat \ {0} /\ Len(rest) = Len(calls) - 1 /\ Now(w) = calls[1]
  BY PoppedCall, ContinuesTail DEF TypeOK, Worker, Now
<1>2. s \in Steps /\ Waits(calls, 1, s)
  <2>1. Now(w).for \in Steps \cup {NoStep}
    BY <1>1, NowOK DEF TypeOK
  <2> QED BY <1>1, <2>1 DEF Waits
<1>3. StackFits(worker[w], db) /\ StepFits(worker[w], w, db, starts, s)
  BY <1>2 DEF OrderInv, OrderFits
<1>4. starts[s] > 0
  BY <1>2, <1>3 DEF StepFits
<1>5. \A i : ~Dispatches(rest, i, s)
  <2> SUFFICES ASSUME NEW i, Dispatches(rest, i, s) PROVE FALSE
    OBVIOUS
  <2>1. PICK j : Dispatches(calls, j, s)
    BY <1>1, InheritedDispatches DEF Continues
  <2>2. CallFits(worker[w], w, j, starts)
    BY <2>1 DEF StartsInv, SessionFits, Dispatches
  <2>3. worker[w].calls[j].op = "dispatch" /\ s \in worker[w].calls[j].left
    BY <2>1 DEF Dispatches
  <2>4. starts[s] = 0
    BY <2>2, <2>3 DEF CallFits
  <2> QED BY <1>4, <2>4
<1>6. \A i : ~Waits(rest, i, s)
  <2> SUFFICES ASSUME NEW i, Waits(rest, i, s) PROVE FALSE
    OBVIOUS
  <2>1. Waits(calls, i + (Len(calls) - Len(rest)), s)
    BY <1>1, ContinuedHolds
  <2>2. i + (Len(calls) - Len(rest)) = 1
    BY <1>2, <1>3, <2>1 DEF StackFits
  <2>3. i \in 1..Len(rest)
    BY DEF Waits
  <2> HIDE DEF rest, calls
  <2> QED BY <1>1, <2>2, <2>3
<1>7. Holds(calls, s) /\ ~Holds(rest, s)
  BY <1>2, <1>5, <1>6 DEF Holds, Waits
<1> HIDE DEF calls, rest
<1> QED BY <1>1, <1>2, <1>7 DEF calls, rest

LEMMA TaskOrder ==
    ASSUME RunsAssumption, TypeOK, TypeOK', StartsInv, OrderInv(worker, db, starts),
           NEW w \in Workers, DispatchTask(w)
    PROVE  OrderInv(worker', db', starts')
<1> DEFINE old == worker[w]
<1>1. PICK s \in Now(w).left :
           /\ Child[s] = NoRun /\ db' = Committed(w)
           /\ starts' = [starts EXCEPT ![s] = @ + 1]
           /\ CommitAndContinue(w, Mark(old.mine, s, "running"), Visited(w, s))
  BY DEF DispatchTask
<1>2. InCall(w, "dispatch") /\ worker \in [Workers -> Worker] /\ old.mine \in Rows
  BY DEF DispatchTask, TypeOK, Worker
<1>3. /\ s \in Steps /\ starts[s] = 0
      /\ Holds(old.calls, s) /\ Visited(w, s) \in Seq(Call) /\ Continues(Visited(w, s), old.calls)
      /\ ~Holds(Visited(w, s), s)
  BY <1>1, <1>2, ToDispatch
<1> DEFINE rows == Mark(old.mine, s, "running")
           calls == Visited(w, s)
           new == Session(old.busy, old.queue, calls, old.mine, rows)
<1>4. Becomes(w, new)
  BY <1>1, <1>2, ContinueBecomes
<1>5. new \in Worker
  BY <1>4 DEF Becomes, TypeOK
<1>6. /\ Saved(w) \in [Workers -> Worker] /\ Saved(w)[w].seen = old.mine /\ Saved(w)[w].mine = old.mine
      /\ Saved(w)[w].calls = old.calls /\ Saved(w)[w].queue = old.queue
  BY <1>2, SavedFields
<1>7. OrderInv(Saved(w), db', starts)
  BY <1>1, CommitMoves
<1>8. \A q \in Steps : starts[q] > 0 => starts'[q] > 0
  BY <1>1, <1>3 DEF TypeOK
<1>9. /\ rows.status = old.mine.status /\ rows.group = old.mine.group
      /\ rows.step[s] = "running" /\ \A q \in Steps \ {s} : rows.step[q] = old.mine.step[q]
  BY <1>2, <1>3 DEF Mark, Rows
<1> HIDE DEF rows, calls
<1>10. new.calls = calls /\ new.queue = old.queue /\ new.seen = old.mine /\ new.mine = rows
  BY DEF Session
<1>11. Continues(calls, old.calls) /\ ~Holds(calls, s)
  BY <1>3 DEF calls
<1> HIDE DEF new, old
<1> DEFINE base == Saved(w)
<1>12. /\ w \in Workers /\ s \in Steps /\ new \in Worker /\ base \in [Workers -> Worker]
       /\ OrderInv(base, db', starts) /\ \A q \in Steps : starts[q] > 0 => starts'[q] > 0
       /\ Continues(new.calls, base[w].calls) /\ Holds(base[w].calls, s) /\ ~Holds(new.calls, s)
       /\ new.seen = base[w].seen /\ new.queue = base[w].queue
       /\ new.mine.status = base[w].mine.status /\ new.mine.group = base[w].mine.group
       /\ new.mine.step[s] \in {"running", "failed"}
       /\ \A q \in Steps \ {s} : new.mine.step[q] = base[w].mine.step[q]
  BY <1>3, <1>5, <1>6, <1>7, <1>8, <1>9, <1>10, <1>11
<1>13. worker' = [base EXCEPT ![w] = new]
  BY <1>2, <1>4, SavedExcept DEF Becomes
<1> HIDE DEF base
<1>14. OrderInv([base EXCEPT ![w] = new], db', starts')
  BY ONLY <1>12, RunsAssumption, RecordMoves
<1> QED BY <1>13, <1>14

LEMMA ChildOrder ==
    ASSUME RunsAssumption, NestingAssumption, TypeOK, TypeOK', StartsInv,
           OrderInv(worker, db, starts), NEW w \in Workers, StartChild(w)
    PROVE  OrderInv(worker', db', starts')
<1> DEFINE old == worker[w]
<1>1. PICK s \in Now(w).left :
           /\ Child[s] # NoRun /\ db' = Created(Committed(w), Child[s])
           /\ starts' = [starts EXCEPT ![s] = @ + 1]
           /\ worker' = [worker EXCEPT
                ![w].seen = Created(old.mine, Child[s]), ![w].mine = Created(old.mine, Child[s]),
                ![w].calls = <<CallOn("dispatch", Child[s], GroupSteps(Child[s], 0), s)>>
                             \o Visited(w, s)]
  BY DEF StartChild
<1>2. /\ InCall(w, "dispatch") /\ worker \in [Workers -> Worker] /\ old.mine \in Rows
      /\ old.calls \in Seq(Call) /\ old.calls # <<>> /\ Committed(w) \in Rows
  BY CommittedOK DEF StartChild, InCall, TypeOK, Worker
<1>3. /\ s \in Steps /\ starts[s] = 0
      /\ Holds(old.calls, s) /\ \A i : ~Waits(old.calls, i, s)
      /\ Visited(w, s) \in Seq(Call) /\ Continues(Visited(w, s), old.calls)
  BY <1>1, <1>2, ToDispatch
<1>4. PICK c \in Runs : c = Child[s]
  BY <1>1, <1>3 DEF RunsAssumption
<1>5. /\ db.status[c] = "absent"
      /\ \A v \in Workers : worker[v].mine.status[c] = "absent"
  BY <1>1, <1>3, <1>4, AbsentRun DEF StartsInv, Begun
<1>6. Committed(w).status[c] = "absent" /\ c \notin old.queue
  <2>1. RowsFit(old, w, db)
    BY DEF StartsInv, SessionFits
  <2> QED BY <1>5, <2>1, CommittedMoves DEF RowsFit
<1> DEFINE calls == Visited(w, s)
           rows == Created(old.mine, c)
           stack == <<CallOn("dispatch", c, GroupSteps(c, 0), s)>> \o calls
           new == Session(old.busy, old.queue, stack, rows, rows)
<1>7. Becomes(w, new)
  BY <1>1, <1>2, <1>4, PushedBecomes
<1>8. new \in Worker
  BY <1>7 DEF Becomes, TypeOK
<1>9. new.calls = stack /\ new.queue = old.queue /\ new.seen = rows /\ new.mine = rows
  BY DEF Session
<1>10. /\ Saved(w) \in [Workers -> Worker] /\ Saved(w)[w].seen = old.mine /\ Saved(w)[w].mine = old.mine
       /\ Saved(w)[w].calls = old.calls /\ Saved(w)[w].queue = old.queue
       /\ \A v \in Workers : Saved(w)[v].mine = worker[v].mine /\ Saved(w)[v].calls = worker[v].calls
  BY <1>2, SavedFields
<1>11. OrderInv(Saved(w), Committed(w), starts)
  BY CommitMoves
<1>12. OrderInv(Saved(w), db', starts)
  <2>1. \A v \in Workers : \A i \in 1..Len(Saved(w)[v].calls) :
             /\ Saved(w)[v].calls[i].run \in Runs
             /\ Saved(w)[v].mine.status[Saved(w)[v].calls[i].run] # "absent"
    <3> SUFFICES ASSUME NEW v \in Workers
                 PROVE  \A i \in 1..Len(Saved(w)[v].calls) :
                          /\ Saved(w)[v].calls[i].run \in Runs
                          /\ Saved(w)[v].mine.status[Saved(w)[v].calls[i].run] # "absent"
      OBVIOUS
    <3>1. Saved(w)[v].calls = worker[v].calls /\ Saved(w)[v].mine = worker[v].mine
      BY <1>10
    <3>2. \A i \in 1..Len(worker[v].calls) :
             worker[v].calls[i].run \in Runs /\ worker[v].mine.status[worker[v].calls[i].run] # "absent"
      BY RunsOfCalls
    <3> QED BY ONLY <3>1, <3>2
  <2>2. db' = Created(Committed(w), c)
    BY <1>1, <1>4
  <2> QED BY <1>2, <1>6, <1>10, <1>11, <2>1, <2>2, CreationMoves
<1>13. starts'[s] > 0 /\ \A q \in Steps : starts[q] > 0 => starts'[q] > 0
  BY <1>1, <1>3 DEF TypeOK
<1>14. db'.status[c] # "absent" /\ \A q \in StepsOf(c) : db'.step[q] = "pending"
  BY <1>1, <1>2, <1>4, CreatedStep DEF StepsOf
<1>15. calls \in Seq(Call) /\ Continues(calls, old.calls)
  BY <1>3
<1>16. \A i \in 1..Len(calls) : calls[i].op = "dispatch"
  <2>1. StackFits(old, db)
    BY DEF OrderInv, OrderFits
  <2>2. 1 \in 1..Len(old.calls) /\ old.calls[1].op = "dispatch"
    BY <1>2, PoppedCall DEF InCall
  <2>3. \A i \in 1..Len(old.calls) : old.calls[i].op = "dispatch"
    BY <2>1, <2>2 DEF StackFits
  <2> SUFFICES ASSUME NEW i \in 1..Len(calls) PROVE calls[i].op = "dispatch"
    OBVIOUS
  <2> HIDE DEF calls
  <2>4. PICK j \in 1..Len(old.calls) : calls[i].op = old.calls[j].op
    BY ONLY <1>2, <1>15, i \in 1..Len(calls), ContinuedCall
  <2> QED BY <2>3, <2>4
<1> HIDE DEF calls, rows, new, old
<1>17. OrderInv([Saved(w) EXCEPT ![w] = new], db', starts')
  <2>1. s \in Steps \cup {NoStep}
    BY <1>3
  <2>2. /\ Continues(calls, Saved(w)[w].calls)
        /\ s \in Steps => /\ Holds(Saved(w)[w].calls, s) /\ starts'[s] > 0
                          /\ \A i : ~Waits(Saved(w)[w].calls, i, s)
        /\ Saved(w)[w].seen = Saved(w)[w].mine
        /\ new.seen = Created(Saved(w)[w].mine, c) /\ new.mine = Created(Saved(w)[w].mine, c)
        /\ new.queue = Saved(w)[w].queue /\ c \notin Saved(w)[w].queue
    BY <1>3, <1>6, <1>9, <1>10, <1>13, <1>15 DEF rows
  <2>3. \A v \in Workers : Saved(w)[v].mine.status[c] = "absent"
    BY <1>5, <1>10
  <2>4. new.calls = <<CallOn("dispatch", c, GroupSteps(c, 0), s)>> \o calls
    BY <1>9
  <2> QED BY ONLY RunsAssumption, w \in Workers, c \in Runs, <1>8, <1>10, <1>12, <1>13, <1>14,
             <1>15, <1>16, <2>1, <2>2, <2>3, <2>4, BornMoves
<1>18. worker' = [Saved(w) EXCEPT ![w] = new]
  BY <1>2, <1>7, SavedExcept DEF Becomes
<1> QED BY <1>17, <1>18

LEMMA MarkedRows ==
    ASSUME NEW rows \in Rows, NEW s \in Steps, NEW status
    PROVE  /\ Mark(rows, s, status).status = rows.status /\ Mark(rows, s, status).group = rows.group
           /\ Mark(rows, s, status).step[s] = status
           /\ \A q \in Steps \ {s} : Mark(rows, s, status).step[q] = rows.step[q]
  BY DEF Mark, Rows

\* Session w records step s without a commit or after one.
LEMMA RecordOrder ==
    ASSUME RunsAssumption, TypeOK, TypeOK', StartsInv, OrderInv(worker, db, starts),
           NEW w \in Workers, UNCHANGED starts, NEW s \in Steps, NEW status \in {"running", "failed"},
           NEW calls \in Seq(Call), Continues(calls, worker[w].calls),
           Holds(worker[w].calls, s), ~Holds(calls, s),
           \/ Continue(w, Mark(worker[w].mine, s, status), calls) /\ db' = db
           \/ CommitAndContinue(w, Mark(worker[w].mine, s, status), calls) /\ db' = Committed(w)
    PROVE  OrderInv(worker', db', starts')
<1> DEFINE old == worker[w]
           rows == Mark(old.mine, s, status)
<1>1. worker \in [Workers -> Worker] /\ old.mine \in Rows
  BY DEF TypeOK, Worker
<1>2. /\ rows.status = old.mine.status /\ rows.group = old.mine.group /\ rows.step[s] = status
      /\ \A q \in Steps \ {s} : rows.step[q] = old.mine.step[q]
  BY <1>1, MarkedRows
<1>3. Holds(old.calls, s) /\ Continues(calls, old.calls)
  OBVIOUS
<1>4. \A q \in Steps : starts[q] > 0 => starts'[q] > 0
  OBVIOUS
<1>5. CASE Continue(w, rows, calls) /\ db' = db
  <2> DEFINE new == Session(old.busy, old.queue, calls, old.seen, rows)
  <2>1. Becomes(w, new)
    BY <1>1, <1>5, ContinueBecomes
  <2>2. new \in Worker
    BY <2>1 DEF Becomes, TypeOK
  <2>3. new.calls = calls /\ new.queue = old.queue /\ new.seen = old.seen /\ new.mine = rows
    BY DEF Session
  <2> HIDE DEF new, rows
  <2>4. OrderInv([worker EXCEPT ![w] = new], db, starts')
    BY <1>1, <1>2, <1>3, <1>4, <2>2, <2>3, RecordMoves
  <2> QED BY <1>5, <2>1, <2>4 DEF Becomes
<1>6. CASE CommitAndContinue(w, rows, calls) /\ db' = Committed(w)
  <2> DEFINE new == Session(old.busy, old.queue, calls, old.mine, rows)
  <2>1. Becomes(w, new)
    BY <1>1, <1>6, ContinueBecomes
  <2>2. new \in Worker
    BY <2>1 DEF Becomes, TypeOK
  <2>3. new.calls = calls /\ new.queue = old.queue /\ new.seen = old.mine /\ new.mine = rows
    BY DEF Session
  <2>4. /\ Saved(w) \in [Workers -> Worker] /\ Saved(w)[w].seen = old.mine /\ Saved(w)[w].mine = old.mine
        /\ Saved(w)[w].calls = old.calls /\ Saved(w)[w].queue = old.queue
    BY <1>1, SavedFields
  <2>5. OrderInv(Saved(w), db', starts)
    BY <1>6, CommitMoves
  <2> HIDE DEF new, rows, old
  <2> DEFINE base == Saved(w)
  <2>6. /\ w \in Workers /\ s \in Steps /\ new \in Worker /\ base \in [Workers -> Worker]
        /\ OrderInv(base, db', starts) /\ \A q \in Steps : starts[q] > 0 => starts'[q] > 0
        /\ Continues(new.calls, base[w].calls) /\ Holds(base[w].calls, s) /\ ~Holds(new.calls, s)
        /\ new.seen = base[w].seen /\ new.queue = base[w].queue
        /\ new.mine.status = base[w].mine.status /\ new.mine.group = base[w].mine.group
        /\ new.mine.step[s] \in {"running", "failed"}
        /\ \A q \in Steps \ {s} : new.mine.step[q] = base[w].mine.step[q]
    BY <1>2, <1>3, <1>4, <2>2, <2>3, <2>4, <2>5
  <2>7. worker' = [base EXCEPT ![w] = new]
    BY <1>1, <2>1, SavedExcept DEF Becomes
  <2> HIDE DEF base
  <2>8. OrderInv([base EXCEPT ![w] = new], db', starts')
    BY ONLY <2>6, RunsAssumption, RecordMoves
  <2> QED BY <2>7, <2>8
<1> QED BY <1>5, <1>6

LEMMA FailsOrder ==
    ASSUME RunsAssumption, TypeOK, TypeOK', StartsInv, OrderInv(worker, db, starts),
           NEW w \in Workers, DispatchFails(w)
    PROVE  OrderInv(worker', db', starts')
<1>1. PICK s \in Now(w).left :
        \/ Continue(w, Mark(worker[w].mine, s, "failed"), Visited(w, s)) /\ db' = db
        \/ CommitAndContinue(w, Mark(worker[w].mine, s, "failed"), Visited(w, s)) /\ db' = Committed(w)
  BY DEF DispatchFails
<1>2. InCall(w, "dispatch") /\ UNCHANGED starts
  BY DEF DispatchFails
<1>3. /\ s \in Steps /\ Holds(worker[w].calls, s) /\ ~Holds(Visited(w, s), s)
      /\ Visited(w, s) \in Seq(Call) /\ Continues(Visited(w, s), worker[w].calls)
  BY <1>1, <1>2, ToDispatch
<1>4. PICK calls \in Seq(Call) : calls = Visited(w, s)
  BY <1>3
<1> QED BY <1>1, <1>2, <1>3, <1>4, RecordOrder

\* A session that is over leaves the others as they were.
LEMMA EndsOrder ==
    ASSUME RunsAssumption, TypeOK, StartsInv, OrderInv(worker, db, starts), NEW w \in Workers,
           UNCHANGED starts, worker' = [worker EXCEPT ![w] = Idle], db' = db \/ db' = Committed(w)
    PROVE  OrderInv(worker', db', starts')
<1>1. worker \in [Workers -> Worker]
  BY DEF TypeOK
<1>2. CASE db' = db
  BY <1>1, <1>2, EndMoves
<1>3. CASE db' = Committed(w)
  <2>1. OrderInv(Saved(w), db', starts) /\ Saved(w) \in [Workers -> Worker]
    BY <1>1, <1>3, CommitMoves, SavedFields
  <2>2. worker' = [Saved(w) EXCEPT ![w] = Idle]
    BY <1>1, SavedExcept
  <2>3. PICK sessions : sessions = Saved(w)
    OBVIOUS
  <2>4. PICK rows : rows = db'
    OBVIOUS
  <2>5. OrderInv([sessions EXCEPT ![w] = Idle], rows, starts)
    BY ONLY <2>1, <2>3, <2>4, RunsAssumption, w \in Workers, EndMoves
  <2> QED BY <2>2, <2>3, <2>4, <2>5
<1> QED BY <1>2, <1>3

LEMMA ReturnOrder ==
    ASSUME RunsAssumption, TypeOK, TypeOK', StartsInv, OrderInv(worker, db, starts),
           NEW w \in Workers, Return(w)
    PROVE  OrderInv(worker', db', starts')
<1> DEFINE old == worker[w]
<1>1. /\ old.calls # <<>> /\ db' = Committed(w) /\ UNCHANGED starts
      /\ old.calls \in Seq(Call) /\ worker \in [Workers -> Worker]
  BY DEF Return, TypeOK, Worker
<1>2. CASE worker' = [worker EXCEPT ![w] = Idle]
  BY <1>1, <1>2, EndsOrder
<1>3. CASE Now(w).for = NoStep /\ CommitAndContinue(w, old.mine, Tail(old.calls))
  <2> DEFINE new == Session(old.busy, old.queue, Tail(old.calls), old.mine, old.mine)
  <2>1. Becomes(w, new)
    BY <1>1, <1>3, ContinueBecomes
  <2>2. new \in Worker
    BY <2>1 DEF Becomes, TypeOK
  <2>3. /\ new.calls = Tail(old.calls) /\ new.queue = old.queue
        /\ new.seen = old.mine /\ new.mine = old.mine
    BY DEF Session
  <2>4. /\ Saved(w) \in [Workers -> Worker] /\ Saved(w)[w].seen = old.mine /\ Saved(w)[w].mine = old.mine
        /\ Saved(w)[w].calls = old.calls /\ Saved(w)[w].queue = old.queue
    BY <1>1, SavedFields
  <2>5. OrderInv(Saved(w), db', starts)
    BY <1>1, CommitMoves
  <2>6. Continues(new.calls, old.calls)
    BY <1>1, <2>3, ContinuesTail
  <2> HIDE DEF new, old
  <2>7. OrderInv([Saved(w) EXCEPT ![w] = new], db', starts)
    BY <2>2, <2>3, <2>4, <2>5, <2>6, DropMoves
  <2>8. worker' = [Saved(w) EXCEPT ![w] = new]
    BY <1>1, <2>1, SavedExcept DEF Becomes
  <2> QED BY <1>1, <2>7, <2>8
<1>4. CASE Now(w).for # NoStep
             /\ CommitAndContinue(w, Mark(old.mine, Now(w).for, "running"), Tail(old.calls))
  <2>1. PICK s : s = Now(w).for
    OBVIOUS
  <2>2. /\ s \in Steps /\ Holds(old.calls, s) /\ Tail(old.calls) \in Seq(Call)
        /\ Continues(Tail(old.calls), old.calls) /\ ~Holds(Tail(old.calls), s)
    BY <1>1, <1>4, <2>1, ToRecord
  <2>3. PICK calls \in Seq(Call) : calls = Tail(old.calls)
    BY <2>2
  <2> QED BY <1>1, <1>4, <2>1, <2>2, <2>3, RecordOrder
<1> QED BY <1>2, <1>3, <1>4 DEF Return

LEMMA CancelOrder ==
    ASSUME RunsAssumption, NestingAssumption, TypeOK, TypeOK', StartsInv,
           OrderInv(worker, db, starts), NEW w \in Workers, CancelStep(w)
    PROVE  OrderInv(worker', db', starts')
<1> DEFINE old == worker[w]
<1>1. /\ UNCHANGED <<db, starts>> /\ worker \in [Workers -> Worker] /\ old.calls \in Seq(Call)
      /\ old.calls # <<>> /\ old.mine \in Rows /\ old.seen \in Rows
      /\ Now(w) = old.calls[1] /\ Now(w) \in Call /\ old.calls[1].op = "cancel"
  BY NowOK DEF CancelStep, InCall, TypeOK, Worker, Now
<1>2. 1 \in 1..Len(old.calls)
  BY <1>1, PoppedCall
<1>3. StackFits(old, db) /\ w # Pump
  <2>1. StackFits(old, db)
    BY DEF OrderInv, OrderFits
  <2>2. CallFits(old, w, 1, starts)
    BY <1>2 DEF StartsInv, SessionFits
  <2> QED BY <1>1, <2>1, <2>2 DEF CallFits
<1>4. PICK s \in Now(w).left :
        LET c == IF old.mine.step[s] = "running" THEN Child[s] ELSE NoRun
            rows == Mark(old.mine, s, "failed")
        IN \/ Continue(w, rows, Visited(w, s))
           \/ /\ c # NoRun /\ db.status[c] = "running"
              /\ worker' = [worker EXCEPT
                     ![w].seen = Load(old.seen, {c}), ![w].mine = Canceled(Load(rows, {c}), c),
                     ![w].calls = <<CallOn("cancel", c, OpenSteps(db, c), NoStep)>> \o Visited(w, s)]
           \/ worker' = [worker EXCEPT ![w] = Idle]
  BY DEF CancelStep
<1>5. /\ s \in Steps /\ RunOf[s] = Now(w).run /\ Now(w).run \in Runs
      /\ Closing(old, RunOf[s], db) /\ Known(old, s)
  <2>1. Closing(old, Now(w).run, db) /\ RunOf[s] = Now(w).run
    BY <1>1, <1>2, <1>3, <1>4 DEF StackFits
  <2>2. old.mine.status[Now(w).run] # "absent" /\ Now(w).run \in Runs
    BY <1>1, <1>2, RunsOfCalls
  <2> QED BY <1>1, <1>4, <2>1, <2>2 DEF Call, Known
<1>6. PICK calls \in Seq(Call) : calls = Visited(w, s)
  BY <1>1, NowOK
<1>7. Continues(calls, old.calls)
  BY <1>1, <1>6, ContinuesVisited DEF Visited
<1>8. CASE Continue(w, Mark(old.mine, s, "failed"), calls)
  <2> DEFINE rows == Mark(old.mine, s, "failed")
             new == Session(old.busy, old.queue, calls, old.seen, rows)
  <2>1. Becomes(w, new)
    BY <1>1, <1>8, ContinueBecomes
  <2>2. new \in Worker
    BY <2>1 DEF Becomes, TypeOK
  <2>3. new.calls = calls /\ new.queue = old.queue /\ new.seen = old.seen /\ new.mine = rows
    BY DEF Session
  <2>4. /\ rows.status = old.mine.status /\ rows.step[s] = "failed"
        /\ \A q \in Steps \ {s} : rows.step[q] = old.mine.step[q]
    BY <1>1, <1>5, MarkedRows
  <2> HIDE DEF rows, new
  <2>5. OrderInv([worker EXCEPT ![w] = new], db, starts)
    BY <1>1, <1>3, <1>5, <1>7, <2>2, <2>3, <2>4, FailMoves
  <2> QED BY <1>1, <2>1, <2>5 DEF Becomes
<1>9. ASSUME NEW c, c = Child[s], c # NoRun, db.status[c] = "running",
             worker' = [worker EXCEPT
                     ![w].seen = Load(old.seen, {c}),
                     ![w].mine = Canceled(Load(Mark(old.mine, s, "failed"), {c}), c),
                     ![w].calls = <<CallOn("cancel", c, OpenSteps(db, c), NoStep)>> \o calls]
      PROVE  OrderInv(worker', db', starts')
  <2> DEFINE seen == Load(old.seen, {c})
             mine == Canceled(Load(Mark(old.mine, s, "failed"), {c}), c)
             stack == <<CallOn("cancel", c, OpenSteps(db, c), NoStep)>> \o calls
             new == Session(old.busy, old.queue, stack, seen, mine)
  <2>1. Becomes(w, new)
    BY <1>1, <1>9, PushedBecomes
  <2>2. new \in Worker
    BY <2>1 DEF Becomes, TypeOK
  <2>3. new.calls = stack /\ new.queue = old.queue /\ new.seen = seen /\ new.mine = mine
    BY DEF Session
  <2>4. c \in Runs
    BY <1>5, <1>9 DEF RunsAssumption
  <2>5. PICK S \in SUBSET StepsOf(c) : S = OpenSteps(db, c)
    BY DEF OpenSteps
  <2> HIDE DEF new, seen, mine, stack
  <2>6. OrderInv([worker EXCEPT ![w] = new], db, starts)
    BY <1>1, <1>3, <1>5, <1>7, <1>9, <2>2, <2>3, <2>4, <2>5, NestMoves DEF seen, mine, stack
  <2> QED BY <1>1, <2>1, <2>6 DEF Becomes
<1>10. CASE worker' = [worker EXCEPT ![w] = Idle]
  BY <1>1, <1>10, EndsOrder
<1> QED BY <1>4, <1>6, <1>8, <1>9, <1>10

LEMMA ProceedOrder ==
    ASSUME RunsAssumption, NestingAssumption, TypeOK, TypeOK', StartsInv,
           OrderInv(worker, db, starts), NEW w \in Workers, Proceed(w)
    PROVE  OrderInv(worker', db', starts')
  BY TaskOrder, ChildOrder, FailsOrder, ReturnOrder, CancelOrder DEF Proceed

LEMMA ExecuteOrder ==
    ASSUME RunsAssumption, TypeOK, TypeOK', StartsInv, OrderInv(worker, db, starts),
           NEW w \in Callers, NEW r \in Runs, Execute(w, r)
    PROVE  OrderInv(worker', db', starts')
<1> DEFINE top == CallOn("dispatch", r, GroupSteps(r, 0), NoStep)
           rows == Created(Empty, r)
           new == Session("request", {}, <<top>>, rows, rows)
<1>1. /\ w \in Workers /\ worker[w] = Idle /\ db.status[r] = "absent" /\ db' = Created(db, r)
      /\ UNCHANGED starts /\ worker' = [worker EXCEPT ![w] = new]
      /\ worker \in [Workers -> Worker] /\ db \in Rows
  BY DEF Execute, Admitted, TypeOK, Workers, Session
<1>2. new \in Worker
  BY <1>1 DEF TypeOK
<1>3. /\ Idle.calls = <<>> /\ Idle.seen = Empty /\ Idle.mine = Empty /\ Idle.queue = {}
  BY DEF Idle
<1>4. \A v \in Workers : worker[v].mine.status[r] = "absent"
  BY <1>1, AbsentRun
<1>5. OrderInv(worker, db', starts)
  <2>1. \A v \in Workers : \A i \in 1..Len(worker[v].calls) :
             worker[v].calls[i].run \in Runs /\ worker[v].mine.status[worker[v].calls[i].run] # "absent"
    BY RunsOfCalls
  <2> QED BY <1>1, <2>1, CreationMoves
<1>6. db'.status[r] # "absent" /\ \A q \in StepsOf(r) : db'.step[q] = "pending"
  BY <1>1, CreatedStep DEF StepsOf
<1>7. PICK calls \in Seq(Call) : calls = <<>>
  <2>1. <<>> \in Seq(Call)
    OBVIOUS
  <2> QED BY <2>1, Zenon
<1>8. /\ Continues(calls, worker[w].calls) /\ \A i \in 1..Len(calls) : calls[i].op = "dispatch"
  <2>1. 1..Len(calls) = {}
    BY <1>7
  <2>2. worker[w].calls = calls
    BY <1>1, <1>3, <1>7
  <2>3. Continues(calls, calls)
    BY <1>7, ContinuesNone
  <2> QED BY <2>1, <2>2, <2>3
<1>9. new.calls = <<top>> \o calls
  <2>1. top \in Call
    BY CallOK, GroupStepsOK
  <2> HIDE DEF top
  <2> QED BY <1>7, <2>1 DEF Session
<1>10. /\ new.queue = worker[w].queue /\ new.seen = Created(worker[w].mine, r)
       /\ new.mine = Created(worker[w].mine, r) /\ worker[w].seen = worker[w].mine
       /\ r \notin worker[w].queue
  BY <1>1, <1>3 DEF Session
<1>11. PICK s \in Steps \cup {NoStep} : s = NoStep
  OBVIOUS
<1>12. s \notin Steps
  BY <1>11 DEF RunsAssumption
<1>13. new.calls = <<CallOn("dispatch", r, GroupSteps(r, 0), s)>> \o calls
  BY <1>9, <1>11
<1> HIDE DEF new
<1>14. PICK after : after = db'
  OBVIOUS
<1>15. /\ OrderInv(worker, after, starts) /\ after.status[r] # "absent"
       /\ \A q \in StepsOf(r) : after.step[q] = "pending"
  BY <1>5, <1>6, <1>14
<1>16. OrderInv([worker EXCEPT ![w] = new], after, starts)
  BY ONLY RunsAssumption, r \in Runs, <1>1, <1>2, <1>4, <1>8, <1>10, <1>12, <1>13, <1>15, BornMoves
<1> QED BY <1>1, <1>14, <1>16

LEMMA RequestOrder ==
    ASSUME RunsAssumption, CancelsInOrder, TypeOK, TypeOK', StartsInv, OrderInv(worker, db, starts),
           NEW w \in Callers, Request(w)
    PROVE  OrderInv(worker', db', starts')
<1>1. ASSUME NEW r \in Runs, CancelRequest(w, r)
      PROVE  OrderInv(worker', db', starts')
  <2> DEFINE view == Load(Empty, {r})
             S == OpenSteps(view, r)
             new == Session("request", {}, <<CallOn("cancel", r, S, NoStep)>>, view, Canceled(view, r))
  <2>1. /\ w \in Workers /\ w # Pump /\ db.status[r] = "running" /\ UNCHANGED <<db, starts>>
        /\ worker' = [worker EXCEPT ![w] = new]
    BY <1>1 DEF CancelRequest, Workers, Session, RunsAssumption
  <2>2. new \in Worker
    BY <2>1 DEF TypeOK
  <2>3. /\ new.calls = <<CallOn("cancel", r, S, NoStep)>> /\ new.queue = {}
        /\ new.seen = Load(Empty, {r}) /\ new.mine = Canceled(Load(Empty, {r}), r)
    BY DEF Session
  <2>4. S \in SUBSET StepsOf(r)
    BY DEF OpenSteps
  <2> HIDE DEF new, S
  <2>5. OrderInv([worker EXCEPT ![w] = new], db, starts)
    BY <2>1, <2>2, <2>3, <2>4, CancelMoves
  <2> QED BY <2>1, <2>5
<1>2. ASSUME NEW s \in Steps, CancelStepRequest(w, s)
      PROVE  OrderInv(worker', db', starts')
  <2> DEFINE r == RunOf[s]
             view == Load(Empty, {r})
             new == Session("request", {}, <<CallOn("save", r, {}, NoStep)>>, view,
                            Mark(view, s, "failed"))
  <2>1. /\ w \in Workers /\ w # Pump /\ db.status[r] = "running" /\ UNCHANGED <<db, starts>>
        /\ worker' = [worker EXCEPT ![w] = new] /\ r \in Runs /\ Admitted(w) /\ s \in Cancelable
    BY <1>2 DEF CancelStepRequest, Workers, Session, RunsAssumption
  <2>2. Group[s] = 0 /\ \A v \in Workers : worker[v] = Idle
    BY <2>1 DEF CancelsInOrder, Admitted
  <2>3. new \in Worker
    BY <2>1 DEF TypeOK
  <2>4. /\ new.calls = <<CallOn("save", r, {}, NoStep)>> /\ new.queue = {}
        /\ new.seen = Load(Empty, {r}) /\ new.mine = Mark(Load(Empty, {r}), s, "failed")
    BY DEF Session
  <2> HIDE DEF new
  <2>5. OrderInv([worker EXCEPT ![w] = new], db, starts)
    BY <2>1, <2>2, <2>3, <2>4, StepCancelMoves
  <2> QED BY <2>1, <2>5
<1> QED BY <1>1, <1>2, ExecuteOrder DEF Request

\* A turn of the pump: the copies `rows`, with the steps of r settled.
LEMMA PumpedOrder ==
    ASSUME RunsAssumption, TypeOK, TypeOK', StartsInv, OrderInv(worker, db, starts),
           NEW r \in Runs, Turn(r), NEW rows \in Rows, NEW calls \in Seq(Call), Pumped(r, rows, calls),
           \A x \in Runs :
             /\ rows.status[x] = "absent" <=> worker[Pump].mine.status[x] = "absent"
             /\ rows.status[x] = "running" => worker[Pump].mine.status[x] = "running"
             /\ x # r => rows.group[x] = worker[Pump].mine.group[x],
           \A q \in Steps :
             \/ rows.step[q] = worker[Pump].mine.step[q]
             \/ RunOf[q] = r /\ worker[Pump].mine.step[q] = "running" /\ rows.step[q] \in Over,
           \/ calls = <<>> /\ rows.group[r] = worker[Pump].mine.group[r]
           \/ /\ calls = <<CallOn("dispatch", r, GroupSteps(r, rows.group[r]), NoStep)>>
              /\ worker[Pump].mine.group[r] < rows.group[r]
              /\ \A q \in StepsOf(r) : Group[q] < rows.group[r] => rows.step[q] \in Over
    PROVE  OrderInv(worker', db', starts')
<1> DEFINE old == worker[Pump]
           new == Session(old.busy, old.queue \ {r}, calls, old.seen, rows)
<1>1. /\ worker \in [Workers -> Worker] /\ Pump \in Workers /\ r \in old.queue /\ old.calls = <<>>
      /\ UNCHANGED <<db, starts>>
  BY DEF TypeOK, Workers, Turn, Pumped
<1>2. Becomes(Pump, new)
  BY <1>1, PumpedBecomes
<1>3. new \in Worker
  BY <1>1, <1>2 DEF Becomes, TypeOK
<1>4. new.calls = calls /\ new.queue = old.queue \ {r} /\ new.seen = old.seen /\ new.mine = rows
  BY DEF Session
<1>5. old.mine.status[r] # "absent" /\ db.group[r] = old.mine.group[r]
  <2>1. RowsFit(old, Pump, db)
    BY <1>1 DEF StartsInv, SessionFits
  <2> QED BY <1>1, <2>1 DEF RowsFit
<1>6. r \in worker[Pump].queue
  BY <1>1
<1> HIDE DEF new
<1>7. OrderInv([worker EXCEPT ![Pump] = new], db, starts)
  <2>1. \A x \in Runs :
             /\ new.mine.status[x] = "absent" <=> worker[Pump].mine.status[x] = "absent"
             /\ new.mine.status[x] = "running" => worker[Pump].mine.status[x] = "running"
             /\ x # r => new.mine.group[x] = worker[Pump].mine.group[x]
    BY <1>4
  <2>2. \A q \in Steps :
             \/ new.mine.step[q] = worker[Pump].mine.step[q]
             \/ RunOf[q] = r /\ worker[Pump].mine.step[q] = "running" /\ new.mine.step[q] \in Over
    BY <1>4
  <2>3. \/ new.calls = <<>> /\ new.mine.group[r] = worker[Pump].mine.group[r]
        \/ /\ new.calls = <<CallOn("dispatch", r, GroupSteps(r, new.mine.group[r]), NoStep)>>
           /\ worker[Pump].mine.group[r] < new.mine.group[r]
           /\ \A q \in StepsOf(r) : Group[q] < new.mine.group[r] => new.mine.step[q] \in Over
    BY <1>4
  <2>4. /\ worker[Pump].calls = <<>> /\ new.queue = worker[Pump].queue \ {r}
        /\ new.seen = worker[Pump].seen /\ worker[Pump].mine.status[r] # "absent"
        /\ db.group[r] = worker[Pump].mine.group[r]
    BY <1>1, <1>4, <1>5
  <2> QED BY ONLY RunsAssumption, OrderInv(worker, db, starts), <1>1, <1>3, <1>6, <2>1, <2>2, <2>3, <2>4,
             TurnMoves
<1> QED BY <1>1, <1>2, <1>7 DEF Becomes

\* The copies `rows` are those of the pump with running steps of r settled.
Settles(r, rows) ==
    LET mine == worker[Pump].mine IN
    /\ \A x \in Runs : /\ rows.status[x] = "absent" <=> mine.status[x] = "absent"
                       /\ rows.status[x] = "running" => mine.status[x] = "running"
                       /\ rows.group[x] = mine.group[x]
    /\ \A q \in Steps :
         \/ rows.step[q] = mine.step[q]
         \/ RunOf[q] = r /\ mine.step[q] = "running" /\ rows.step[q] \in Over

LEMMA ClosedSettles ==
    ASSUME NEW r \in Runs, NEW rows \in Rows, Settles(r, rows), rows.status[r] # "absent",
           NEW status \in Over
    PROVE  /\ Settles(r, [rows EXCEPT !.status[r] = status])
           /\ [rows EXCEPT !.status[r] = status] \in Rows
<1>1. PICK new : new = [rows EXCEPT !.status[r] = status]
  OBVIOUS
<1>2. new \in Rows
  BY <1>1, StatusOK DEF Over, RunStatuses
<1>3. /\ new.group = rows.group /\ new.step = rows.step
      /\ \A x \in Runs : new.status[x] = IF x = r THEN status ELSE rows.status[x]
  BY <1>1 DEF Rows
<1>4. Settles(r, new)
  BY <1>3 DEF Settles, Over
<1> QED BY <1>1, <1>2, <1>4

LEMMA SyncedSettles ==
    ASSUME TypeOK, NEW r, NEW late
    PROVE  /\ Settles(r, [worker[Pump].mine EXCEPT !.step = Synced(r, late)])
           /\ [worker[Pump].mine EXCEPT !.step = Synced(r, late)] \in Rows
<1> DEFINE mine == worker[Pump].mine
           rows == [mine EXCEPT !.step = Synced(r, late)]
<1>1. mine \in Rows /\ Synced(r, late) \in [Steps -> Statuses]
  BY SyncedOK DEF TypeOK, Worker, Workers
<1>2. rows \in Rows
  BY <1>1, StepsOK
<1>3. rows.status = mine.status /\ rows.group = mine.group /\ rows.step = Synced(r, late)
  BY <1>1 DEF Rows
<1>4. ASSUME NEW q \in Steps
      PROVE  \/ Synced(r, late)[q] = mine.step[q]
             \/ RunOf[q] = r /\ mine.step[q] = "running" /\ Synced(r, late)[q] \in Over
  <2>1. CASE q \notin Current(r) \/ mine.step[q] # "running"
    BY <2>1 DEF Synced
  <2>2. CASE q \in Current(r) /\ mine.step[q] = "running"
    <3>1. RunOf[q] = r
      BY <2>2 DEF Current, GroupSteps, StepsOf
    <3>2. Synced(r, late)[q] = IF q \in late THEN "failed" ELSE Outcome(q)
      BY <2>2 DEF Synced
    <3>3. Outcome(q) \in {"completed", "failed", "running"}
      BY DEF Outcome
    <3> QED BY <2>2, <3>1, <3>2, <3>3 DEF Over
  <2> QED BY <2>1, <2>2
<1> HIDE DEF rows
<1> QED BY <1>2, <1>3, <1>4 DEF Settles, rows

LEMMA LeftOrder ==
    ASSUME RunsAssumption, TypeOK, TypeOK', StartsInv, OrderInv(worker, db, starts),
           NEW r \in Runs, Turn(r), NEW rows \in Rows, Settles(r, rows), Pumped(r, rows, <<>>)
    PROVE  OrderInv(worker', db', starts')
<1>1. <<>> \in Seq(Call)
  OBVIOUS
<1>2. PICK calls \in Seq(Call) : calls = <<>>
  BY <1>1, Zenon
<1>3. \A x \in Runs : /\ rows.status[x] = "absent" <=> worker[Pump].mine.status[x] = "absent"
                      /\ rows.status[x] = "running" => worker[Pump].mine.status[x] = "running"
                      /\ x # r => rows.group[x] = worker[Pump].mine.group[x]
  BY DEF Settles
<1>4. \A q \in Steps :
        \/ rows.step[q] = worker[Pump].mine.step[q]
        \/ RunOf[q] = r /\ worker[Pump].mine.step[q] = "running" /\ rows.step[q] \in Over
  BY DEF Settles
<1>5. calls = <<>> /\ rows.group[r] = worker[Pump].mine.group[r] /\ Pumped(r, rows, calls)
  BY <1>2 DEF Settles
<1> QED BY <1>3, <1>4, <1>5, PumpedOrder

LEMMA NextGroupOrder ==
    ASSUME RunsAssumption, TypeOK, TypeOK', StartsInv, OrderInv(worker, db, starts),
           NEW r \in Runs, Turn(r), NEW rows \in Rows, Settles(r, rows),
           Ended(Current(r), rows.step), NEW g \in LaterGroups(r), \A h \in LaterGroups(r) : g <= h,
           Pumped(r, [rows EXCEPT !.group[r] = g], <<CallOn("dispatch", r, GroupSteps(r, g), NoStep)>>)
    PROVE  OrderInv(worker', db', starts')
<1> DEFINE mine == worker[Pump].mine
           c == CallOn("dispatch", r, GroupSteps(r, g), NoStep)
           new == [rows EXCEPT !.group[r] = g]
<1>1. g \in Nat /\ mine.group[r] < g /\ mine.group[r] \in Nat
  BY DEF LaterGroups, StepsOf, RunsAssumption, TypeOK, Worker, Workers, Rows
<1>2. new \in Rows
  BY <1>1, GroupOK
<1>3. /\ new.status = rows.status /\ new.step = rows.step /\ new.group[r] = g
      /\ \A x \in Runs : x # r => new.group[x] = rows.group[x]
  BY <1>1 DEF Rows
<1>4. <<c>> \in Seq(Call)
  <2>1. c \in Call
    BY CallOK, GroupStepsOK
  <2> HIDE DEF c
  <2> QED BY <2>1
<1>5. PICK calls \in Seq(Call) : calls = <<c>>
  BY <1>4, Zenon
<1>6. ASSUME NEW q \in StepsOf(r), Group[q] < g
      PROVE  rows.step[q] \in Over
  <2>1. q \in Steps /\ RunOf[q] = r /\ Group[q] \in Nat
    BY DEF StepsOf, RunsAssumption
  <2>2. Group[q] <= mine.group[r]
    <3>1. Group[q] > mine.group[r] => Group[q] \in LaterGroups(r)
      BY DEF LaterGroups
    <3> QED BY <1>1, <1>6, <2>1, <3>1
  <2>3. CASE Group[q] = mine.group[r]
    BY <2>1, <2>3 DEF Ended, Current, GroupSteps
  <2>4. CASE Group[q] < mine.group[r]
    <3>1. r \in worker[Pump].queue /\ Pump \in Workers
      BY DEF Turn, Workers
    <3>2. PumpFits(worker[Pump], db, q) /\ RowsFit(worker[Pump], Pump, db)
      BY <2>1, <3>1 DEF OrderInv, OrderFits, StartsInv, SessionFits
    <3>3. Known(worker[Pump], q)
      BY <2>1, <3>1, <3>2 DEF RowsFit, Known
    <3>4. mine.step[q] \in Over
      BY <2>1, <2>4, <3>2, <3>3 DEF PumpFits
    <3> QED BY <2>1, <3>4 DEF Settles, Over
  <2> QED BY <1>1, <2>1, <2>2, <2>3, <2>4
<1> HIDE DEF new, c
<1>7. \A x \in Runs : /\ new.status[x] = "absent" <=> worker[Pump].mine.status[x] = "absent"
                      /\ new.status[x] = "running" => worker[Pump].mine.status[x] = "running"
                      /\ x # r => new.group[x] = worker[Pump].mine.group[x]
  BY <1>3 DEF Settles
<1>8. \A q \in Steps :
        \/ new.step[q] = worker[Pump].mine.step[q]
        \/ RunOf[q] = r /\ worker[Pump].mine.step[q] = "running" /\ new.step[q] \in Over
  BY <1>3 DEF Settles
<1>9. /\ calls = <<CallOn("dispatch", r, GroupSteps(r, new.group[r]), NoStep)>>
      /\ worker[Pump].mine.group[r] < new.group[r]
      /\ \A q \in StepsOf(r) : Group[q] < new.group[r] => new.step[q] \in Over
  BY <1>1, <1>3, <1>5, <1>6 DEF c
<1>10. Pumped(r, new, calls)
  BY <1>5 DEF new, c
<1> QED BY ONLY RunsAssumption, TypeOK, TypeOK', StartsInv, OrderInv(worker, db, starts), r \in Runs,
           Turn(r), calls \in Seq(Call), <1>2, <1>7, <1>8, <1>9, <1>10, PumpedOrder

LEMMA LateSettles ==
    ASSUME TypeOK, NEW r \in Runs
    PROVE  LET mine == worker[Pump].mine
               step == [s \in Steps |-> IF RunOf[s] = r /\ mine.step[s] = "running"
                                        THEN "failed" ELSE mine.step[s]]
           IN Settles(r, [mine EXCEPT !.step = step]) /\ [mine EXCEPT !.step = step] \in Rows
<1> DEFINE mine == worker[Pump].mine
           step == [s \in Steps |-> IF RunOf[s] = r /\ mine.step[s] = "running"
                                        THEN "failed" ELSE mine.step[s]]
<1>1. mine \in Rows
  BY DEF TypeOK, Worker, Workers
<1>2. step \in [Steps -> Statuses]
  BY <1>1 DEF Rows, Statuses, Over
<1>3. PICK new : new = [mine EXCEPT !.step = step]
  OBVIOUS
<1>4. \A q \in Steps : \/ step[q] = mine.step[q]
                       \/ RunOf[q] = r /\ mine.step[q] = "running" /\ step[q] \in Over
  BY DEF Over
<1> HIDE DEF step
<1>5. new \in Rows /\ new.status = mine.status /\ new.group = mine.group /\ new.step = step
  BY <1>1, <1>2, <1>3, StepsOK DEF Rows
<1>6. Settles(r, new)
  BY <1>4, <1>5 DEF Settles
<1> QED BY <1>3, <1>5, <1>6 DEF step

LEMMA TurnOrder ==
    ASSUME RunsAssumption, TypeOK, TypeOK', StartsInv, OrderInv(worker, db, starts),
           NEW r \in Runs, PumpTurn(r)
    PROVE  OrderInv(worker', db', starts')
<1> DEFINE o == worker[Pump]
<1>1. Turn(r) /\ r \in o.queue /\ Pump \in Workers /\ o.mine \in Rows
  BY DEF PumpTurn, PumpLate, PumpEmpty, PumpWait, PumpGroupEnded, Turn, Workers, TypeOK, Worker
<1>2. o.mine.status[r] # "absent"
  <2>1. RowsFit(o, Pump, db)
    BY <1>1 DEF StartsInv, SessionFits
  <2> QED BY <1>1, <2>1 DEF RowsFit
<1>3. Settles(r, o.mine)
  BY DEF Settles
<1>4. CASE PumpLate(r)
  <2> DEFINE step == [s \in Steps |-> IF RunOf[s] = r /\ o.mine.step[s] = "running"
                                      THEN "failed" ELSE o.mine.step[s]]
  <2>1. PICK rows : rows = [o.mine EXCEPT !.step = step]
    OBVIOUS
  <2>2. Settles(r, rows) /\ rows \in Rows
    BY <2>1, LateSettles
  <2>3. rows.status[r] # "absent"
    BY <1>2, <2>2 DEF Settles
  <2>4. Pumped(r, [o.mine EXCEPT !.status[r] = "failed", !.step = step], <<>>)
    BY <1>4 DEF PumpLate
  <2> HIDE DEF step
  <2>5. [o.mine EXCEPT !.status[r] = "failed", !.step = step] = [rows EXCEPT !.status[r] = "failed"]
    BY <1>1, <2>1 DEF Rows
  <2>6. PICK new : new = [rows EXCEPT !.status[r] = "failed"]
    OBVIOUS
  <2>7. Settles(r, new) /\ new \in Rows
    BY <2>2, <2>3, <2>6, ClosedSettles DEF Over
  <2>8. Pumped(r, new, <<>>)
    BY <2>4, <2>5, <2>6
  <2> QED BY <1>1, <2>7, <2>8, LeftOrder
<1>5. CASE PumpEmpty(r)
  <2>1. PICK new : new = [o.mine EXCEPT !.status[r] = "failed"]
    OBVIOUS
  <2>2. Settles(r, new) /\ new \in Rows
    BY <1>1, <1>2, <1>3, <2>1, ClosedSettles DEF Over
  <2>3. Pumped(r, new, <<>>)
    BY <1>5, <2>1 DEF PumpEmpty
  <2> QED BY <1>1, <2>2, <2>3, LeftOrder
<1>6. CASE PumpWait(r)
  <2>1. PICK late : Pumped(r, [o.mine EXCEPT !.step = Synced(r, late)], <<>>)
    BY <1>6 DEF PumpWait
  <2>2. PICK new : new = [o.mine EXCEPT !.step = Synced(r, late)]
    OBVIOUS
  <2>3. Settles(r, new) /\ new \in Rows
    BY <2>2, SyncedSettles
  <2>4. Pumped(r, new, <<>>)
    BY <2>1, <2>2
  <2> QED BY <1>1, <2>3, <2>4, LeftOrder
<1>7. CASE PumpGroupEnded(r)
  <2>1. PICK late :
          LET rows == [o.mine EXCEPT !.step = Synced(r, late)] IN
          /\ Ended(Current(r), Synced(r, late))
          /\ \/ Pumped(r, [rows EXCEPT !.status[r] = "failed"], <<>>)
             \/ Pumped(r, [rows EXCEPT !.status[r] = "completed"], <<>>)
             \/ \E g \in LaterGroups(r) :
                  /\ \A h \in LaterGroups(r) : g <= h
                  /\ Pumped(r, [rows EXCEPT !.group[r] = g],
                            <<CallOn("dispatch", r, GroupSteps(r, g), NoStep)>>)
    BY <1>7 DEF PumpGroupEnded
  <2>2. PICK rows : rows = [o.mine EXCEPT !.step = Synced(r, late)]
    OBVIOUS
  <2>3. Settles(r, rows) /\ rows \in Rows
    BY <2>2, SyncedSettles
  <2>4. rows.status[r] # "absent" /\ rows.step = Synced(r, late)
    BY <1>1, <1>2, <2>2 DEF Rows
  <2>5. ASSUME NEW status \in Over, Pumped(r, [rows EXCEPT !.status[r] = status], <<>>)
        PROVE  OrderInv(worker', db', starts')
    <3>1. PICK new : new = [rows EXCEPT !.status[r] = status]
      OBVIOUS
    <3>2. Settles(r, new) /\ new \in Rows
      BY <2>3, <2>4, <3>1, ClosedSettles
    <3>3. Pumped(r, new, <<>>)
      BY <2>5, <3>1
    <3> QED BY <1>1, <3>2, <3>3, LeftOrder
  <2>6. ASSUME NEW g \in LaterGroups(r), \A h \in LaterGroups(r) : g <= h,
               Pumped(r, [rows EXCEPT !.group[r] = g],
                      <<CallOn("dispatch", r, GroupSteps(r, g), NoStep)>>)
        PROVE  OrderInv(worker', db', starts')
    <3>1. Ended(Current(r), rows.step)
      BY <2>1, <2>4
    <3> QED BY <1>1, <2>3, <2>6, <3>1, NextGroupOrder
  <2> QED BY <2>1, <2>2, <2>5, <2>6 DEF Over
<1> QED BY <1>4, <1>5, <1>6, <1>7 DEF PumpTurn

LEMMA PumpOrder ==
    ASSUME RunsAssumption, TypeOK, TypeOK', StartsInv, OrderInv(worker, db, starts),
           PumpBegin \/ PumpEnd \/ \E r \in Runs : PumpTurn(r)
    PROVE  OrderInv(worker', db', starts')
<1>1. Pump \in Workers
  BY DEF Workers
<1>2. CASE PumpBegin
  <2>1. PICK Q \in SUBSET {r \in Runs : db.status[r] = "running"} :
             worker' = [worker EXCEPT ![Pump] = Session("pump", Q, <<>>, Load(Empty, Q), Load(Empty, Q))]
    BY <1>2 DEF PumpBegin, Session
  <2> DEFINE new == Session("pump", Q, <<>>, Load(Empty, Q), Load(Empty, Q))
  <2>2. new \in Worker
    BY <1>1, <2>1 DEF TypeOK
  <2>3. UNCHANGED <<db, starts>>
    BY <1>2 DEF PumpBegin
  <2>4. new.calls = <<>> /\ new.seen = Load(Empty, Q) /\ new.mine = Load(Empty, Q) /\ new.queue = Q
    BY DEF Session
  <2>5. Q \in SUBSET Runs /\ \A r \in Q : db.status[r] = "running"
    OBVIOUS
  <2> HIDE DEF new
  <2>6. OrderInv([worker EXCEPT ![Pump] = new], db, starts)
    BY <2>2, <2>4, <2>5, PassMoves
  <2> QED BY <2>1, <2>3, <2>6 DEF new
<1>3. CASE PumpEnd
  BY <1>1, <1>3, EndsOrder DEF PumpEnd
<1> QED BY <1>2, <1>3, TurnOrder

LEMMA RestartOrder ==
    ASSUME RunsAssumption, TypeOK, OrderInv(worker, db, starts), Restart
    PROVE  OrderInv(worker', db', starts')
<1>1. \A v \in Workers : worker'[v] = Idle
  BY DEF Restart
<1>2. \A v \in Workers : OrderFits(worker'[v], v, db', starts')
  BY <1>1, IdleFits
<1>3. \A v, u \in Workers : \A q \in Steps : Apart(v, worker'[v], worker'[u], db', q)
  BY <1>1 DEF Apart, Unrecorded, Holds, Waits, Dispatches, Idle, Empty
<1>4. RowsInOrder(db')
  <2>1. CASE db' = db
    BY <2>1 DEF OrderInv
  <2>2. ASSUME NEW step,
               db' = [db EXCEPT !.status = [r \in Runs |-> IF r \in {q \in Runs : db.status[q] = "running"}
                                                           THEN "failed" ELSE db.status[r]],
                                !.step = step]
        PROVE  RowsInOrder(db')
    <3>1. \A r \in Runs : db'.status[r] # "running"
      BY <2>2 DEF TypeOK, Rows
    <3> QED BY <3>1 DEF RowsInOrder, RunsAssumption
  <2> QED BY <2>1, <2>2 DEF Restart
<1> QED BY <1>2, <1>3, <1>4 DEF OrderInv

LEMMA RaiseOrder ==
    ASSUME RunsAssumption, TypeOK, TypeOK', StartsInv, OrderInv(worker, db, starts),
           NEW w \in Workers, DispatchRaises(w)
    PROVE  OrderInv(worker', db', starts')
<1> DEFINE old == worker[w]
<1>1. /\ UNCHANGED <<db, starts>> /\ worker \in [Workers -> Worker] /\ old.mine \in Rows
      /\ old.calls \in Seq(Call) /\ old.calls # <<>> /\ Now(w) = old.calls[1]
  BY NowOK DEF DispatchRaises, InCall, TypeOK, Worker
<1>2. CASE Now(w).for # NoStep /\ Continue(w, Mark(old.mine, Now(w).for, "failed"), Tail(old.calls))
  <2>1. PICK s : s = Now(w).for
    OBVIOUS
  <2>2. /\ s \in Steps /\ Holds(old.calls, s) /\ Tail(old.calls) \in Seq(Call)
        /\ Continues(Tail(old.calls), old.calls) /\ ~Holds(Tail(old.calls), s)
    BY <1>1, <1>2, <2>1, ToRecord
  <2>3. PICK calls \in Seq(Call) : calls = Tail(old.calls)
    BY <2>2
  <2> QED BY <1>1, <1>2, <2>1, <2>2, <2>3, RecordOrder
<1>3. CASE old.busy = "pump" /\ Continue(w, [old.mine EXCEPT !.status[Now(w).run] = "failed"], <<>>)
  <2>1. w = Pump
    BY <1>3 DEF StartsInv, SessionFits
  <2>2. PICK r \in Runs : r = Now(w).run /\ old.mine.status[r] # "absent"
    <3>1. 1 \in 1..Len(old.calls)
      BY <1>1, PoppedCall
    <3> QED BY <1>1, <3>1, RunsOfCalls
  <2> DEFINE rows == [old.mine EXCEPT !.status[r] = "failed"]
             new == Session(old.busy, old.queue, <<>>, old.seen, rows)
  <2>3. Becomes(w, new)
    BY <1>1, <1>3, <2>2, ContinueBecomes
  <2>4. new \in Worker
    BY <2>3 DEF Becomes, TypeOK
  <2>5. new.calls = <<>> /\ new.queue = old.queue /\ new.seen = old.seen /\ new.mine = rows
    BY DEF Session
  <2>6. /\ rows.step = old.mine.step /\ rows.group = old.mine.group
        /\ \A x \in Runs : rows.status[x] = IF x = r THEN "failed" ELSE old.mine.status[x]
    BY <1>1 DEF Rows
  <2>7. \A x \in Runs : /\ rows.status[x] = "absent" <=> old.mine.status[x] = "absent"
                        /\ rows.status[x] = "running" => old.mine.status[x] = "running"
    BY <2>2, <2>6
  <2> HIDE DEF new, rows
  <2>8. OrderInv([worker EXCEPT ![Pump] = new], db, starts)
    BY <1>1, <2>1, <2>4, <2>5, <2>6, <2>7, RaiseMoves
  <2> QED BY <1>1, <2>1, <2>3, <2>8 DEF Becomes
<1>4. CASE worker' = [worker EXCEPT ![w] = Idle]
  BY <1>1, <1>4, EndsOrder
<1> QED BY <1>2, <1>3, <1>4 DEF DispatchRaises

LEMMA OrderStep ==
    ASSUME RunsAssumption, NestingAssumption, CancelsInOrder, TypeOK, TypeOK', StartsInv,
           OrderInv(worker, db, starts), [Next]_vars
    PROVE  OrderInv(worker', db', starts')
<1>1. ASSUME NEW w \in Callers, Request(w)
      PROVE  OrderInv(worker', db', starts')
  BY <1>1, RequestOrder
<1>2. ASSUME NEW w \in Workers, Proceed(w)
      PROVE  OrderInv(worker', db', starts')
  BY <1>2, ProceedOrder
<1>3. CASE PumpBegin \/ PumpEnd \/ \E r \in Runs : PumpTurn(r)
  BY <1>3, PumpOrder
<1>4. CASE UNCHANGED <<db, starts, worker>>
  BY <1>4
<1>5. CASE Fault
  <2>1. ASSUME NEW w \in Workers, Disconnect(w)
        PROVE  OrderInv(worker', db', starts')
    BY <2>1, EndsOrder DEF Disconnect
  <2> QED BY <1>5, <2>1, RestartOrder, RaiseOrder DEF Fault
<1> QED BY <1>1, <1>2, <1>3, <1>4, <1>5 DEF Next, TaskEnds, vars

LEMMA OrderInit == ASSUME RunsAssumption, Init PROVE OrderInv(worker, db, starts)
<1>1. \A v \in Workers : worker[v] = Idle
  BY DEF Init
<1>2. \A v \in Workers : OrderFits(worker[v], v, db, starts)
  BY <1>1, IdleFits
<1>3. \A v, u \in Workers : \A q \in Steps : Apart(v, worker[v], worker[u], db, q)
  BY <1>1 DEF Apart, Unrecorded, Holds, Waits, Dispatches, Idle, Empty
<1>4. RowsInOrder(db)
  BY DEF RowsInOrder, Init, Empty, RunsAssumption
<1> QED BY <1>2, <1>3, <1>4 DEF OrderInv

\* Whoever starts a step has the steps of the earlier groups ended, and the
\* commit that starts it leaves them so.
LEMMA StartsInOrder ==
    ASSUME RunsAssumption, TypeOK, StartsInv, OrderInv(worker, db, starts), NEW w \in Workers,
           InCall(w, "dispatch"), NEW s \in Now(w).left,
           NEW q \in Steps, RunOf[q] = RunOf[s], Group[q] < Group[s]
    PROVE  Committed(w).step[q] \in Over /\ db.status[RunOf[q]] # "absent"
<1> DEFINE o == worker[w]
<1>1. s \in Steps /\ Dispatches(o.calls, 1, s) /\ Holds(o.calls, s)
  BY NextToDispatch, ToDispatch
<1>2. RunOf[s] \in Runs /\ Group[q] \in Nat /\ Group[s] \in Nat
  BY <1>1 DEF RunsAssumption
<1>3. CallFits(o, w, 1, starts) /\ o.calls[1].op = "dispatch" /\ s \in o.calls[1].left
  BY <1>1 DEF StartsInv, SessionFits, Dispatches
<1>4. w = Pump /\ o.mine.status[RunOf[s]] # "absent" /\ Group[s] = o.mine.group[RunOf[s]]
  <2>1. Group[s] # 0
    BY <1>2
  <2> QED BY <1>3, <2>1 DEF CallFits
<1>5. StackFits(o, db) /\ PumpFits(o, db, q)
  BY <1>4 DEF OrderInv, OrderFits
<1>6. o.mine.step[q] \in Over /\ (o.seen.step[q] \in Over => db.step[q] \in Over)
  BY <1>4, <1>5 DEF PumpFits, Known
<1>7. db.status[RunOf[q]] # "absent"
  BY <1>2, <1>4, <1>5 DEF StackFits
<1>8. Committed(w).step[q] = IF o.mine.step[q] # o.seen.step[q] THEN o.mine.step[q] ELSE db.step[q]
  BY CommittedStep
<1> HIDE DEF o
<1> QED BY <1>6, <1>7, <1>8

LEMMA InOrder ==
    ASSUME RunsAssumption, NestingAssumption, TypeOK, StartsInv, OrderInv(worker, db, starts), [Next]_vars,
           NEW s \in Steps, NEW q \in Steps, starts'[s] # starts[s], RunOf[q] = RunOf[s], Group[q] < Group[s]
    PROVE  db'.step[q] \in Over
<1>1. PICK w \in Workers : DispatchTask(w) \/ StartChild(w)
  <2>1. starts' # starts
    OBVIOUS
  <2>2. CASE \E w \in Callers : Request(w)
    BY <2>1, <2>2 DEF Request, Execute, CancelRequest, CancelStepRequest
  <2>3. CASE PumpBegin \/ PumpEnd \/ \E r \in Runs : PumpTurn(r)
    BY ZenonT(30), <2>1, <2>3 DEF PumpBegin, PumpEnd, PumpTurn, PumpLate, PumpEmpty, PumpWait, PumpGroupEnded, Pumped
  <2>4. CASE Fault \/ (\E x \in Steps : TaskEnds(x)) \/ UNCHANGED vars
    BY <2>1, <2>4 DEF Fault, Restart, DispatchRaises, Disconnect, TaskEnds, vars
  <2>5. ASSUME NEW w \in Workers, DispatchFails(w) \/ Return(w) \/ CancelStep(w)
        PROVE  FALSE
    BY <2>1, <2>5 DEF DispatchFails, Return, CancelStep
  <2> QED BY <2>2, <2>3, <2>4, <2>5 DEF Next, Proceed
<1>2. PICK x \in Now(w).left :
        /\ starts' = [starts EXCEPT ![x] = @ + 1]
        /\ \/ db' = Committed(w)
           \/ Child[x] # NoRun /\ db' = Created(Committed(w), Child[x])
  BY <1>1 DEF DispatchTask, StartChild
<1>3. InCall(w, "dispatch")
  BY <1>1 DEF DispatchTask, StartChild
<1>4. x = s
  BY <1>2 DEF TypeOK
<1>5. Committed(w).step[q] \in Over /\ db.status[RunOf[q]] # "absent"
  BY <1>2, <1>3, <1>4, StartsInOrder
<1>6. CASE Child[x] # NoRun /\ db' = Created(Committed(w), Child[x])
  <2>1. starts[s] = 0
    BY <1>3, <1>4, ToDispatch
  <2>2. Child[s] \in Runs /\ db.status[Child[s]] = "absent"
    BY <1>4, <1>6, <2>1 DEF StartsInv, Begun, RunsAssumption
  <2>3. Committed(w) \in Rows
    BY CommittedOK DEF TypeOK
  <2> QED BY <1>4, <1>5, <1>6, <2>2, <2>3, CreatedStep
<1> QED BY <1>2, <1>5, <1>6

\* Steps start in the order of their groups (pump_running_workflows and
\* _dispatch_step_group), however sessions overlap, fail and lose what they
\* have not committed, as long as single steps are canceled in order.
THEOREM StepsStartInOrder ==
    ASSUME RunsAssumption, NestingAssumption, CancelsInOrder PROVE Spec => GroupsInOrder
<1> DEFINE Inv == TypeOK /\ StartsInv /\ OrderInv(worker, db, starts)
           InTurn == \A s, q \in Steps :
                       starts'[s] # starts[s] /\ RunOf[q] = RunOf[s] /\ Group[q] < Group[s]
                       => db'.step[q] \in Over
<1>1. Init => Inv
  BY TypeInit, StartsInit, OrderInit
<1>2. Inv /\ [Next]_vars => Inv'
  <2> SUFFICES ASSUME TypeOK, StartsInv, OrderInv(worker, db, starts), [Next]_vars
               PROVE  (TypeOK /\ StartsInv /\ OrderInv(worker, db, starts))'
    OBVIOUS
  <2>1. TypeOK'
    BY TypeStep
  <2>2. StartsInv'
    BY <2>1, StartsStep
  <2>3. OrderInv(worker', db', starts')
    BY <2>1, OrderStep
  <2> QED BY <2>1, <2>2, <2>3
<1>3. Inv /\ [Next]_vars => [InTurn]_vars
  BY InOrder
<1> HIDE DEF Inv
<1>4. Spec => [][InTurn]_vars
  BY <1>1, <1>2, <1>3, PTL DEF Spec
<1> QED BY <1>4 DEF GroupsInOrder
=============================================================================
